--------------------------- MODULE MCAuthService ---------------------------
(***************************************************************************)
(* Instances of AuthService for TLC.                                       *)
(***************************************************************************)
EXTENDS AuthService, TLC

CONSTANTS u1, u2

\* Both ids are of one email: an account, and the one that re-registers it.
SameEmail == [u \in Users |-> "a@example.com"]

\* Two accounts.
OwnEmail == [u \in Users |-> IF u = u1 THEN "a@example.com" ELSE "b@example.com"]

\* Ids, passwords and request slots are interchangeable; user ids are not told
\* apart by the emails of either instance above.
Symmetry ==
    Permutations(Sessions) \cup Permutations(Digests) \cup
    Permutations(Passwords) \cup Permutations(Requests)
=============================================================================
