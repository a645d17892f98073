--------------------------- MODULE MCUserProfiles ---------------------------
(***************************************************************************)
(* An instance of UserProfiles for TLC.                                    *)
(***************************************************************************)
EXTENDS UserProfiles, TLC

\* Two addresses, the first in two spellings, and a text that is none.
Emails ==
    { EmailText("ada", FALSE, FALSE, TRUE), EmailText("ada", TRUE, TRUE, TRUE),
      EmailText("bob", FALSE, FALSE, TRUE), EmailText("none", FALSE, FALSE, FALSE) }

\* Two names, one of them with white space around it, and one with digits.
Names ==
    { NameText("Ada", FALSE, 3, TRUE), NameText("Bob", TRUE, 3, TRUE),
      NameText("R2D2", FALSE, 4, FALSE) }

Symmetry == Permutations(Requests)
=============================================================================
