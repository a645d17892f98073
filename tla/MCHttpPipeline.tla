--------------------------- MODULE MCHttpPipeline ---------------------------
EXTENDS HttpPipeline, TLC

\* Requests, accounts and sessions are interchangeable: no definition of
\* HttpPipeline orders or names them.
Symmetry == Permutations(Requests) \union Permutations(Accounts) \union Permutations(Sessions)

=============================================================================
