----------------------------- MODULE MCPortfolio -----------------------------
(* Portfolio with interchangeable Owners, usernames, Projects and requests. *)
EXTENDS Portfolio, TLC

Names == Permutations(Owner) \union Permutations(Username)
           \union Permutations(Project) \union Permutations(Claim)
=============================================================================
