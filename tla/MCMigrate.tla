----------------------------- MODULE MCMigrate -----------------------------
(* Two releases, a release with an edited second migration, three processes. *)
EXTENDS Migrate, TLC

MCBinary == {"old", "new", "edited"}

MCEmbedded ==
  [b \in MCBinary |->
     CASE b = "old"    -> <<"a", "b">>
       [] b = "new"    -> <<"a", "b", "c">>
       [] b = "edited" -> <<"a", "x">>]

\* Next treats all processes alike.
Processes == Permutations(Process)
=============================================================================
