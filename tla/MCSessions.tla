----------------------------- MODULE MCSessions -----------------------------
(* Small instances of Sessions: Session ids are interchangeable. *)
EXTENDS Sessions, TLC

Ids == Permutations(Session)
=============================================================================
