------------------------------ MODULE MCRouting ------------------------------
(* Routing with a Session that declares `/api/` and one, slow to boot, whose *)
(* API prefixes are nested.                                                  *)
EXTENDS Routing, TLC

CONSTANTS s1, s2

Declared(segments, slash) == [segments |-> segments, slash |-> slash]

MCPrefix ==
  s1 :> <<Declared(<<"api">>, TRUE)>> @@
  s2 :> <<Declared(<<"api">>, FALSE), Declared(<<"api", "v2">>, FALSE)>>

MCPaths  == {<<>>, <<"api", "v2">>, <<"apidocs">>}
MCBegins == {<<"api", "apidocs">>}
=============================================================================
