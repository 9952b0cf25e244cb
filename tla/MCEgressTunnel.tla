--------------------------- MODULE MCEgressTunnel ---------------------------
(* An allow-list with a malformed entry, and requests that hit and miss it. *)
EXTENDS EgressTunnel

HostPort(h, p) == [host |-> h, port |-> p]

Listed == {HostPort("api", "443"), HostPort("files", "80"), HostPort("a/b", "443")}

Wanted == {HostPort("api", "443"), HostPort("api", ""), HostPort("files", ""),
           HostPort("a/b", "443"), HostPort("", "443"), HostPort("api", "x")}

AllRequests == [method: {"CONNECT", "GET"}, dest: Wanted, absolute: BOOLEAN]
=============================================================================
