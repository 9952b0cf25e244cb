---------------------------- MODULE EgressTunnel ----------------------------
(***************************************************************************)
(* One connection to the egress proxy of a Stack (cmd/egress-proxy): a     *)
(* CONNECT is checked against the allow-list, dialled, hijacked from the   *)
(* HTTP server and tunnelled by two copying goroutines, one per direction; *)
(* an absolute plain-HTTP request is checked and forwarded.                *)
(*                                                                         *)
(* Abstractions.  What an end sends is counted in chunks, at most          *)
(* MaxChunks of them; a direction is named after its source.  A host:port  *)
(* is a record whose port is "" when there is none.  The two ends and the  *)
(* network are external.                                                   *)
(***************************************************************************)
EXTENDS Naturals

CONSTANTS
  Allowlist,   \* the entries of EGRESS_ALLOWLIST
  Requests,    \* the requests a service of the Stack may send
  MaxChunks    \* bound: what each end sends

ASSUME EgressAssumption == MaxChunks \in Nat

End == {"client", "upstream"}
Other(e) == IF e = "client" THEN "upstream" ELSE "client"

VARIABLES
  request,   \* method, destination, and whether its URL is absolute
  phase,     \* where the handler is
  ends,      \* "open", "finished" (it has closed its write half) or "reset"
  copy,      \* the goroutine that copies from each end
  sent, read, written, got   \* chunks of each direction, on their way

bytes == <<sent, read, written, got>>
vars  == <<request, phase, ends, copy, sent, read, written, got>>

Phase == {"serving", "dialling", "connected", "hijacked", "tunnel", "closing", "closed",
          "forwarding", "answered", "refused"}

-----------------------------------------------------------------------------
(* The allow-list *)

BadHosts   == {"", "a/b"}          \* empty, or with a slash, backslash or blank
ValidPorts == {"80", "443"}        \* of those the instances use

\* A set of at most one host:port: none when the string does not parse.
normalizeHostPort(s, defaultPort) ==
  LET port == IF s.port = "" THEN defaultPort ELSE s.port
  IN {[host |-> s.host, port |-> p] : p \in {port} \cap ValidPorts}
       \ {[host |-> h, port |-> port] : h \in BadHosts}

parseAllowlist(entries) == UNION {normalizeHostPort(s, "") : s \in entries}

\* Not ok, or not on the list: both are denied.
allowed(s, defaultPort) ==
  \E dest \in normalizeHostPort(s, defaultPort) : dest \in parseAllowlist(Allowlist)

-----------------------------------------------------------------------------
Init ==
  /\ request \in Requests
  /\ phase = "serving"
  /\ ends = [e \in End |-> "open"]
  /\ copy = [e \in End |-> "unborn"]
  /\ sent = [e \in End |-> 0] /\ read = sent /\ written = sent /\ got = sent

HandlerGoes(from, to) ==
  /\ phase = from
  /\ phase' = to
  /\ UNCHANGED <<request, ends>>

handleConnect ==
  /\ request.method = "CONNECT"
  /\ HandlerGoes("serving", IF allowed(request.dest, "") THEN "dialling" ELSE "refused")
  /\ UNCHANGED <<copy, bytes>>

handleHTTP ==
  /\ request.method # "CONNECT"
  /\ HandlerGoes("serving", IF request.absolute /\ allowed(request.dest, "80")
                            THEN "forwarding" ELSE "refused")
  /\ UNCHANGED <<copy, bytes>>

\* The round trip fails with a 502, or its response is copied.
RoundTrips ==
  /\ HandlerGoes("forwarding", "refused") \/ HandlerGoes("forwarding", "answered")
  /\ UNCHANGED <<copy, bytes>>

\* DialTimeout gives up after 15 s.
Dials ==
  /\ HandlerGoes("dialling", "connected") \/ HandlerGoes("dialling", "refused")
  /\ UNCHANGED <<copy, bytes>>

\* Hijack fails; or it returns the connection with a reader that holds what the
\* client has sent already, and the handler keeps the connection only.
Hijacks ==
  \/ HandlerGoes("connected", "refused") /\ UNCHANGED <<copy, bytes>>
  \/ /\ HandlerGoes("connected", "hijacked")
     /\ \E buffered \in 0..sent["client"] : sent' = [sent EXCEPT !["client"] = @ - buffered]
     /\ UNCHANGED <<copy, read, written, got>>

\* The "200 Connection Established", and both goroutines start.
Establishes ==
  \/ /\ HandlerGoes("hijacked", "tunnel")
     /\ copy' = [e \in End |-> "copying"]
     /\ UNCHANGED bytes
  \/ /\ ends["client"] = "reset"
     /\ HandlerGoes("hijacked", "closing")
     /\ UNCHANGED <<copy, bytes>>

-----------------------------------------------------------------------------
(* tunnel: io.Copy reads a chunk and writes it before it reads the next. *)

CopyReads(e) ==
  /\ copy[e] = "copying" /\ read[e] = written[e]
  /\ ends[e] # "reset" /\ read[e] < sent[e]
  /\ read' = [read EXCEPT ![e] = @ + 1]
  /\ UNCHANGED <<request, phase, ends, copy, sent, written, got>>

CopyWrites(e) ==
  /\ copy[e] = "copying" /\ written[e] < read[e]
  /\ ends[Other(e)] # "reset"
  /\ written' = [written EXCEPT ![e] = @ + 1]
  /\ UNCHANGED <<request, phase, ends, copy, sent, read, got>>

\* End of file or a read error from e; or a write error to the other end.
CopyStops(e) ==
  \/ /\ read[e] = written[e]
     /\ \/ ends[e] = "reset"
        \/ ends[e] = "finished" /\ read[e] = sent[e]
  \/ written[e] < read[e] /\ ends[Other(e)] = "reset"

\* Mutant: the copy returns without closeWrite.
CopyEnds_Open(e) ==
  /\ copy[e] = "copying" /\ CopyStops(e)
  /\ copy' = [copy EXCEPT ![e] = "ended"]
  /\ UNCHANGED <<request, phase, ends, bytes>>

\* io.Copy returns, and closeWrite half-closes the other end's connection.
CopyEnds(e) ==
  /\ copy[e] = "copying" /\ CopyStops(e)
  /\ copy' = [copy EXCEPT ![e] = "halfclosed"]
  /\ UNCHANGED <<request, phase, ends, bytes>>

Ended == {"ended", "halfclosed"}

\* Mutant: the first direction to end ends the tunnel.
TunnelReturns_First ==
  /\ \E e \in End : copy[e] \in Ended
  /\ HandlerGoes("tunnel", "closing")
  /\ UNCHANGED <<copy, bytes>>

\* wg.Wait: both directions have finished.
TunnelReturns ==
  /\ \A e \in End : copy[e] \in Ended
  /\ HandlerGoes("tunnel", "closing")
  /\ UNCHANGED <<copy, bytes>>

\* The deferred client.Close and upstream.Close.
Closes == HandlerGoes("closing", "closed") /\ UNCHANGED <<copy, bytes>>

-----------------------------------------------------------------------------
(* The two ends, from the moment they are connected to the proxy. *)

Connected(e) == e = "client" \/ phase \notin {"serving", "dialling", "refused"}
Going == phase \in {"dialling", "connected", "hijacked", "tunnel"}

Sends(e) ==
  /\ Going /\ Connected(e) /\ ends[e] = "open" /\ sent[e] < MaxChunks
  /\ sent' = [sent EXCEPT ![e] = @ + 1]
  /\ UNCHANGED <<request, phase, ends, copy, read, written, got>>

Arrives(e) ==
  /\ ends[Other(e)] # "reset" /\ got[e] < written[e]
  /\ got' = [got EXCEPT ![e] = @ + 1]
  /\ UNCHANGED <<request, phase, ends, copy, sent, read, written>>

EndGoes(e, to) ==
  /\ Going /\ Connected(e)
  /\ ends' = [ends EXCEPT ![e] = to]
  /\ UNCHANGED <<request, phase, copy, bytes>>

Finishes(e) == ends[e] = "open" /\ EndGoes(e, "finished")

Resets(e) == ends[e] # "reset" /\ EndGoes(e, "reset")

\* An end that has read everything, then the end of file.
SeesEOF(e) == copy[Other(e)] = "halfclosed" /\ got[Other(e)] = written[Other(e)]

HangsUp(e) == SeesEOF(e) /\ Finishes(e)

-----------------------------------------------------------------------------
Proxy(e) == CopyReads(e) \/ CopyWrites(e) \/ CopyEnds(e)

Handler == handleConnect \/ handleHTTP \/ RoundTrips \/ Dials \/ Hijacks \/ Establishes
             \/ TunnelReturns \/ Closes

Over == phase \in {"closed", "answered", "refused"} /\ UNCHANGED vars

Next ==
  \/ Handler \/ Over
  \/ \E e \in End : Proxy(e) \/ Sends(e) \/ Arrives(e) \/ Finishes(e) \/ Resets(e)

Spec == Init /\ [][Next]_vars

\* The goroutines run, the network delivers, and an end that has seen the end
\* of file hangs up some day; nobody else has to.
Fairness ==
  /\ WF_vars(Handler)
  /\ \A e \in End : WF_vars(Proxy(e)) /\ WF_vars(Arrives(e)) /\ WF_vars(HangsUp(e))

FairSpec == Spec /\ Fairness

-----------------------------------------------------------------------------
TypeOK ==
  /\ request \in Requests
  /\ phase \in Phase
  /\ ends \in [End -> {"open", "finished", "reset"}]
  /\ copy \in [End -> {"unborn", "copying", "ended", "halfclosed"}]
  /\ \A e \in End : /\ {got[e], written[e], read[e], sent[e]} \subseteq 0..MaxChunks
                    /\ got[e] <= written[e] /\ written[e] <= read[e] /\ read[e] <= sent[e]

\* tunnel's comment: one side's end must not "truncate the still-open direction",
\* nor the deferred closes "discard in-flight bytes".  Unless an end resets its
\* connection, no direction is cut off, by a half-close or by the closes, before
\* its source has finished and everything it sent has been passed on.
NothingIsTruncated ==
  \A e \in End :
    (\A x \in End : ends[x] # "reset") /\ (copy[e] \in Ended \/ phase \in {"closing", "closed"})
      => ends[e] = "finished" /\ written[e] = sent[e]

\* A tunnel does not outlive its ends: when one of them finishes or resets, the
\* other is told, and once it has hung up too both connections are closed.
TunnelsEnd ==
  (phase = "tunnel" /\ \E e \in End : ends[e] # "open") ~> phase = "closed"
=============================================================================
