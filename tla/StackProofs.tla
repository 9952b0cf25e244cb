------------------------------- MODULE StackProofs -------------------------------
(* What TLAPS proves about the Stack: the Compose file it is started from    *)
(* and the life of its containers (StackBoot), for any forms; and its egress *)
(* proxy (EgressTunnel), for every allow-list, request and number of chunks. *)
EXTENDS EgressTunnel, StackBoot, SequenceTheorems, FiniteSetTheorems,
        WellFoundedInduction, TLAPS

-----------------------------------------------------------------------------
(* EgressTunnel *)

\* Before the tunnel nobody copies; a copy that has not started has moved
\* nothing; a copy that has ended under two ends that did not reset has seen
\* its source finish and passed everything on; and the handler closes the
\* connections after both copies, or because the client has gone.
CopyInv ==
  /\ phase \notin {"tunnel", "closing", "closed"} => \A e \in End : copy[e] = "unborn"
  /\ \A e \in End : copy[e] = "unborn" => read[e] = 0
  /\ \A e \in End : copy[e] \in Ended /\ (\A x \in End : ends[x] # "reset")
                      => ends[e] = "finished" /\ written[e] = sent[e]
  /\ phase \in {"closing", "closed"} =>
       ends["client"] = "reset" \/ \A e \in End : copy[e] \in Ended

Inv == TypeOK /\ CopyInv

LEMMA InitInv == Init => Inv
  BY EgressAssumption DEF Init, Inv, TypeOK, CopyInv, Phase, End, Ended

\* The handler's steps move no bytes, except that Hijack forgets some that
\* nobody has copied yet.
LEMMA HandlerInv == Inv /\ Handler => Inv'
<1> SUFFICES ASSUME Inv, Handler PROVE Inv'
  OBVIOUS
<1> USE EgressAssumption DEF Inv, HandlerGoes, bytes
<1>1. CASE handleConnect \/ handleHTTP \/ RoundTrips \/ Dials
  <2>1. /\ phase' \in {"dialling", "connected", "forwarding", "answered", "refused"}
        /\ phase \in {"serving", "dialling", "forwarding"}
        /\ UNCHANGED <<request, ends, copy, sent, read, written, got>>
    BY <1>1 DEF handleConnect, handleHTTP, RoundTrips, Dials
  <2> QED
    BY <2>1 DEF TypeOK, CopyInv, Phase, Ended
<1>2. CASE Hijacks
  <2>1. CASE HandlerGoes("connected", "refused") /\ UNCHANGED <<copy, bytes>>
    BY <2>1 DEF TypeOK, CopyInv, Phase, Ended
  <2>2. CASE /\ HandlerGoes("connected", "hijacked")
             /\ \E buffered \in 0..sent["client"] :
                  sent' = [sent EXCEPT !["client"] = @ - buffered]
             /\ UNCHANGED <<copy, read, written, got>>
    <3>1. PICK buffered \in 0..sent["client"] :
            sent' = [sent EXCEPT !["client"] = @ - buffered]
      BY <2>2
    <3>2. TypeOK'
      <4>1. \A e \in End : read[e] = 0
        BY <2>2 DEF CopyInv
      <4> QED
        BY <2>2, <3>1, <4>1 DEF TypeOK, Phase, End
    <3>3. CopyInv'
      BY <2>2, <3>1 DEF CopyInv, Ended
    <3> QED
      BY <3>2, <3>3
  <2> QED
    BY <1>2, <2>1, <2>2 DEF Hijacks
<1>3. CASE Establishes
  <2>1. CASE /\ HandlerGoes("hijacked", "tunnel")
             /\ copy' = [e \in End |-> "copying"]
             /\ UNCHANGED bytes
    BY <2>1 DEF TypeOK, CopyInv, Phase, End, Ended
  <2>2. CASE /\ ends["client"] = "reset"
             /\ HandlerGoes("hijacked", "closing")
             /\ UNCHANGED <<copy, bytes>>
    BY <2>2 DEF TypeOK, CopyInv, Phase, Ended
  <2> QED
    BY <1>3, <2>1, <2>2 DEF Establishes
<1>4. CASE TunnelReturns \/ Closes
  BY <1>4 DEF TunnelReturns, Closes, TypeOK, CopyInv, Phase, Ended
<1> QED
  BY <1>1, <1>2, <1>3, <1>4 DEF Handler

\* A chunk is written after it was read, and io.Copy returns without a reset
\* only when there is nothing left of a finished source.
LEMMA ProxyInv == ASSUME Inv, NEW e \in End, Proxy(e) PROVE Inv'
<1> USE EgressAssumption DEF Inv, bytes
<1>1. CASE CopyReads(e)
  BY <1>1 DEF CopyReads, TypeOK, CopyInv, End, Ended
<1>2. CASE CopyWrites(e)
  BY <1>2 DEF CopyWrites, TypeOK, CopyInv, End, Ended
<1>3. CASE CopyEnds(e)
  <2>1. copy[e] = "copying" /\ copy' = [copy EXCEPT ![e] = "halfclosed"]
        /\ UNCHANGED <<request, phase, ends, sent, read, written, got>>
    BY <1>3 DEF CopyEnds
  <2>2. (\A x \in End : ends[x] # "reset") => ends[e] = "finished" /\ written[e] = sent[e]
    BY <1>3 DEF CopyEnds, CopyStops, Other, End
  <2> QED
    BY <2>1, <2>2 DEF TypeOK, CopyInv, End, Ended
<1> QED
  BY <1>1, <1>2, <1>3 DEF Proxy

\* An end sends only while it is open, and a reset is for ever.
LEMMA EndsInv ==
  ASSUME Inv, NEW e \in End, Sends(e) \/ Arrives(e) \/ Finishes(e) \/ Resets(e)
  PROVE  Inv'
<1> USE EgressAssumption DEF Inv, bytes
<1>1. CASE Sends(e)
  BY <1>1 DEF Sends, TypeOK, CopyInv, End, Ended
<1>2. CASE Arrives(e)
  BY <1>2 DEF Arrives, TypeOK, CopyInv, End, Ended
<1>3. CASE Finishes(e)
  BY <1>3 DEF Finishes, EndGoes, TypeOK, CopyInv, End, Ended
<1>4. CASE Resets(e)
  BY <1>4 DEF Resets, EndGoes, TypeOK, CopyInv, End, Ended
<1> QED
  BY <1>1, <1>2, <1>3, <1>4

LEMMA Inductive == Inv /\ [Next]_vars => Inv'
<1> SUFFICES ASSUME Inv, [Next]_vars PROVE Inv'
  OBVIOUS
<1>1. CASE Handler
  BY <1>1, HandlerInv
<1>2. CASE \E e \in End : Proxy(e) \/ Sends(e) \/ Arrives(e) \/ Finishes(e) \/ Resets(e)
  BY <1>2, ProxyInv, EndsInv
<1>3. CASE Over \/ UNCHANGED vars
  BY <1>3 DEF Over, vars, Inv, TypeOK, CopyInv, Ended
<1> QED
  BY <1>1, <1>2, <1>3 DEF Next

\* io.Copy's counters are nested: what arrives was written, read and sent.
THEOREM TypeCorrect == Spec => []TypeOK
<1>1. Inv => TypeOK
  BY DEF Inv
<1> QED
  BY InitInv, Inductive, <1>1, PTL DEF Spec

\* tunnel returns, and its caller closes both connections, only after both
\* directions have run dry: without a reset nothing is cut off, however the two
\* ends finish.
THEOREM TunnelKeepsItsBytes == Spec => []NothingIsTruncated
<1>1. Inv => NothingIsTruncated
  BY DEF Inv, CopyInv, NothingIsTruncated, End
<1> QED
  BY InitInv, Inductive, <1>1, PTL DEF Spec
-----------------------------------------------------------------------------
(* The plan and the Compose file *)

LEMMA Glue ==
  ASSUME NEW m \in Nat, NEW n \in Nat, NEW a, NEW b,
         a = [i \in 1..m |-> a[i]], b = [i \in 1..n |-> b[i]]
  PROVE  /\ DOMAIN (a \o b) = 1..(m + n)
         /\ a \o b = [i \in 1..(m + n) |-> (a \o b)[i]]
         /\ \A i \in 1..m : (a \o b)[i] = a[i]
         /\ \A i \in 1..n : (a \o b)[m + i] = b[i]
<1> DEFINE S == {a[i] : i \in 1..m} \cup {b[i] : i \in 1..n}
<1>1. a \in Seq(S) /\ Len(a) = m
  <2>1. a \in [1..m -> S]
    OBVIOUS
  <2> QED
    BY <2>1
<1>2. b \in Seq(S) /\ Len(b) = n
  <2>1. b \in [1..n -> S]
    OBVIOUS
  <2> QED
    BY <2>1
<1> HIDE DEF S
<1>3. /\ a \o b \in Seq(S) /\ Len(a \o b) = m + n
      /\ \A i \in 1..(m + n) : (a \o b)[i] = IF i <= m THEN a[i] ELSE b[i - m]
  BY <1>1, <1>2, ConcatProperties
<1>4. DOMAIN (a \o b) = 1..(m + n) /\ a \o b = [i \in 1..(m + n) |-> (a \o b)[i]]
  BY <1>3, LenProperties
<1> QED
  BY <1>3, <1>4

Proxies(m) == IF m.egress = <<>> THEN 0 ELSE 1
Before(m)  == Proxies(m) + Len(Target(m.db)) + Len(Target(m.seed))

LEMMA TargetShape ==
  ASSUME NEW S, NEW p \in Pointer(S)
  PROVE  /\ Len(Target(p)) \in {0, 1} /\ DOMAIN Target(p) = 1..Len(Target(p))
         /\ p # {} <=> Len(Target(p)) = 1
         /\ \A x \in p : Len(Target(p)) = 1 /\ Target(p)[1] = x /\ p = {x}
         /\ Cardinality(p) = Len(Target(p))
<1>1. CASE p = {}
  <2>1. Target(p) = <<>> /\ Cardinality(p) = 0
    BY <1>1, FS_EmptySet DEF Target
  <2> QED
    BY <1>1, <2>1
<1>2. ASSUME NEW x \in p PROVE p = {x} /\ Target(p) = <<x>> /\ Cardinality(p) = 1
  <2>1. p = {x} /\ Target(p) = <<x>>
    BY DEF Pointer, Target
  <2> QED
    BY <2>1, FS_Singleton
<1>3. CASE p # {}
  <2>1. PICK x \in p : p = {x} /\ Target(p) = <<x>> /\ Cardinality(p) = 1
    BY <1>2, <1>3
  <2> QED
    BY <2>1
<1> QED
  BY <1>1, <1>3

LEMMA Counts ==
  ASSUME NEW m \in Manifest
  PROVE  /\ m.db \in Pointer(DB) /\ m.seed \in Pointer(Seed)
         /\ m.services \in Seq(Service) /\ m.env \in Seq(EnvVar)
         /\ Len(m.services) \in Nat /\ DOMAIN m.services = 1..Len(m.services)
         /\ Proxies(m) \in {0, 1}
         /\ Len(Target(m.db)) \in {0, 1} /\ Len(Target(m.seed)) \in {0, 1}
         /\ Proxies(m) = 1 <=> m.egress # <<>>
         /\ Len(Target(m.db)) = 1 <=> m.db # {}
         /\ Len(Target(m.seed)) = 1 <=> m.seed # {}
         /\ Before(m) \in Nat
<1>1. /\ m.db \in Pointer(DB) /\ m.seed \in Pointer(Seed)
      /\ m.services \in Seq(Service) /\ m.env \in Seq(EnvVar)
  BY DEF Manifest
<1>2. /\ Len(Target(m.db)) \in {0, 1} /\ Len(Target(m.seed)) \in {0, 1}
      /\ Len(Target(m.db)) = 1 <=> m.db # {}
      /\ Len(Target(m.seed)) = 1 <=> m.seed # {}
  BY <1>1, TargetShape
<1>3. Proxies(m) \in {0, 1} /\ (Proxies(m) = 1 <=> m.egress # <<>>)
  BY DEF Proxies
<1>4. Before(m) \in Nat
  BY <1>2, <1>3 DEF Before
<1> QED
  BY <1>1, <1>2, <1>3, <1>4, LenProperties

LEMMA PlanShape ==
  ASSUME NEW m \in Manifest, NEW o
  PROVE  LET plan == Compile(m, o) IN
         /\ DOMAIN plan = 1..(Before(m) + Len(m.services))
         /\ m.egress # <<>> => plan[1] = egressProxyService(m, o)
         /\ \A x \in m.db : plan[Proxies(m) + 1] = dbService(x, o)
         /\ \A x \in m.seed : plan[Before(m)] = seedService(m, o, x)
         /\ \A i \in DOMAIN m.services : plan[Before(m) + i] = appService(m, o, m.services[i])
<1> DEFINE e == IF m.egress = <<>> THEN <<>> ELSE <<egressProxyService(m, o)>>
           d == [i \in DOMAIN Target(m.db) |-> dbService(Target(m.db)[i], o)]
           s == [i \in DOMAIN Target(m.seed) |-> seedService(m, o, Target(m.seed)[i])]
           a == [i \in DOMAIN m.services |-> appService(m, o, m.services[i])]
           D == Len(Target(m.db))
           E == Len(Target(m.seed))
<1>1. /\ m.db \in Pointer(DB) /\ m.seed \in Pointer(Seed)
      /\ m.services \in Seq(Service)
  BY DEF Manifest
<1>2. /\ D \in {0, 1} /\ E \in {0, 1} 
      /\ d = [i \in 1..D |-> d[i]] /\ s = [i \in 1..E |-> s[i]]
      /\ \A x \in m.db : D = 1 /\ d[1] = dbService(x, o)
      /\ \A x \in m.seed : E = 1 /\ s[1] = seedService(m, o, x)
  BY <1>1, TargetShape
<1>3. Len(m.services) \in Nat /\ DOMAIN a = 1..Len(m.services)
  BY <1>1, LenProperties
<1>4. /\ Proxies(m) \in {0, 1} /\ e = [i \in 1..Proxies(m) |-> e[i]]
      /\ m.egress # <<>> => Proxies(m) = 1 /\ e[1] = egressProxyService(m, o)
  BY DEF Proxies
<1> HIDE DEF e, d, s, a, D, E
<1>5. /\ e \o d = [i \in 1..(Proxies(m) + D) |-> (e \o d)[i]]
      /\ DOMAIN (e \o d) = 1..(Proxies(m) + D)
      /\ \A i \in 1..Proxies(m) : (e \o d)[i] = e[i]
      /\ \A i \in 1..D : (e \o d)[Proxies(m) + i] = d[i]
  BY <1>2, <1>4, Glue
<1> DEFINE ed == e \o d
<1> HIDE DEF ed
<1>6. /\ ed \o s = [i \in 1..Before(m) |-> (ed \o s)[i]]
      /\ DOMAIN (ed \o s) = 1..Before(m)
      /\ \A i \in 1..(Proxies(m) + D) : (ed \o s)[i] = ed[i]
      /\ \A i \in 1..E : (ed \o s)[Proxies(m) + D + i] = s[i]
  <2>1. ed = [i \in 1..(Proxies(m) + D) |-> ed[i]]
    BY <1>5 DEF ed
  <2>2. Proxies(m) + D \in Nat /\ E \in Nat
    BY <1>2, <1>4
  <2> QED
    BY <1>2, <2>1, <2>2, Glue DEF Before, D, E
<1> DEFINE eds == ed \o s
<1> HIDE DEF eds
<1>7. /\ DOMAIN (eds \o a) = 1..(Before(m) + Len(m.services))
      /\ \A i \in 1..Before(m) : (eds \o a)[i] = eds[i]
      /\ \A i \in 1..Len(m.services) : (eds \o a)[Before(m) + i] = a[i]
  <2>1. eds = [i \in 1..Before(m) |-> eds[i]]
    BY <1>6 DEF eds
  <2>2. a = [i \in 1..Len(m.services) |-> a[i]]
    BY <1>3 DEF a
  <2>3. Before(m) \in Nat
    BY <1>2, <1>4 DEF Before, D, E
  <2> QED
    BY <1>3, <2>1, <2>2, <2>3, Glue
<1>8. Compile(m, o) = eds \o a
  BY DEF Compile, eds, ed, e, d, s, a
<1>9. \A i \in DOMAIN m.services : a[i] = appService(m, o, m.services[i])
  BY DEF a
<1>10. Before(m) = Proxies(m) + D + E
  BY DEF Before, D, E
<1>11. m.egress # <<>> => (eds \o a)[1] = egressProxyService(m, o)
  BY <1>2, <1>4, <1>5, <1>6, <1>7, <1>10 DEF eds, ed
<1>12. ASSUME NEW x \in m.db PROVE (eds \o a)[Proxies(m) + 1] = dbService(x, o)
  <2>1. D = 1
    BY <1>2
  <2>2. Proxies(m) + 1 \in 1..(Proxies(m) + D) /\ Proxies(m) + 1 \in 1..Before(m)
    <3>1. E \in {0, 1} /\ Proxies(m) \in {0, 1}
      BY <1>2, <1>4
    <3> QED
      BY <1>10, <2>1, <3>1
  <2>3. ed[Proxies(m) + 1] = d[1]
    BY <1>5, <2>1, <2>2 DEF ed
  <2> QED
    BY <1>2, <1>6, <1>7, <2>1, <2>2, <2>3 DEF eds
<1>13. ASSUME NEW x \in m.seed PROVE (eds \o a)[Before(m)] = seedService(m, o, x)
  <2>1. E = 1
    BY <1>2
  <2>2. Before(m) = Proxies(m) + D + 1 /\ Before(m) \in 1..Before(m)
    <3>1. D \in {0, 1} /\ Proxies(m) \in {0, 1}
      BY <1>2, <1>4
    <3> QED
      BY <1>10, <2>1, <3>1
  <2>3. eds[Before(m)] = s[1]
    BY <1>6, <2>1, <2>2 DEF eds
  <2> QED
    BY <1>2, <1>7, <2>1, <2>2, <2>3
<1> QED
  BY <1>1, <1>7, <1>8, <1>9, <1>11, <1>12, <1>13, LenProperties

\* Who is at index k of the plan of m: n is its name.
NameAt(m, k, n) ==
  \/ k = 1 /\ Proxies(m) = 1 /\ n = "egress"
  \/ k = Proxies(m) + 1 /\ Len(Target(m.db)) = 1 /\ n = "db"
  \/ k = Before(m) /\ Len(Target(m.seed)) = 1 /\ n = "seed"
  \/ \E l \in 1..Len(m.services) : k = Before(m) + l /\ n = m.services[l].name

LEMMA PlanNames ==
  ASSUME NEW m \in Manifest, NEW o, NEW k \in DOMAIN Compile(m, o)
  PROVE  NameAt(m, k, Compile(m, o)[k].name)
<1> DEFINE plan == Compile(m, o)
           N == Len(m.services)
<1> USE DEF NameAt
<1>1. k \in 1..(Before(m) + N)
  BY PlanShape
<1>2. CASE k > Before(m)
  <2>1. PICK l \in 1..N : k = Before(m) + l
    <3>1. Before(m) \in Nat
      BY Counts DEF Before
    <3>2. k - Before(m) \in 1..N /\ k = Before(m) + (k - Before(m))
      BY Counts, <1>1, <1>2, <3>1
    <3> QED
      BY <3>2
  <2>2. plan[k] = appService(m, o, m.services[l])
    BY Counts, <2>1, PlanShape
  <2> QED
    BY <2>1, <2>2 DEF appService, ServiceSpec
<1>3. CASE k <= Before(m)
  <2>1. \/ k = 1 /\ Proxies(m) = 1
        \/ k = Proxies(m) + 1 /\ Len(Target(m.db)) = 1
        \/ k = Before(m) /\ Len(Target(m.seed)) = 1
    <3> DEFINE a == Proxies(m)
               b == Len(Target(m.db))
               c == Len(Target(m.seed))
    <3>1. k \in 1..(a + b + c)
      BY Counts, <1>1, <1>3 DEF Before
    <3>2. a \in {0, 1} /\ b \in {0, 1} /\ c \in {0, 1} /\ Before(m) = a + b + c
      BY Counts DEF Before
    <3> HIDE DEF a, b, c
    <3>3. (k = 1 /\ a = 1) \/ (k = a + 1 /\ b = 1) \/ (k = Before(m) /\ c = 1)
      BY ONLY <3>1, <3>2
    <3> QED
      BY <3>3 DEF a, b, c
  <2>2. CASE k = 1 /\ Proxies(m) = 1
    <3>1. plan[k] = egressProxyService(m, o)
      BY Counts, <2>2, PlanShape
    <3> QED
      BY <2>2, <3>1 DEF egressProxyService, ServiceSpec
  <2>3. CASE k = Proxies(m) + 1 /\ Len(Target(m.db)) = 1
    <3>1. PICK x \in m.db : plan[k] = dbService(x, o)
      BY Counts, <2>3, PlanShape
    <3> QED
      BY <2>3, <3>1 DEF dbService, ServiceSpec
  <2>4. CASE k = Before(m) /\ Len(Target(m.seed)) = 1
    <3>1. PICK x \in m.seed : plan[k] = seedService(m, o, x)
      BY Counts, <2>4, PlanShape
    <3> QED
      BY <2>4, <3>1 DEF seedService, ServiceSpec
  <2> QED
    BY <2>1, <2>2, <2>3, <2>4
<1> QED
  BY Counts, <1>1, <1>2, <1>3 DEF Before

\* Validate keeps the names apart: every container of the plan has its own.
LEMMA NamesAreUnique ==
  ASSUME NEW m \in Manifest, NEW o, ValidNames(m.services),
         NEW i \in DOMAIN Compile(m, o), NEW j \in DOMAIN Compile(m, o),
         Compile(m, o)[i].name = Compile(m, o)[j].name
  PROVE  i = j
<1> DEFINE plan == Compile(m, o)
           N == Len(m.services)
<1>1. N \in Nat /\ DOMAIN m.services = 1..N
  BY Counts
<1>2. /\ Proxies(m) \in {0, 1}
      /\ Len(Target(m.db)) \in {0, 1} /\ Len(Target(m.seed)) \in {0, 1}
      /\ Proxies(m) = 1 <=> m.egress # <<>>
      /\ Len(Target(m.db)) = 1 <=> m.db # {}
      /\ Len(Target(m.seed)) = 1 <=> m.seed # {}
  BY Counts
<1>3. \A l \in 1..N : m.services[l].name \notin {"db", "seed", "egress"}
  BY <1>1 DEF ValidNames, reservedServiceNames, ToSet
<1>4. \A k, l \in 1..N : m.services[k].name = m.services[l].name => k = l
  BY <1>1 DEF ValidNames
<1>5. NameAt(m, i, plan[i].name) /\ NameAt(m, j, plan[i].name)
  BY PlanNames
<1> QED
  BY <1>2, <1>3, <1>4, <1>5 DEF Before, NameAt

\* So ToCompose overwrites nothing.
LEMMA ComposeKeeps ==
  ASSUME NEW m \in Manifest, NEW o, ValidNames(m.services)
  PROVE  LET plan == Compile(m, o)
             file == ToCompose(plan)
         IN /\ DOMAIN file = {plan[i].name : i \in DOMAIN plan}
            /\ \A i \in DOMAIN plan : file[plan[i].name] = plan[i]
            /\ Cardinality(DOMAIN file) = Before(m) + Len(m.services)
<1> DEFINE plan == Compile(m, o)
           file == ToCompose(plan)
<1>1. DOMAIN file = {plan[i].name : i \in DOMAIN plan}
  BY DEF ToCompose, ToSet
<1>2. ASSUME NEW i \in DOMAIN plan PROVE file[plan[i].name] = plan[i]
  <2>1. file[plan[i].name] = LastNamed(plan, DOMAIN plan, plan[i].name)
    BY <1>1 DEF ToCompose
  <2> DEFINE Is(k) == plan[k].name = plan[i].name /\
                      \A j \in DOMAIN plan : plan[j].name = plan[i].name => j <= k
  <2>2. \A j \in DOMAIN plan : plan[j].name = plan[i].name => j = i
    BY NamesAreUnique
  <2>3. i <= i
    BY PlanShape
  <2>4. (CHOOSE k \in DOMAIN plan : Is(k)) = i
    BY <2>2, <2>3
  <2> QED
    BY <2>1, <2>4 DEF LastNamed
<1>3. Cardinality(DOMAIN file) = Before(m) + Len(m.services)
  <2> DEFINE N == Before(m) + Len(m.services)
             name == [i \in 1..N |-> plan[i].name]
  <2>1. N \in Nat /\ DOMAIN plan = 1..N
    BY PlanShape, Counts
  <2>2. name \in Bijection(1..N, DOMAIN file)
    <3>1. name \in [1..N -> DOMAIN file]
      BY <1>1, <2>1
    <3>2. \A i, j \in 1..N : name[i] = name[j] => i = j
      BY <2>1, NamesAreUnique
    <3>3. \A n \in DOMAIN file : \E i \in 1..N : name[i] = n
      BY <1>1, <2>1
    <3> QED
      BY <3>1, <3>2, <3>3 DEF Bijection, Injection, Surjection, IsInjective
  <2>3. IsFiniteSet(1..N) /\ Cardinality(1..N) = N
    BY <2>1, FS_Interval
  <2> QED
    BY <2>2, <2>3, FS_Bijection DEF ExistsBijection
<1> QED
  BY <1>1, <1>2, <1>3
\* The Compose file holds what was declared, each under its own name, and
\* nothing else.
LEMMA FileShape ==
  ASSUME NEW m \in Manifest, NEW o, ValidNames(m.services)
  PROVE  LET file == ToCompose(Compile(m, o)) IN
         /\ \A s \in ToSet(m.services) : s.name \in DOMAIN file /\ file[s.name] = appService(m, o, s)
         /\ \A x \in m.db : "db" \in DOMAIN file /\ file["db"] = dbService(x, o)
         /\ \A x \in m.seed : "seed" \in DOMAIN file /\ file["seed"] = seedService(m, o, x)
         /\ m.egress # <<>> => "egress" \in DOMAIN file /\ file["egress"] = egressProxyService(m, o)
         /\ \A n \in DOMAIN file :
              \/ n \in {s.name : s \in ToSet(m.services)}
              \/ n = "db" /\ m.db # {}
              \/ n = "seed" /\ m.seed # {}
              \/ n = "egress" /\ m.egress # <<>>
         /\ Cardinality(DOMAIN file)
              = Len(m.services) + Cardinality(m.db) + Cardinality(m.seed) + Proxies(m)
<1> DEFINE plan == Compile(m, o)
           file == ToCompose(plan)
<1>1. /\ DOMAIN file = {plan[i].name : i \in DOMAIN plan}
      /\ \A i \in DOMAIN plan : file[plan[i].name] = plan[i]
      /\ Cardinality(DOMAIN file) = Before(m) + Len(m.services)
  BY ComposeKeeps
<1>2. DOMAIN plan = 1..(Before(m) + Len(m.services))
  BY PlanShape
<1> HIDE DEF plan, file
<1>3. ASSUME NEW s \in ToSet(m.services)
      PROVE  s.name \in DOMAIN file /\ file[s.name] = appService(m, o, s)
  <2>1. PICK i \in DOMAIN m.services : s = m.services[i]
    BY DEF ToSet
  <2>2. Before(m) + i \in DOMAIN plan
    BY <1>2, <2>1, Counts
  <2>3. plan[Before(m) + i] = appService(m, o, s)
    BY <2>1, PlanShape DEF plan
  <2>4. appService(m, o, s).name = s.name
    BY DEF appService, ServiceSpec
  <2> QED
    BY <1>1, <2>2, <2>3, <2>4
<1>4. ASSUME NEW x \in m.db PROVE "db" \in DOMAIN file /\ file["db"] = dbService(x, o)
  <2>1. Proxies(m) + 1 \in DOMAIN plan
    <3>1. Len(Target(m.db)) = 1
      BY Counts
    <3> QED
      BY <1>2, <3>1, Counts DEF Before
  <2>2. plan[Proxies(m) + 1] = dbService(x, o)
    BY PlanShape DEF plan
  <2>3. dbService(x, o).name = "db"
    BY DEF dbService, ServiceSpec
  <2> QED
    BY <1>1, <2>1, <2>2, <2>3
<1>5. ASSUME NEW x \in m.seed PROVE "seed" \in DOMAIN file /\ file["seed"] = seedService(m, o, x)
  <2>1. Before(m) \in DOMAIN plan
    <3>1. Len(Target(m.seed)) = 1
      BY Counts
    <3> QED
      BY <1>2, <3>1, Counts DEF Before
  <2>2. plan[Before(m)] = seedService(m, o, x)
    BY PlanShape DEF plan
  <2>3. seedService(m, o, x).name = "seed"
    BY DEF seedService, ServiceSpec
  <2> QED
    BY <1>1, <2>1, <2>2, <2>3
<1>6. ASSUME m.egress # <<>>
      PROVE  "egress" \in DOMAIN file /\ file["egress"] = egressProxyService(m, o)
  <2>1. 1 \in DOMAIN plan
    BY <1>2, <1>6, Counts DEF Before
  <2>2. plan[1] = egressProxyService(m, o)
    BY <1>6, PlanShape DEF plan
  <2>3. egressProxyService(m, o).name = "egress"
    BY DEF egressProxyService, ServiceSpec
  <2> QED
    BY <1>1, <2>1, <2>2, <2>3
<1>7. ASSUME NEW n \in DOMAIN file
      PROVE  \/ n \in {s.name : s \in ToSet(m.services)}
             \/ n = "db" /\ m.db # {}
             \/ n = "seed" /\ m.seed # {}
             \/ n = "egress" /\ m.egress # <<>>
  <2>1. PICK k \in DOMAIN plan : n = plan[k].name
    BY <1>1
  <2>2. NameAt(m, k, n)
    BY <2>1, PlanNames DEF plan
  <2> QED
    BY <2>2, Counts DEF NameAt, ToSet
<1>8. Cardinality(DOMAIN file) = Len(m.services) + Cardinality(m.db) + Cardinality(m.seed) + Proxies(m)
  BY <1>1, Counts, TargetShape DEF Before
<1> QED
  BY <1>3, <1>4, <1>5, <1>6, <1>7, <1>8 DEF file, plan


-----------------------------------------------------------------------------
(* The environment *)

LEMMA LeastNat ==
  ASSUME NEW T \in SUBSET Nat, T # {}
  PROVE  \E m \in T : \A k \in T : m <= k
<1>1. PICK m \in T : \A k \in T : ~(<<k, m>> \in OpToRel(<, Nat))
  BY NatLessThanWellFounded, WFMin
<1>2. \A k \in T : ~(k < m)
  BY <1>1 DEF OpToRel
<1> QED
  BY <1>2

LEMMA LastNamedIsNamed ==
  ASSUME NEW s, NEW N \in Nat, NEW I \in SUBSET (1..N)
  PROVE  \A n : (\E i \in I : s[i].name = n)
                 => \E i \in I : LastNamed(s, I, n) = s[i] /\ s[i].name = n
<1> SUFFICES ASSUME NEW n, \E i \in I : s[i].name = n
             PROVE  \E i \in I : LastNamed(s, I, n) = s[i] /\ s[i].name = n
  OBVIOUS
<1> DEFINE J == {i \in I : s[i].name = n}
           T == {N - i : i \in J}
<1>1. J # {} /\ J \subseteq 1..N
  OBVIOUS
<1> HIDE DEF J
<1>2. T \in SUBSET Nat /\ T # {}
  <2>1. ASSUME NEW i \in J PROVE N - i \in Nat
    <3>1. i \in 1..N
      BY <1>1
    <3> QED
      BY <3>1
  <2> QED
    BY <1>1, <2>1
<1>3. PICK t \in T : \A u \in T : t <= u
  BY <1>2, LeastNat, Zenon
<1>4. PICK i \in J : t = N - i
  OBVIOUS
<1>5. \A j \in J : j <= i
  <2>1. \A j \in J : N - i <= N - j
    BY <1>3, <1>4
  <2> QED
    BY <1>1, <2>1
<1>6. \E k \in I : s[k].name = n /\ \A j \in I : s[j].name = n => j <= k
  BY <1>5 DEF J
<1> QED
  BY <1>6 DEF LastNamed

\* What the Owner's code gets: each declared variable, from one of the places
\* that declare it; and the proxy's variables, whose names nobody can declare.
LEMMA EnvShape ==
  ASSUME NEW m \in Manifest, toManifestAccepts(m), Validate(m), Compiles(m, buildOptions(m))
  PROVE  LET env == appEnv(m, buildOptions(m))
             proxied == IF m.egress = <<>> THEN {} ELSE proxyEnvNames
         IN /\ DOMAIN env = proxied \cup {e.name : e \in ToSet(m.env)}
            /\ \A e \in ToSet(m.env) : \E x \in ToSet(m.env) :
                 /\ x.name = e.name
                 /\ \/ x.source = "static" /\ env[e.name] = Text(x.value)
                    \/ x.source = "platform" /\ env[e.name] = Text("dsn")
            /\ \A k \in proxied :
                 IF k[1] = "no_proxy" THEN env[k] = Hosts(egressNoProxy(m.services))
                 ELSE env[k] = proxyURL
<1> DEFINE o == buildOptions(m)
           declared == resolveAppEnv(m.env, o.platformEnv)
           I == {i \in DOMAIN m.env : m.env[i].source \in {"static", "platform"}}
<1>1. Len(m.env) \in Nat /\ DOMAIN m.env = 1..Len(m.env) /\ I = 1..Len(m.env)
  BY Counts, LenProperties DEF toManifestAccepts, ToSet
<1>2. DOMAIN declared = {e.name : e \in ToSet(m.env)}
  BY <1>1 DEF resolveAppEnv, ToSet
<1>3. ASSUME NEW e \in ToSet(m.env)
      PROVE  \E x \in ToSet(m.env) :
               /\ x.name = e.name
               /\ \/ x.source = "static" /\ declared[e.name] = Text(x.value)
                  \/ x.source = "platform" /\ declared[e.name] = Text("dsn")
  <2>1. PICK i \in I : LastNamed(m.env, I, e.name) = m.env[i] /\ m.env[i].name = e.name
    <3>1. \E i \in I : m.env[i].name = e.name
      BY <1>1 DEF ToSet
    <3>2. I \in SUBSET (1..Len(m.env))
      BY <1>1
    <3>3. Len(m.env) \in Nat
      BY <1>1
    <3> HIDE DEF I
    <3>4. \A n : (\E i \in I : m.env[i].name = n)
                   => \E i \in I : LastNamed(m.env, I, n) = m.env[i] /\ m.env[i].name = n
      BY <3>2, <3>3, LastNamedIsNamed
    <3> QED
      BY <3>1, <3>4, Zenon
  <2> DEFINE x == m.env[i]
  <2>2. x \in ToSet(m.env) /\ x.name = e.name /\ x.source \in {"static", "platform"}
    BY <2>1 DEF ToSet
  <2>3. declared[e.name] = IF x.source = "static" THEN Text(x.value) ELSE o.platformEnv[e.name]
    BY <1>2, <2>1 DEF resolveAppEnv
  <2>4. x.source = "platform" => o.platformEnv[e.name] = Text("dsn")
    BY <2>2 DEF Compiles, buildOptions, resolvePlatformEnv
  <2> QED
    BY <2>2, <2>3, <2>4
<1>4. \A e \in ToSet(m.env) : e.name \notin proxyEnvNames
  BY DEF Validate, ValidEnv, proxyEnvNames
<1> HIDE DEF declared
<1> QED
  BY <1>2, <1>3, <1>4 DEF appEnv, injectProxyEnv, declared


-----------------------------------------------------------------------------
(* The invariant: what was accepted stays valid, and the Stack of a play is  *)
(* the Compose file of that form, with every container in a known state.     *)

CtrState == {"created", "starting", "running", "restarting", "done", "dead"}

StackInv ==
  /\ form \in Manifest
  /\ stage \in {"form", "rejected", "stored", "published", "unbootable", "up", "live", "failed"}
  /\ crashes \in 0..MaxCrashes
  /\ stage \notin {"form", "rejected"} => toManifestAccepts(form) /\ Validate(form)
  /\ Booted =>
       /\ Compiles(form, buildOptions(form))
       /\ stack = ToCompose(Compile(form, buildOptions(form)))
       /\ ctr \in [DOMAIN stack -> CtrState]
  /\ ~Booted => ctr = <<>>

LEMMA StackInitInv == StackInit => StackInv
  BY StackBootAssumption DEF StackInit, StackInv, Booted

LEMMA OwnersInv ==
  ASSUME StackInv, CreateAccepted \/ CreateRejected \/ Publishes \/ PlayFailsToCompile
  PROVE  StackInv'
<1>1. /\ stage' \in {"stored", "rejected", "published", "unbootable"} /\ ~Booted /\ ~Booted'
      /\ stage \in {"form", "stored", "published"} /\ UNCHANGED <<form, stack, ctr, crashes>>
  BY DEF CreateAccepted, CreateRejected, Publishes, PlayFailsToCompile, Goes, Booted
<1>2. stage' \notin {"form", "rejected"} => toManifestAccepts(form) /\ Validate(form)
  BY DEF StackInv, CreateAccepted, CreateRejected, Publishes, PlayFailsToCompile, Goes
<1> QED
  BY <1>1, <1>2 DEF StackInv

LEMMA ProvisionInv == ASSUME StackInv, Provision PROVE StackInv'
<1>1. /\ stage = "published" /\ stage' = "up" /\ UNCHANGED <<form, crashes>>
      /\ Compiles(form, buildOptions(form))
      /\ stack' = ToCompose(Compile(form, buildOptions(form)))
      /\ ctr' = [n \in DOMAIN stack' |-> "created"]
  BY DEF Provision, Goes, PlanBuilds
<1>2. ctr' \in [DOMAIN stack' -> CtrState]
  BY <1>1 DEF CtrState
<1> QED
  BY <1>1, <1>2 DEF StackInv, Booted

LEMMA ContainerInv ==
  ASSUME StackInv, stage \in {"up", "live"}, NEW n \in DOMAIN ctr,
         \/ Starts(n) \/ BecomesHealthy(n) \/ Completes(n) \/ Restarts(n)
         \/ Crashes(n) \/ Quits(n)
  PROVE  StackInv'
<1>1. \E from, to \in CtrState : CtrGoes(n, from, to)
  BY DEF Starts, BecomesHealthy, Completes, Restarts, Crashes, Quits, CtrState
<1>2. UNCHANGED <<form, stage, stack>> /\ \E to \in CtrState : ctr' = [ctr EXCEPT ![n] = to]
  BY <1>1 DEF CtrGoes
<1>3. crashes' \in 0..MaxCrashes
  BY StackBootAssumption DEF StackInv, Starts, BecomesHealthy, Completes, Restarts, Crashes, Quits
<1>4. Booted /\ Booted' /\ ctr' \in [DOMAIN stack -> CtrState]
  BY <1>2 DEF StackInv, Booted
<1> QED
  BY <1>2, <1>3, <1>4 DEF StackInv

LEMMA StackInductive == StackInv /\ [StackNext]_stackVars => StackInv'
<1> SUFFICES ASSUME StackInv, [StackNext]_stackVars PROVE StackInv'
  OBVIOUS
<1>1. CASE Handlers
  BY <1>1, OwnersInv, ProvisionInv DEF Handlers
<1>2. CASE UpSucceeds \/ UpFails \/ UpTimesOut
  <2>1. /\ stage = "up" /\ stage' \in {"live", "failed"}
        /\ UNCHANGED <<form, stack, ctr, crashes>>
    BY <1>2 DEF UpSucceeds, UpFails, UpTimesOut, Goes
  <2> QED
    BY <2>1 DEF StackInv, Booted
<1>3. CASE PlayEnded \/ UNCHANGED stackVars
  BY <1>3 DEF PlayEnded, stackVars, StackInv, Booted
<1>4. ASSUME NEW n \in DOMAIN ctr, DockerStep(n) PROVE StackInv'
  BY <1>4, ContainerInv DEF DockerStep
<1>5. ASSUME NEW n \in DOMAIN ctr, stage \in {"up", "live"} /\ (Crashes(n) \/ Quits(n)) PROVE StackInv'
  BY <1>5, ContainerInv
<1> QED
  BY <1>1, <1>2, <1>3, <1>4, <1>5 DEF StackNext

-----------------------------------------------------------------------------
(* What the Stack holds *)

LEMMA SlotsFromInv == StackInv => EverySlotIsItsOwn
<1> SUFFICES ASSUME StackInv, Booted
             PROVE  /\ \A s \in ToSet(form.services) : stack[s.name].image = <<"app", s.name>>
                    /\ \A db \in form.db : stack["db"].image = <<"platform", db.engine>>
                    /\ \A seed \in form.seed : stack["seed"].image = <<"app", seed.service>>
                    /\ form.egress # <<>> => stack["egress"].image = <<"platform", "egress-proxy">>
                    /\ Cardinality(DOMAIN stack) = Len(form.services) + Cardinality(form.db)
                         + Cardinality(form.seed) + (IF form.egress = <<>> THEN 0 ELSE 1)
  BY DEF EverySlotIsItsOwn
<1> DEFINE o == buildOptions(form)
<1>1. /\ form \in Manifest /\ ValidNames(form.services) /\ Compiles(form, o)
      /\ stack = ToCompose(Compile(form, o))
  BY DEF StackInv, Compiles, Validate, ValidServices
<1>2. /\ \A s \in ToSet(form.services) : stack[s.name] = appService(form, o, s)
      /\ \A x \in form.db : stack["db"] = dbService(x, o)
      /\ \A x \in form.seed : stack["seed"] = seedService(form, o, x)
      /\ form.egress # <<>> => stack["egress"] = egressProxyService(form, o)
      /\ Cardinality(DOMAIN stack)
           = Len(form.services) + Cardinality(form.db) + Cardinality(form.seed) + Proxies(form)
  BY <1>1, FileShape
<1>3. /\ \A s \in ToSet(form.services) : o.images[s.name] = <<"app", s.name>>
      /\ o.egressProxyImage = <<"platform", "egress-proxy">>
  BY DEF buildOptions
<1>4. \A x \in form.seed : o.images[x.service] = <<"app", x.service>>
  BY <1>1 DEF Compiles, buildOptions
<1>5. /\ \A s : appService(form, o, s).image = o.images[s.name]
      /\ \A x : dbService(x, o).image = <<"platform", x.engine>>
      /\ \A x : seedService(form, o, x).image = o.images[x.service]
      /\ egressProxyService(form, o).image = o.egressProxyImage
  BY DEF appService, dbService, seedService, egressProxyService, ServiceSpec
<1> HIDE DEF o
<1> QED
  BY <1>2, <1>3, <1>4, <1>5 DEF Proxies

LEMMA RoutesFromInv == StackInv => OnlyEgressRoutesOut
<1> SUFFICES ASSUME StackInv, Booted, NEW n \in DOMAIN stack
             PROVE  /\ InternalNet \in stack[n].networks
                    /\ EgressNet \in stack[n].networks <=> n = "egress"
                    /\ n = "egress" => form.egress # <<>>
  BY DEF OnlyEgressRoutesOut
<1> DEFINE o == buildOptions(form)
<1>1. /\ form \in Manifest /\ ValidNames(form.services)
      /\ stack = ToCompose(Compile(form, o))
  BY DEF StackInv, Compiles, Validate, ValidServices
<1>2. /\ \A s \in ToSet(form.services) : stack[s.name] = appService(form, o, s)
      /\ \A x \in form.db : stack["db"] = dbService(x, o)
      /\ \A x \in form.seed : stack["seed"] = seedService(form, o, x)
      /\ form.egress # <<>> => stack["egress"] = egressProxyService(form, o)
      /\ \/ n \in {s.name : s \in ToSet(form.services)}
         \/ n = "db" /\ form.db # {}
         \/ n = "seed" /\ form.seed # {}
         \/ n = "egress" /\ form.egress # <<>>
  BY <1>1, FileShape
<1>3. "egress" \notin {s.name : s \in ToSet(form.services)}
  BY <1>1 DEF ValidNames, reservedServiceNames
<1> HIDE DEF o
<1>4. CASE n = "egress" /\ form.egress # <<>>
  BY <1>2, <1>4 DEF egressProxyService, ServiceSpec
<1>5. CASE n # "egress"
  <2>1. stack[n].networks = {InternalNet}
    <3>1. /\ \A s : appService(form, o, s).networks = {InternalNet}
          /\ \A x : dbService(x, o).networks = {InternalNet}
          /\ \A x : seedService(form, o, x).networks = {InternalNet}
      BY DEF appService, dbService, seedService, ServiceSpec
    <3> QED
      BY <1>2, <1>5, <3>1
  <2> QED
    BY <1>5, <2>1 DEF InternalNet, EgressNet
<1> QED
  BY <1>2, <1>3, <1>4, <1>5

LEMMA EnvFromInv == StackInv => EnvIsWhatWasDeclared
<1> SUFFICES ASSUME StackInv, Booted, NEW n \in OwnCode
             PROVE  LET env == stack[n].env
                        proxied == IF form.egress = <<>> THEN {} ELSE proxyEnvNames
                    IN /\ DOMAIN env = proxied \cup {e.name : e \in ToSet(form.env)}
                       /\ \A e \in ToSet(form.env) : env[e.name] \in Declared(e.name)
                       /\ \A k \in proxied : IF k[1] = "no_proxy"
                            THEN {"db"} \cup {s.name : s \in ToSet(form.services)} \subseteq env[k].hosts
                            ELSE env[k] = proxyURL
  BY DEF EnvIsWhatWasDeclared
<1> DEFINE o == buildOptions(form)
           env == appEnv(form, o)
           proxied == IF form.egress = <<>> THEN {} ELSE proxyEnvNames
<1>1. /\ form \in Manifest /\ ValidNames(form.services) /\ Compiles(form, o) /\ Validate(form)
      /\ toManifestAccepts(form) /\ stack = ToCompose(Compile(form, o))
  BY DEF StackInv, Booted, Compiles, Validate, ValidServices
<1>2. stack[n].env = env
  <2>1. /\ \A s \in ToSet(form.services) : stack[s.name] = appService(form, o, s)
        /\ \A x \in form.seed : stack["seed"] = seedService(form, o, x)
    BY <1>1, FileShape
  <2>2. n \in {s.name : s \in ToSet(form.services)} \/ (n = "seed" /\ form.seed # {})
    BY DEF OwnCode
  <2>3. /\ \A s : appService(form, o, s).env = env
        /\ \A x : seedService(form, o, x).env = env
    BY DEF appService, seedService, ServiceSpec
  <2> QED
    BY <2>1, <2>2, <2>3
<1>3. /\ DOMAIN env = proxied \cup {e.name : e \in ToSet(form.env)}
      /\ \A e \in ToSet(form.env) : \E x \in ToSet(form.env) :
           /\ x.name = e.name
           /\ \/ x.source = "static" /\ env[e.name] = Text(x.value)
              \/ x.source = "platform" /\ env[e.name] = Text("dsn")
      /\ \A k \in proxied :
           IF k[1] = "no_proxy" THEN env[k] = Hosts(egressNoProxy(form.services))
           ELSE env[k] = proxyURL
  BY <1>1, EnvShape
<1> HIDE DEF env
<1>4. \A e \in ToSet(form.env) : env[e.name] \in Declared(e.name)
  BY <1>3 DEF Declared
<1>5. {"db"} \cup {s.name : s \in ToSet(form.services)} \subseteq Hosts(egressNoProxy(form.services)).hosts
  BY DEF Hosts, egressNoProxy
<1> QED
  BY <1>2, <1>3, <1>4, <1>5


-----------------------------------------------------------------------------
(* The life of the containers *)

\* There is a container: Validate asks for a service with the role "ui".
LEMMA SomeContainer == StackInv /\ Booted => DOMAIN ctr # {}
<1> SUFFICES ASSUME StackInv, Booted PROVE DOMAIN ctr # {}
  OBVIOUS
<1>1. /\ form \in Manifest /\ ValidServices(form.services)
      /\ stack = ToCompose(Compile(form, buildOptions(form))) /\ DOMAIN ctr = DOMAIN stack
  BY DEF StackInv, Compiles, Validate
<1>2. {i \in DOMAIN form.services : form.services[i].role = "ui"} # {}
  <2> DEFINE UIs == {i \in DOMAIN form.services : form.services[i].role = "ui"}
  <2>1. Cardinality(UIs) = 1
    BY <1>1 DEF ValidServices
  <2> HIDE DEF UIs
  <2>2. UIs # {}
    BY <2>1, FS_EmptySet
  <2> QED
    BY <2>2 DEF UIs
<1>3. PICK s \in ToSet(form.services) : TRUE
  BY <1>2 DEF ToSet
<1>4. s.name \in DOMAIN stack
  BY <1>1, FileShape DEF ValidServices
<1> QED
  BY <1>1, <1>4

LEMMA CrashesFromInv == StackInv => CrashesAreSeen
<1> SUFFICES ASSUME StackInv, stage = "live"
             PROVE  /\ Serves => Health
                    /\ Health => \A n \in DOMAIN ctr : ctr[n] \in {"running", "done"}
  BY DEF CrashesAreSeen
<1>1. DOMAIN ctr # {} /\ \A n \in DOMAIN ctr : ctr[n] \in CtrState
  BY SomeContainer DEF StackInv, Booted
<1>2. \A c \in CtrState : Healthy(ps(c)) <=> c \in {"running", "done"}
  BY DEF CtrState, Healthy, ps
<1>3. Health <=> \A n \in DOMAIN ctr : ctr[n] \in {"running", "done"}
  BY <1>1, <1>2 DEF Health, healthyFromPS
<1>4. Serves => \A n \in DOMAIN ctr : ctr[n] \in {"running", "done"}
  BY DEF Serves
<1> QED
  BY <1>3, <1>4

\* A container leaves "created" by Starts only.
LEMMA OnlyStarts ==
  ASSUME StackInv, StackNext, NEW n \in DOMAIN ctr, ctr[n] = "created", ctr'[n] # "created"
  PROVE  Starts(n) /\ Booted
<1>1. CASE Handlers
  <2>1. stage \in {"form", "stored", "published"}
    BY <1>1 DEF Handlers, CreateAccepted, CreateRejected, Publishes, PlayFailsToCompile,
                Provision, Goes
  <2>2. ctr = <<>>
    BY <2>1 DEF StackInv, Booted
  <2> QED
    BY <2>2
<1>2. CASE UpSucceeds \/ UpFails \/ UpTimesOut \/ PlayEnded
  BY <1>2 DEF UpSucceeds, UpFails, UpTimesOut, PlayEnded, stackVars
<1>3. ASSUME NEW k \in DOMAIN ctr, stage \in {"up", "live"},
             BecomesHealthy(k) \/ Completes(k) \/ Restarts(k) \/ Crashes(k) \/ Quits(k)
      PROVE  FALSE
  <2>1. ctr[k] # "created" /\ \E to : ctr' = [ctr EXCEPT ![k] = to]
    BY <1>3 DEF BecomesHealthy, Completes, Restarts, Crashes, Quits, CtrGoes
  <2> QED
    BY <2>1
<1>4. ASSUME NEW k \in DOMAIN ctr, stage \in {"up", "live"}, Starts(k) PROVE Starts(n) /\ Booted
  <2>1. \E to : ctr' = [ctr EXCEPT ![k] = to]
    BY <1>4 DEF Starts, CtrGoes
  <2>2. k = n
    BY <2>1
  <2> QED
    BY <1>4, <2>2 DEF Booted
<1> QED
  BY <1>1, <1>2, <1>3, <1>4 DEF StackNext, DockerStep

LEMMA StartsAfterData ==
  ASSUME StackInv, Booted, NEW n \in DOMAIN ctr, n \in OwnCode, Starts(n)
  PROVE  /\ form.db # {} /\ (form.seed = {} \/ n = "seed") => ctr["db"] = "running"
         /\ form.seed # {} /\ n # "seed" => ctr["seed"] = "done"
<1> DEFINE o == buildOptions(form)
<1>1. /\ form \in Manifest /\ ValidNames(form.services)
      /\ stack = ToCompose(Compile(form, o))
  BY DEF StackInv, Compiles, Validate, ValidServices
<1>2. \A dep \in stack[n].dependsOn :
        ctr[dep.on] = IF dep.when = "service_healthy" THEN "running" ELSE "done"
  BY DEF Starts, Satisfied
<1>3. CASE n \in {s.name : s \in ToSet(form.services)}
  <2>1. n # "seed"
    BY <1>1, <1>3 DEF ValidNames, reservedServiceNames
  <2>2. stack[n].dependsOn = appDeps(form)
    <3>1. PICK s \in ToSet(form.services) : n = s.name
      BY <1>3
    <3>2. stack[n] = appService(form, o, s)
      BY <1>1, <3>1, FileShape
    <3> QED
      BY <3>2 DEF appService, ServiceSpec
  <2>3. form.seed # {} => ctr["seed"] = "done"
    <3>1. form.seed # {} => After("seed", "service_completed_successfully") \in stack[n].dependsOn
      BY <2>2 DEF appDeps
    <3> QED
      BY <1>2, <3>1 DEF After
  <2>4. form.seed = {} /\ form.db # {} => ctr["db"] = "running"
    <3>1. form.seed = {} /\ form.db # {} => After("db", "service_healthy") \in stack[n].dependsOn
      BY <2>2 DEF appDeps
    <3> QED
      BY <1>2, <3>1 DEF After
  <2> QED
    BY <2>1, <2>3, <2>4
<1>4. CASE n = "seed" /\ form.seed # {}
  <2>1. PICK x \in form.seed : TRUE
    BY <1>4
  <2>2. stack["seed"] = seedService(form, o, x)
    BY <1>1, FileShape
  <2>3. stack[n].dependsOn = {After("db", "service_healthy")}
    BY <1>4, <2>2 DEF seedService, ServiceSpec
  <2> QED
    BY <1>2, <1>4, <2>3 DEF After
<1> QED
  BY <1>3, <1>4 DEF OwnCode


-----------------------------------------------------------------------------
(* The walk of path.Clean *)

\* One segment of it: what Clean does to w at the segment x.
CleanStep(w, x) ==
  CASE x \in {"", "."} -> w
    [] x = ".." /\ w # <<>> /\ Last(w) # ".." -> Front(w)
    [] OTHER -> Append(w, x)

IsWalk(p, n, w) ==
  w = [i \in 0..n |-> IF i = 0 THEN <<>> ELSE CleanStep(w[i - 1], p[i])]

LEMMA WalkExists ==
  ASSUME NEW p, NEW N \in Nat
  PROVE  \E w : IsWalk(p, N, w)
<1> DEFINE Bad == {n \in Nat : ~\E w : IsWalk(p, n, w)}
<1>1. SUFFICES ASSUME Bad # {} PROVE FALSE
  OBVIOUS
<1>2. PICK n \in Bad : \A k \in Bad : n <= k
  <2>1. Bad \in SUBSET Nat
    OBVIOUS
  <2> HIDE DEF Bad
  <2> QED
    BY <1>1, <2>1, LeastNat, Zenon
<1>3. n # 0
  <2>1. IsWalk(p, 0, [i \in 0..0 |-> <<>>])
    BY DEF IsWalk
  <2> QED
    BY <2>1
<1>4. PICK v : IsWalk(p, n - 1, v)
  <2>1. n - 1 \in Nat /\ n - 1 \notin Bad
    BY <1>2, <1>3
  <2> QED
    BY <2>1
<1> DEFINE w == [i \in 0..n |-> IF i = n THEN CleanStep(v[n - 1], p[n]) ELSE v[i]]
<1>5. IsWalk(p, n, w)
  <2>1. n \in Nat \ {0}
    BY <1>3
  <2>2. \A i \in 0..(n - 1) : w[i] = v[i]
    BY <2>1
  <2>3. \A i \in 0..(n - 1) : v[i] = IF i = 0 THEN <<>> ELSE CleanStep(v[i - 1], p[i])
    BY <1>4 DEF IsWalk
  <2>4. \A i \in 0..n : w[i] = IF i = 0 THEN <<>> ELSE CleanStep(w[i - 1], p[i])
    <3> SUFFICES ASSUME NEW i \in 0..n
                 PROVE  w[i] = IF i = 0 THEN <<>> ELSE CleanStep(w[i - 1], p[i])
      OBVIOUS
    <3>1. CASE i = n
      BY <2>1, <2>2, <3>1
    <3>2. CASE i # n
      <4>1. i \in 0..(n - 1) /\ (i # 0 => i - 1 \in 0..(n - 1))
        BY <2>1, <3>2
      <4> QED
        BY <2>2, <2>3, <4>1
    <3> QED
      BY <3>1, <3>2
  <2> QED
    BY <2>4 DEF IsWalk
<1> QED
  BY <1>2, <1>5

LEMMA CleanIsWalk ==
  ASSUME NEW p \in Seq(STRING)
  PROVE  IsWalk(p, Len(p), CleanUpTo(p))
<1>1. CleanUpTo(p) = CHOOSE w : IsWalk(p, Len(p), w)
  BY DEF CleanUpTo, IsWalk, CleanStep
<1>2. Len(p) \in Nat
  BY LenProperties
<1> QED
  BY <1>1, <1>2, WalkExists


Ups(p, i)   == {j \in 1..i : p[j] = ".."}
Downs(p, i) == {j \in 1..i : p[j] \notin {"", ".", ".."}}

LEMMA OneMore ==
  ASSUME NEW p, NEW i \in Nat \ {0}
  PROVE  LET u0 == Cardinality(Ups(p, i - 1))
             u1 == Cardinality(Ups(p, i))
             d0 == Cardinality(Downs(p, i - 1))
             d1 == Cardinality(Downs(p, i))
         IN /\ u0 \in Nat /\ d0 \in Nat
            /\ p[i] = ".." => u1 = u0 + 1 /\ d1 = d0
            /\ p[i] \in {"", "."} => u1 = u0 /\ d1 = d0
            /\ p[i] \notin {"", ".", ".."} => u1 = u0 /\ d1 = d0 + 1
<1>1. 1..i = (1..(i - 1)) \cup {i} /\ i \notin 1..(i - 1)
  OBVIOUS
<1>2. IsFiniteSet(Ups(p, i - 1)) /\ IsFiniteSet(Downs(p, i - 1))
  <2>1. IsFiniteSet(1..(i - 1))
    BY FS_Interval
  <2>2. Ups(p, i - 1) \in SUBSET (1..(i - 1)) /\ Downs(p, i - 1) \in SUBSET (1..(i - 1))
    BY DEF Ups, Downs
  <2> QED
    BY <2>1, <2>2, FS_Subset
<1>3. i \notin Ups(p, i - 1) /\ i \notin Downs(p, i - 1)
  BY <1>1 DEF Ups, Downs
<1>4. ASSUME p[i] = ".."
      PROVE  Ups(p, i) = Ups(p, i - 1) \cup {i} /\ Downs(p, i) = Downs(p, i - 1)
  BY <1>1, <1>4 DEF Ups, Downs
<1>5. ASSUME p[i] \in {"", "."}
      PROVE  Ups(p, i) = Ups(p, i - 1) /\ Downs(p, i) = Downs(p, i - 1)
  BY <1>1, <1>5 DEF Ups, Downs
<1>6. ASSUME p[i] \notin {"", ".", ".."}
      PROVE  Ups(p, i) = Ups(p, i - 1) /\ Downs(p, i) = Downs(p, i - 1) \cup {i}
  BY <1>1, <1>6 DEF Ups, Downs
<1>7. Cardinality(Ups(p, i - 1)) \in Nat /\ Cardinality(Downs(p, i - 1)) \in Nat
  BY <1>2, FS_CardinalityType
<1>8. /\ Cardinality(Ups(p, i - 1) \cup {i}) = Cardinality(Ups(p, i - 1)) + 1
      /\ Cardinality(Downs(p, i - 1) \cup {i}) = Cardinality(Downs(p, i - 1)) + 1
  BY <1>2, <1>3, FS_AddElement
<1> QED
  BY <1>4, <1>5, <1>6, <1>7, <1>8

\* A walk that has not left the root is as deep as the segments say, and never
\* was above the root; one that has left it keeps a ".." at its front.
Inside(p, i, w) ==
  /\ \A k \in 1..Len(w) : w[k] # ".."
  /\ Len(w) = Cardinality(Downs(p, i)) - Cardinality(Ups(p, i))
  /\ \A j \in 1..i : Cardinality(Downs(p, j)) >= Cardinality(Ups(p, j))

Outside(w) == w # <<>> /\ w[1] = ".."

LEMMA StepKeepsTrack ==
  ASSUME NEW p \in Seq(STRING), NEW i \in 1..Len(p), NEW w \in Seq(STRING),
         Inside(p, i - 1, w) \/ Outside(w)
  PROVE  LET v == CleanStep(w, p[i])
         IN v \in Seq(STRING) /\ (Inside(p, i, v) \/ Outside(v))
<1> DEFINE v == CleanStep(w, p[i])
           u0 == Cardinality(Ups(p, i - 1))
           u1 == Cardinality(Ups(p, i))
           d0 == Cardinality(Downs(p, i - 1))
           d1 == Cardinality(Downs(p, i))
<1> SUFFICES v \in Seq(STRING) /\ (Inside(p, i, v) \/ Outside(v))
  OBVIOUS
<1>1. Len(p) \in Nat /\ p[i] \in STRING /\ Len(w) \in Nat /\ i \in Nat \ {0}
  BY LenProperties, ElementOfSeq
<1>2. /\ u0 \in Nat /\ d0 \in Nat
      /\ p[i] = ".." => u1 = u0 + 1 /\ d1 = d0
      /\ p[i] \in {"", "."} => u1 = u0 /\ d1 = d0
      /\ p[i] \notin {"", ".", ".."} => u1 = u0 /\ d1 = d0 + 1
  BY <1>1, OneMore
<1>3. ASSUME Inside(p, i - 1, w)
      PROVE  /\ \A k \in 1..Len(w) : w[k] # ".."
             /\ Len(w) = d0 - u0
             /\ d0 - u0 >= 0
  BY <1>1, <1>3 DEF Inside
<1>4. ASSUME Inside(p, i - 1, w), d1 >= u1, \A k \in 1..Len(v) : v[k] # "..", Len(v) = d1 - u1
      PROVE  Inside(p, i, v)
  <2>1. 1..i = (1..(i - 1)) \cup {i}
    BY <1>1
  <2> QED
    BY <1>4, <2>1 DEF Inside
<1> HIDE DEF v, u0, u1, d0, d1
<1>5. CASE p[i] \in {"", "."}
  <2>1. v = w
    BY <1>5 DEF CleanStep, v
  <2>2. CASE Inside(p, i - 1, w)
    <3>1. d1 - u1 = d0 - u0 /\ d1 >= u1
      <4>1. u1 = u0 /\ d1 = d0
        BY <1>2, <1>5
      <4>2. u0 \in Nat /\ d0 \in Nat /\ d0 - u0 >= 0
        BY <1>2, <1>3, <2>2
      <4> QED
        BY <4>1, <4>2
    <3> QED
      BY <1>3, <1>4, <2>1, <2>2, <3>1
  <2> QED
    BY <2>1, <2>2
<1>6. CASE p[i] = ".." /\ w # <<>> /\ Last(w) # ".."
  <2>1. /\ v \in Seq(STRING) /\ Len(v) = Len(w) - 1 /\ Len(w) >= 1
        /\ \A k \in 1..Len(v) : v[k] = w[k]
    <3>1. v = SubSeq(w, 1, Len(w) - 1)
      BY <1>6 DEF CleanStep, Front, v
    <3>2. \A k \in 1..(Len(w) - 1) : w[k] \in STRING
      BY <1>1, ElementOfSeq
    <3>3. Len(w) >= 1
      BY <1>1, <1>6, EmptySeq
    <3>4. /\ SubSeq(w, 1, Len(w) - 1) \in Seq(STRING)
          /\ Len(SubSeq(w, 1, Len(w) - 1)) = IF 1 <= Len(w) - 1 THEN Len(w) - 1 - 1 + 1 ELSE 0
          /\ \A k \in 1..(Len(w) - 1 - 1 + 1) : SubSeq(w, 1, Len(w) - 1)[k] = w[1 + k - 1]
      <4>1. 1 \in Int /\ Len(w) - 1 \in Int
        BY <1>1
      <4> QED
        BY <3>2, <4>1, SubSeqProperties
    <3>5. Len(v) = Len(w) - 1
      <4>1. Len(v) = IF 1 <= Len(w) - 1 THEN Len(w) - 1 - 1 + 1 ELSE 0
        BY <3>1, <3>4
      <4>2. \A l \in Nat : l >= 1 => (IF 1 <= l - 1 THEN l - 1 - 1 + 1 ELSE 0) = l - 1
        OBVIOUS
      <4> QED
        BY <1>1, <3>3, <4>1, <4>2
    <3>6. \A k \in 1..(Len(w) - 1) : v[k] = w[k]
      BY <1>1, <3>1, <3>4
    <3> QED
      BY <3>1, <3>3, <3>4, <3>5, <3>6
  <2>2. CASE Inside(p, i - 1, w)
    <3>1. Len(v) = d1 - u1 /\ d1 >= u1
      BY <1>1, <1>2, <1>3, <1>6, <2>1, <2>2
    <3>2. \A k \in 1..Len(v) : v[k] # ".."
      BY <1>1, <1>3, <2>1, <2>2
    <3> QED
      BY <1>4, <2>1, <2>2, <3>1, <3>2
  <2>3. CASE Outside(w)
    <3>1. Len(w) # 1
      BY <1>6, <2>3 DEF Outside, Last
    <3>2. Len(v) >= 1 /\ v[1] = ".."
      BY <1>1, <2>1, <2>3, <3>1 DEF Outside
    <3> QED
      BY <2>1, <3>2 DEF Outside
  <2> QED
    BY <2>1, <2>2, <2>3
<1>7. CASE p[i] \notin {"", "."} /\ ~(p[i] = ".." /\ w # <<>> /\ Last(w) # "..")
  <2>1. v = Append(w, p[i])
    BY <1>7 DEF CleanStep, v
  <2>2. /\ v \in Seq(STRING) /\ v # <<>> /\ Len(v) = Len(w) + 1
        /\ \A k \in 1..Len(w) : v[k] = w[k]
        /\ v[Len(w) + 1] = p[i]
    BY <1>1, <2>1, AppendProperties
  <2>3. CASE Outside(w)
    <3>1. Len(w) >= 1
      BY <1>1, <2>3, EmptySeq DEF Outside
    <3> QED
      BY <1>1, <2>2, <2>3, <3>1 DEF Outside
  <2>4. CASE Inside(p, i - 1, w) /\ p[i] = ".."
    <3>1. w = <<>>
      <4>1. w = <<>> \/ Last(w) = ".."
        BY <1>7, <2>4
      <4>2. w # <<>> => Len(w) \in 1..Len(w)
        BY <1>1, EmptySeq
      <4> QED
        BY <1>3, <2>4, <4>1, <4>2 DEF Last
    <3> QED
      BY <2>2, <2>4, <3>1 DEF Outside
  <2>5. CASE Inside(p, i - 1, w) /\ p[i] # ".."
    <3>1. Len(v) = d1 - u1 /\ d1 >= u1
      <4>1. u1 = u0 /\ d1 = d0 + 1
        BY <1>2, <1>7, <2>5
      <4>2. u0 \in Nat /\ d0 \in Nat /\ d0 - u0 >= 0 /\ Len(w) = d0 - u0
        BY <1>2, <1>3, <2>5
      <4> QED
        BY <2>2, <4>1, <4>2
    <3>2. \A k \in 1..Len(v) : v[k] # ".."
      BY <1>1, <1>3, <2>2, <2>5
    <3> QED
      BY <1>4, <2>2, <2>5, <3>1, <3>2
  <2> QED
    BY <2>2, <2>3, <2>4, <2>5
<1> QED
  BY <1>5, <1>6, <1>7

LEMMA WalkTracks ==
  ASSUME NEW p \in Seq(STRING), NEW w, IsWalk(p, Len(p), w)
  PROVE  \A i \in 0..Len(p) : w[i] \in Seq(STRING) /\ (Inside(p, i, w[i]) \/ Outside(w[i]))
<1> DEFINE Good(i) == w[i] \in Seq(STRING) /\ (Inside(p, i, w[i]) \/ Outside(w[i]))
           Bad == {i \in 0..Len(p) : ~Good(i)}
<1>1. Len(p) \in Nat
  BY LenProperties
<1>2. /\ w[0] = <<>>
      /\ \A i \in 1..Len(p) : w[i] = CleanStep(w[i - 1], p[i])
  BY <1>1 DEF IsWalk
<1>3. Good(0)
  <2>1. Cardinality(Ups(p, 0)) = 0 /\ Cardinality(Downs(p, 0)) = 0
    <3>1. Ups(p, 0) = {} /\ Downs(p, 0) = {}
      BY DEF Ups, Downs
    <3> QED
      BY <3>1, FS_EmptySet
  <2>2. w[0] \in Seq(STRING) /\ Len(w[0]) = 0
    BY <1>2, EmptySeq
  <2>3. Inside(p, 0, w[0])
    BY <2>1, <2>2 DEF Inside
  <2> QED
    BY <2>2, <2>3
<1>4. ASSUME NEW i \in 1..Len(p), Good(i - 1) PROVE Good(i)
  <2>1. w[i] = CleanStep(w[i - 1], p[i])
    BY <1>2
  <2> QED
    BY <1>4, <2>1, StepKeepsTrack
<1> HIDE DEF Good
<1>5. ASSUME Bad # {} PROVE FALSE
  <2>1. Bad \in SUBSET Nat
    BY <1>1
  <2>2. PICK i \in Bad : \A k \in Bad : i <= k
    <3> HIDE DEF Bad
    <3> QED
      BY <1>5, <2>1, LeastNat, Zenon
  <2>3. i \in 1..Len(p) /\ i - 1 \in 0..Len(p)
    BY <1>1, <1>3
  <2>4. Good(i - 1)
    <3>1. ~(i <= i - 1)
      BY <2>3
    <3> QED
      BY <2>2, <2>3, <3>1
  <2> QED
    BY <1>4, <2>3, <2>4
<1>6. \A i \in 0..Len(p) : Good(i)
  BY <1>5
<1> QED
  BY <1>6 DEF Good

\* What safeContextPath lets through never leaves the root, and ends below it.
LEMMA SafePathsStayInside ==
  ASSUME NEW p \in Seq(STRING), safeContextPath(p)
  PROVE  /\ Cardinality(Downs(p, Len(p))) > Cardinality(Ups(p, Len(p)))
         /\ \A i \in 1..Len(p) : Cardinality(Downs(p, i)) >= Cardinality(Ups(p, i))
<1> DEFINE c == Clean(p)
           n == Len(p)
<1>1. Len(p) \in Nat
  BY LenProperties
<1>2. c \in Seq(STRING) /\ (Inside(p, n, c) \/ Outside(c))
  BY <1>1, CleanIsWalk, WalkTracks DEF Clean
<1>3. c # <<>> /\ Head(c) # ".."
  BY DEF safeContextPath
<1> HIDE DEF c
<1>4. Head(c) = c[1] /\ Len(c) \in Nat /\ Len(c) >= 1
  BY <1>2, <1>3, EmptySeq, LenProperties
<1>5. Inside(p, n, c)
  BY <1>2, <1>3, <1>4 DEF Outside
<1>6. Cardinality(Downs(p, n)) \in Nat /\ Cardinality(Ups(p, n)) \in Nat
  <2>1. IsFiniteSet(1..n)
    BY <1>1, FS_Interval
  <2>2. Ups(p, n) \in SUBSET (1..n) /\ Downs(p, n) \in SUBSET (1..n)
    BY DEF Ups, Downs
  <2> QED
    BY <2>1, <2>2, FS_Subset, FS_CardinalityType
<1> QED
  BY <1>4, <1>5, <1>6 DEF Inside

LEMMA PathsFromInv == StackInv => DockerfileStaysInside
<1> SUFFICES ASSUME StackInv, stage \notin {"form", "rejected"}, NEW s \in ToSet(form.services)
             PROVE  LET p == s.dockerfile
                        up(i)    == Cardinality({j \in 1..i : p[j] = ".."})
                        down(i)  == Cardinality({j \in 1..i : p[j] \notin {"", ".", ".."}})
                    IN down(Len(p)) > up(Len(p)) /\ \A i \in 1..Len(p) : down(i) >= up(i)
  BY DEF DockerfileStaysInside
<1>1. form \in Manifest /\ Validate(form)
  BY DEF StackInv
<1>2. s \in Service /\ safeContextPath(s.dockerfile)
  <2>1. s \in Service
    BY <1>1, Counts, LenProperties DEF ToSet
  <2> QED
    BY <1>1, <2>1 DEF Validate, ValidServices, ValidService
<1>3. s.dockerfile \in Seq(STRING)
  BY <1>2 DEF Service
<1> QED
  BY <1>2, <1>3, SafePathsStayInside DEF Ups, Downs

-----------------------------------------------------------------------------
(* The theorems *)

\* The stages, the number of crashes and the containers' states are what they
\* should be; and a form that was accepted is one that toManifest and Validate
\* accept, for as long as it is stored.
THEOREM StackInvariant == StackSpec => []StackInv
<1> QED
  BY StackInitInv, StackInductive, PTL DEF StackSpec

\* Whatever the Owner declares and Validate lets through compiles to a Compose
\* file in which nothing is overwritten, nothing but the egress proxy has a
\* route out, and no Dockerfile is outside its repo (Manifest.Validate, Compile,
\* ToCompose).
THEOREM StacksAreAsDeclared == StackSpec => []StackIsAsDeclared
<1>1. StackInv => StackIsAsDeclared
  BY SlotsFromInv, RoutesFromInv, PathsFromInv DEF StackIsAsDeclared
<1> QED
  BY <1>1, StackInvariant, PTL

\* The Owner's code sees his variables and the proxy's, and nothing else
\* (resolveAppEnv, injectProxyEnv).
THEOREM EnvsAreAsDeclared == StackSpec => []EnvIsWhatWasDeclared
<1> QED
  BY EnvFromInv, StackInvariant, PTL

\* healthyFromPS neither calls a Stack unhealthy that serves nor overlooks a
\* container that crashed or is being restarted.
THEOREM HealthSeesCrashes == StackSpec => []CrashesAreSeen
<1> QED
  BY CrashesFromInv, StackInvariant, PTL

\* No container of the Owner starts before its data is there, whatever docker
\* does in between (appDeps, seedService).
THEOREM AppsStartAfterTheirData == StackSpec => AppsWaitForTheirData
<1>1. StackInv /\ [StackNext]_stackVars =>
        [ \A n \in DOMAIN ctr : n \in OwnCode /\ ctr[n] = "created" /\ ctr'[n] # "created" =>
            /\ form.db # {} /\ (form.seed = {} \/ n = "seed") => ctr["db"] = "running"
            /\ form.seed # {} /\ n # "seed" => ctr["seed"] = "done" ]_stackVars
  BY OnlyStarts, StartsAfterData DEF stackVars
<1> QED
  BY <1>1, StackInvariant, PTL DEF StackSpec, AppsWaitForTheirData

=============================================================================
