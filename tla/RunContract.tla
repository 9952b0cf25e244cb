---------------------------- MODULE RunContract ----------------------------
(***************************************************************************)
(* The run contract, package runcontract: what an Owner may declare        *)
(* (Validate), the locked-down plan it is compiled to (Compile), and the   *)
(* Compose file that plan renders to (ToCompose).  All of it is pure, so   *)
(* this module has no variables; StackBoot runs it.                        *)
(*                                                                         *)
(* Abstractions.  A pointer that may be nil is a set of at most one        *)
(* element.  A file path or a URL prefix is the sequence of its segments;  *)
(* an empty first segment stands for a leading slash.  The name of an      *)
(* environment variable is <<name in lower case, spelling>>.  What every   *)
(* container gets alike (runtime, user, caps, read-only root) and the      *)
(* images' versions are left out.                                          *)
(***************************************************************************)
EXTENDS Integers, FiniteSets, SequencesExt

reservedServiceNames == {"db", "seed", "egress"}
reservedEnvNames     == {"http_proxy", "https_proxy", "no_proxy"}
supportedDBEngines   == {"postgres"}

\* Values outside the two regular expressions: names that are not [a-z0-9-]+,
\* and hosts with a scheme, a port, a path or a wildcard.
MalformedNames == {"DB", "web_1"}
MalformedHosts == {"*.example.com"}

\* What is named n last, of the elements of s at the indices I.
LastNamed(s, I, n) ==
  s[CHOOSE i \in I : s[i].name = n /\ \A j \in I : s[j].name = n => j <= i]

-----------------------------------------------------------------------------
(* The types of a manifest *)

Service ==
  [name : STRING, repo : STRING, dockerfile : Seq(STRING), port : Int, role : STRING,
   prefix : Seq(STRING), healthcheck : Seq(STRING)]

DB         == [engine : STRING, version : STRING]
Seed       == [service : STRING, command : Seq(STRING)]
EnvVar     == [name : STRING \X STRING, source : STRING, value : STRING]
EgressRule == [host : STRING, port : Int]

Pointer(S) == {p \in SUBSET S : \A x, y \in p : x = y}

Manifest ==
  [services : Seq(Service), db : Pointer(DB), seed : Pointer(Seed), env : Seq(EnvVar),
   egress : Seq(EgressRule)]

-----------------------------------------------------------------------------
(* Manifest.Validate *)

\* path.Clean on a relative path, a segment at a time: "." goes, and ".." takes
\* the segment before it along.
CleanUpTo(p) ==
  LET walk[i \in 0..Len(p)] ==
        IF i = 0 THEN <<>>
        ELSE CASE p[i] \in {"", "."} -> walk[i - 1]
               [] p[i] = ".." /\ walk[i - 1] # <<>> /\ Last(walk[i - 1]) # ".." -> Front(walk[i - 1])
               [] OTHER -> Append(walk[i - 1], p[i])
  IN walk

Clean(p) == CleanUpTo(p)[Len(p)]

safeContextPath(p) ==
  /\ p # <<>> /\ Head(p) # ""
  /\ Clean(p) # <<>> /\ Head(Clean(p)) # ".."

ValidPort(n) == n \in 1..65535

ValidService(s) ==
  /\ s.repo # ""
  /\ safeContextPath(s.dockerfile)
  /\ ValidPort(s.port)
  /\ s.role \in {"ui", "api"}
  /\ s.role = "api" => s.prefix # <<>> /\ Head(s.prefix) = ""
  /\ "" \notin ToSet(s.healthcheck)

ValidNames(services) ==
  /\ \A i, j \in DOMAIN services : services[i].name = services[j].name => i = j
  /\ \A s \in ToSet(services) :
       s.name \notin {""} \cup MalformedNames \cup reservedServiceNames

ValidServices(services) ==
  /\ ValidNames(services)
  /\ \A s \in ToSet(services) : ValidService(s)
  /\ Cardinality({i \in DOMAIN services : services[i].role = "ui"}) = 1
  /\ \A i, j \in DOMAIN services :
       services[i].role = "api" /\ services[j].role = "api"
         /\ services[i].prefix = services[j].prefix => i = j

ValidDB(db) == db.engine \in supportedDBEngines /\ db.version # ""

\* Mutant: the reserved names are compared without folding their case.
ValidEnv_CaseSensitive(e) ==
  /\ e.name[1] # ""
  /\ e.name \notin reservedEnvNames \X {"lower"}
  /\ e.source \in {"platform", "static", "owner"}

ValidEnv(e) ==
  /\ e.name[1] # ""
  /\ e.name[1] \notin reservedEnvNames
  /\ e.source \in {"platform", "static", "owner"}

ValidEgress(r) == r.host \notin {""} \cup MalformedHosts /\ ValidPort(r.port)

ValidSeed(m, seed) ==
  /\ \E s \in ToSet(m.services) : s.name = seed.service
  /\ seed.command # <<>>
  /\ m.db # {}

Validate(m) ==
  /\ ValidServices(m.services)
  /\ \A db \in m.db : ValidDB(db)
  /\ \A e \in ToSet(m.env) : ValidEnv(e)
  /\ \A r \in ToSet(m.egress) : ValidEgress(r)
  /\ \A seed \in m.seed : ValidSeed(m, seed)

-----------------------------------------------------------------------------
(* Compile.  The options o carry the images of the services, the values of *)
(* the platform's variables, and whether DB credentials and the image of   *)
(* the egress proxy are there.                                             *)

InternalNet == "s-net"
EgressNet   == "s-egress-net"

Text(v)  == [text |-> v, hosts |-> {}]
Hosts(h) == [text |-> "", hosts |-> h]

proxyURL == Text("http://egress:8888")

egressNoProxy(services) ==
  {"localhost", "127.0.0.1", "db"} \cup {s.name : s \in ToSet(services)}

proxyEnvNames == reservedEnvNames \X {"lower", "UPPER"}

\* Both spellings of the three variables, over the declared ones.
injectProxyEnv(env, services) ==
  [k \in proxyEnvNames \cup DOMAIN env |->
     CASE k \notin proxyEnvNames -> env[k]
       [] k \in proxyEnvNames /\ k[1] = "no_proxy" -> Hosts(egressNoProxy(services))
       [] OTHER -> proxyURL]

\* Later declarations of a name overwrite earlier ones; the Owner's secrets are
\* not resolved yet.
resolveAppEnv(declared, platform) ==
  LET I == {i \in DOMAIN declared : declared[i].source \in {"static", "platform"}}
  IN [n \in {declared[i].name : i \in I} |->
        LET e == LastNamed(declared, I, n)
        IN  IF e.source = "static" THEN Text(e.value) ELSE platform[n]]

appEnv(m, o) ==
  LET declared == resolveAppEnv(m.env, o.platformEnv)
  IN IF m.egress = <<>> THEN declared ELSE injectProxyEnv(declared, m.services)

After(name, condition) == [on |-> name, when |-> condition]

\* Mutants: apps wait for the database only; or name a seed that is not there.
appDeps_DBOnly(m) ==
  IF m.db # {} THEN {After("db", "service_healthy")} ELSE {}

appDeps_AlwaysSeed(m) ==
  IF m.db # {} THEN {After("seed", "service_completed_successfully")} ELSE {}

appDeps(m) ==
  IF m.seed # {} THEN {After("seed", "service_completed_successfully")}
  ELSE IF m.db # {} THEN {After("db", "service_healthy")}
  ELSE {}

ServiceSpec(name, image, networks, env, restart, probed, deps) ==
  [name |-> name, image |-> image, networks |-> networks, env |-> env,
   restart |-> restart, probed |-> probed, dependsOn |-> deps]

dbService(db, o) ==
  ServiceSpec("db", <<"platform", db.engine>>, {InternalNet}, o.creds, "on-failure", TRUE, {})

egressProxyService(m, o) ==
  ServiceSpec("egress", o.egressProxyImage, {InternalNet, EgressNet},
    [k \in {<<"egress_allowlist", "UPPER">>} |->
       Hosts({<<r.host, r.port>> : r \in ToSet(m.egress)})],
    "on-failure", TRUE, {})

seedService(m, o, seed) ==
  ServiceSpec("seed", o.images[seed.service], {InternalNet}, appEnv(m, o), "no",
    FALSE, {After("db", "service_healthy")})

\* Mutant: apps join the network with a route out as well.
appService_DualHomed(m, o, s) ==
  ServiceSpec(s.name, o.images[s.name],
    IF m.egress = <<>> THEN {InternalNet} ELSE {InternalNet, EgressNet},
    appEnv(m, o), "on-failure", s.healthcheck # <<>>, appDeps(m))

appService(m, o, s) ==
  ServiceSpec(s.name, o.images[s.name], {InternalNet}, appEnv(m, o), "on-failure",
    s.healthcheck # <<>>, appDeps(m))

Compiles(m, o) ==
  /\ Validate(m)
  /\ \A e \in ToSet(m.env) : e.source = "platform" => e.name \in DOMAIN o.platformEnv
  /\ m.egress # <<>> => o.egressProxyImage # <<>>
  /\ m.db # {} => o.creds # <<>>
  /\ {s.name : s \in ToSet(m.services)} \subseteq DOMAIN o.images
  /\ {seed.service : seed \in m.seed} \subseteq DOMAIN o.images

\* A pointer's target, if it has one.
Target(pointer) == IF pointer = {} THEN <<>> ELSE <<CHOOSE x \in pointer : TRUE>>

Compile(m, o) ==
  (IF m.egress = <<>> THEN <<>> ELSE <<egressProxyService(m, o)>>)
    \o [i \in DOMAIN Target(m.db) |-> dbService(Target(m.db)[i], o)]
    \o [i \in DOMAIN Target(m.seed) |-> seedService(m, o, Target(m.seed)[i])]
    \o [i \in DOMAIN m.services |-> appService(m, o, m.services[i])]

\* The Compose file keys services by name: of two with one name the last wins.
ToCompose(plan) ==
  [n \in {s.name : s \in ToSet(plan)} |-> LastNamed(plan, DOMAIN plan, n)]

=============================================================================
