---------------------------- MODULE MCStackBoot ----------------------------
(* Forms for StackBoot: a good one, and every field off in some way. *)
EXTENDS StackBoot

ui == [name |-> "web", repo |-> "o/web", dockerfile |-> <<"Dockerfile">>, port |-> 80,
       role |-> "ui", prefix |-> <<>>, healthcheck |-> <<>>]
api == [ui EXCEPT !.name = "api", !.port = 65535, !.role = "api",
                  !.prefix = <<"", "api">>, !.healthcheck = <<"curl">>]

Paths == { <<>>, <<"", "etc">>, <<"..", "x">>, <<"a", "..">>, <<"a", "..", "..", "x">>,
           <<"a", "..", "x">>, <<".", "a", "", "b">>, <<"a", "..", "x", "..", "..", "y">> }

OddAPIs ==
  {[api EXCEPT !.name = n] : n \in {"", "web", "DB"} \cup reservedServiceNames}
  \cup {[api EXCEPT !.port = p] : p \in {0, 1, 65536}}
  \cup {[api EXCEPT !.prefix = p] : p \in {<<>>, <<"api">>}}
  \cup {[api EXCEPT !.role = r] : r \in {"worker", "ui"}}
  \cup {[api EXCEPT !.dockerfile = p] : p \in Paths}
  \cup {[api EXCEPT !.repo = ""], [api EXCEPT !.healthcheck = <<"curl", "">>]}

GoodServices == { <<ui>>, <<ui, api>> }
OddServices  == { <<>>, <<api>>, <<ui, api, [api EXCEPT !.name = "api2"]>>,
                  <<ui, api, [api EXCEPT !.name = "api2", !.prefix = <<"", "v2">>]>> }
                  \cup { <<ui, s>> : s \in OddAPIs }

Postgres == [engine |-> "postgres", version |-> "16"]
DBs == { {}, {Postgres} }
OddDBs == { {[Postgres EXCEPT !.engine = "mysql"]}, {[Postgres EXCEPT !.engine = ""]},
            {[Postgres EXCEPT !.version = ""]} }

Seeds == { {}, {[service |-> "web", command |-> <<"seed">>]} }
OddSeeds == { {[service |-> "nope", command |-> <<"seed">>]}, {[service |-> "web", command |-> <<>>]} }

Var(n, how, src, v) == [name |-> <<n, how>>, source |-> src, value |-> v]
X   == Var("x", "UPPER", "static", "1")
URL == Var("database_url", "UPPER", "platform", "")
Envs == { <<>>, <<X, URL>>, <<URL, Var("database_url", "UPPER", "static", "mine")>>,
          <<X, Var("x", "lower", "static", "2")>> }
OddEnvs == { <<Var("http_proxy", how, "static", "p")>> : how \in {"lower", "UPPER", "Mixed"} }
  \cup { <<Var("", "UPPER", "static", "")>>, <<Var("token", "UPPER", "owner", "")>>,
         <<Var("x", "UPPER", "vault", "")>> }
Unknown == { <<Var("port", "UPPER", "platform", "")>>, <<URL>> }

Rules == { <<>>, <<[host |-> "api.example.com", port |-> 443]>> }
OddRules == { <<[host |-> "*.example.com", port |-> 443]>>, <<[host |-> "", port |-> 443]>>,
              <<[host |-> "a.example.com", port |-> 0]>> }

Form(s, db, seed, env, rules) == [services |-> s, db |-> db, seed |-> seed, env |-> env, egress |-> rules]

\* Good declarations in every combination; then one odd field at a time.
GoodForms == { Form(s, db, seed, env, r) :
                 s \in GoodServices, db \in DBs, seed \in Seeds, env \in Envs, r \in Rules }
OddForms ==
  { Form(s, db, {}, <<>>, r) : s \in OddServices, db \in DBs, r \in Rules }
  \cup { Form(<<ui>>, db, {}, <<>>, <<>>) : db \in OddDBs }
  \cup { Form(<<ui>>, db, seed, <<>>, <<>>) : db \in DBs, seed \in OddSeeds }
  \cup { Form(<<ui>>, db, {}, env, r) : db \in DBs, env \in OddEnvs \cup Unknown, r \in Rules }
  \cup { Form(<<ui>>, {}, {}, <<>>, r) : r \in OddRules }

AllForms == GoodForms \cup OddForms

=============================================================================
