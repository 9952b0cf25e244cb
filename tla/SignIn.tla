------------------------------- MODULE SignIn -------------------------------
(***************************************************************************)
(* Owner sign-in: auth.Authenticator (Login, Callback, Logout), the        *)
(* login_sessions table, and the hourly prune of main.  Every handler runs *)
(* in a goroutine of its own, and a reply may never reach its browser.     *)
(*                                                                         *)
(* Abstractions.  A Login mints a random state, and its callback at most   *)
(* one session token: both are named by the login's number, and MaxLogins  *)
(* bounds the logins.  Tokens are hashed before they are stored, which     *)
(* keeps distinct tokens distinct.  GitHub lets whoever sits at a browser  *)
(* approve or deny a login, and redeems each code once.  A callback URL    *)
(* can be opened in any browser, and again.                                *)
(***************************************************************************)
EXTENDS Naturals

CONSTANTS
  Browser,    \* the browsers, each with a cookie jar
  User,       \* the GitHub users
  MaxLogins   \* bound on the logins

ASSUME SignInAssumption ==
  /\ MaxLogins \in Nat \ {0}
  /\ "none" \notin Browser
  /\ User \intersect {"none", "denied"} = {}

VARIABLES
  stateCookie,  \* the login whose state each browser's cookie holds, or 0
  sidCookie,    \* the login whose session token each browser holds, or 0
  startedIn,    \* the browser each login was started in, or "none"
  grant,        \* what GitHub's user said: "none", "denied" or the user
  redeemed,     \* the logins whose code GitHub has exchanged
  call,         \* each login's callback in flight: its browser and its step
  row           \* each login's session row

vars == <<stateCookie, sidCookie, startedIn, grant, redeemed, call, row>>
cookies == <<stateCookie, sidCookie>>
github  == <<startedIn, grant, redeemed>>

Login     == 1..MaxLogins
CallStep  == {"exchange", "record", "reply", "refuse"}
NoCall    == [browser |-> "none", at |-> "none"]
RowState  == {"none", "live", "expired", "gone"}

TypeOK ==
  /\ stateCookie \in [Browser -> Login \union {0}]
  /\ sidCookie \in [Browser -> Login \union {0}]
  /\ startedIn \in [Login -> Browser \union {"none"}]
  /\ grant \in [Login -> User \union {"none", "denied"}]
  /\ redeemed \subseteq Login
  /\ call \in [Login -> {NoCall} \union [browser : Browser, at : CallStep]]
  /\ row \in [Login -> RowState]

Init ==
  /\ stateCookie = [b \in Browser |-> 0]
  /\ sidCookie = [b \in Browser |-> 0]
  /\ startedIn = [n \in Login |-> "none"]
  /\ grant = [n \in Login |-> "none"]
  /\ redeemed = {}
  /\ call = [n \in Login |-> NoCall]
  /\ row = [n \in Login |-> "none"]

-----------------------------------------------------------------------------
(* Authenticator.Login, and GitHub's page *)

\* A login overwrites the state of one that another tab has not finished.
StartsLogin(b, n) ==
  /\ startedIn[n] = "none" /\ \A k \in 1..(n - 1) : startedIn[k] # "none"
  /\ startedIn' = [startedIn EXCEPT ![n] = b]
  /\ stateCookie' = [stateCookie EXCEPT ![b] = n]
  /\ UNCHANGED <<sidCookie, grant, redeemed, call, row>>

StateExpires(b) ==
  /\ stateCookie[b] # 0
  /\ stateCookie' = [stateCookie EXCEPT ![b] = 0]
  /\ UNCHANGED <<sidCookie, github, call, row>>

Answers(n, answer) ==
  /\ startedIn[n] # "none" /\ grant[n] = "none"
  /\ grant' = [grant EXCEPT ![n] = answer]
  /\ UNCHANGED <<cookies, startedIn, redeemed, call, row>>

-----------------------------------------------------------------------------
(* Authenticator.Callback *)

CallGoes(n, from, to) ==
  /\ call[n].at = from
  /\ call' = [call EXCEPT ![n].at = to]

\* Mutant: any started login is taken for the browser's own.
StateMatches_Any(b, n) == stateCookie[b] # 0 /\ startedIn[n] # "none"

StateMatches(b, n) == stateCookie[b] = n

CallbackRejected(b, n) ==
  /\ grant[n] # "none" /\ call[n] = NoCall
  /\ ~StateMatches(b, n)
  /\ UNCHANGED vars

CallbackAccepted(b, n) ==
  /\ grant[n] # "none" /\ call[n] = NoCall
  /\ StateMatches(b, n)
  /\ call' = [call EXCEPT ![n] =
               [browser |-> b, at |-> IF grant[n] = "denied" THEN "refuse" ELSE "exchange"]]
  /\ UNCHANGED <<cookies, github, row>>

Exchanges(n) ==
  /\ n \notin redeemed
  /\ CallGoes(n, "exchange", "record")
  /\ redeemed' = redeemed \union {n}
  /\ UNCHANGED <<cookies, startedIn, grant, row>>

\* GitHub refuses a code it has seen, or it cannot be reached; the request can
\* also fail after GitHub has taken the code.
ExchangeFails(n) ==
  /\ CallGoes(n, "exchange", "refuse")
  /\ redeemed' \in {redeemed, redeemed \union {n}}
  /\ UNCHANGED <<cookies, startedIn, grant, row>>

\* The Owner is upserted and the session inserted.
Records(n) ==
  /\ CallGoes(n, "record", "reply")
  /\ row' = [row EXCEPT ![n] = "live"]
  /\ UNCHANGED <<cookies, github>>

\* The database fails, perhaps after the insert has been committed.
RecordFails(n) ==
  /\ CallGoes(n, "record", "refuse")
  /\ row' \in {row, [row EXCEPT ![n] = "live"]}
  /\ UNCHANGED <<cookies, github>>

\* The reply clears the state cookie, also a newer login's, and sets the token
\* when the sign-in succeeded.
Replies(n) ==
  LET b == call[n].browser IN
  /\ call[n].at \in {"reply", "refuse"}
  /\ call' = [call EXCEPT ![n] = NoCall]
  /\ stateCookie' = [stateCookie EXCEPT ![b] = 0]
  /\ sidCookie' = IF call[n].at = "reply" THEN [sidCookie EXCEPT ![b] = n] ELSE sidCookie
  /\ UNCHANGED <<github, row>>

ReplyLost(n) ==
  /\ call[n] # NoCall
  /\ call[n].at \in {"reply", "refuse"}
  /\ call' = [call EXCEPT ![n] = NoCall]
  /\ UNCHANGED <<cookies, github, row>>

-----------------------------------------------------------------------------
(* The sessions themselves *)

\* Logout drops the error of the delete: the row then stays until it expires.
Logout(b) ==
  /\ row' \in {row} \union
       (IF sidCookie[b] = 0 THEN {} ELSE {[row EXCEPT ![sidCookie[b]] = "gone"]})
  /\ sidCookie' \in {sidCookie, [sidCookie EXCEPT ![b] = 0]}
  /\ UNCHANGED <<stateCookie, github, call>>

Expires(n) ==
  /\ row[n] = "live"
  /\ row' = [row EXCEPT ![n] = "expired"]
  /\ UNCHANGED <<cookies, github, call>>

\* Mutant: the comparison of the prune is turned round.
Prune_Live ==
  /\ \E n \in Login : row[n] = "live"
  /\ row' = [n \in Login |-> IF row[n] = "live" THEN "gone" ELSE row[n]]
  /\ UNCHANGED <<cookies, github, call>>

Prune ==
  /\ \E n \in Login : row[n] = "expired"
  /\ row' = [n \in Login |-> IF row[n] = "expired" THEN "gone" ELSE row[n]]
  /\ UNCHANGED <<cookies, github, call>>

Next ==
  \/ \E b \in Browser, n \in Login :
       StartsLogin(b, n) \/ CallbackRejected(b, n) \/ CallbackAccepted(b, n)
  \/ \E b \in Browser : StateExpires(b) \/ Logout(b)
  \/ \E n \in Login, answer \in User \union {"denied"} : Answers(n, answer)
  \/ \E n \in Login :
       \/ Exchanges(n) \/ ExchangeFails(n) \/ Records(n) \/ RecordFails(n)
       \/ Replies(n) \/ ReplyLost(n) \/ Expires(n)
  \/ Prune

Spec == Init /\ [][Next]_vars

-----------------------------------------------------------------------------
(* Properties *)

\* Callback's state check: a browser is only ever signed in by a login that
\* was started in it and that GitHub's user approved there, however tabs,
\* repeated callbacks and lost replies interleave.
SignInStaysInItsBrowser ==
  \A b \in Browser :
    sidCookie[b] # 0 => startedIn[sidCookie[b]] = b /\ grant[sidCookie[b]] \in User

\* A session ends by its own browser's logout or by its expiry, never by
\* another session's logout or by the prune, and it never comes back.
SessionsEndByLogoutOrTime ==
  [][\A n \in Login :
       /\ row[n] = "live" /\ row'[n] = "gone" => sidCookie[startedIn[n]] = n
       /\ row[n] \in {"expired", "gone"} => row'[n] # "live"]_vars
=============================================================================
