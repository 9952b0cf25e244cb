---------------------------- MODULE OwnersProofs ----------------------------
(* What TLAPS proves about the Owners: how they sign in (SignIn), and what   *)
(* the public sees of them and plays (Portfolio), for any browsers, users,   *)
(* logins, Projects and Guests.                                              *)
EXTENDS SignIn, Portfolio, TLAPS

-----------------------------------------------------------------------------
(* SignIn *)

\* A browser's state cookie names a login that was started in it.
CookieInv ==
  \A b \in Browser : stateCookie[b] # 0 => startedIn[stateCookie[b]] = b

\* A callback in flight runs in the browser its login was started in, and goes
\* on to a sign-in only when GitHub's user approved.
CallInv ==
  \A n \in Login : call[n] # NoCall =>
    /\ call[n].browser \in Browser /\ startedIn[n] = call[n].browser
    /\ call[n].at # "refuse" => grant[n] \in User

\* GitHub redeems a code once, so that a login inserts at most one row.
RowInv ==
  \A n \in Login : /\ n \notin redeemed => row[n] = "none"
                   /\ call[n].at = "record" => n \in redeemed /\ row[n] = "none"
                   /\ call[n].at = "reply" => n \in redeemed

\* A token that a browser holds belongs to a login that is past its insert.
TokenInv ==
  \A b \in Browser : sidCookie[b] # 0 =>
    sidCookie[b] \in redeemed /\ call[sidCookie[b]].at # "record"

Inv == TypeOK /\ CookieInv /\ CallInv /\ RowInv /\ TokenInv /\ SignInStaysInItsBrowser

LEMMA InitInv == Init => Inv
  BY SignInAssumption
  DEF Init, Inv, TypeOK, CookieInv, CallInv, RowInv, TokenInv, SignInStaysInItsBrowser,
      Login, NoCall, RowState

LEMMA LoginInv ==
  ASSUME Inv, NEW b \in Browser, NEW n \in Login, StartsLogin(b, n) \/ StateExpires(b)
  PROVE  Inv'
<1> USE SignInAssumption DEF Inv, github
<1>0. \A k \in Login : k \in Nat \ {0}
  BY DEF Login
<1>1. CASE StartsLogin(b, n)
  <2>1. /\ startedIn[n] = "none"
        /\ startedIn' = [startedIn EXCEPT ![n] = b]
        /\ stateCookie' = [stateCookie EXCEPT ![b] = n]
        /\ UNCHANGED <<sidCookie, grant, redeemed, call, row>>
    BY <1>1 DEF StartsLogin
  <2>2. TypeOK' /\ RowInv'
    BY <2>1 DEF TypeOK, RowInv
  <2>3. CookieInv'
    BY <2>1, <1>0 DEF TypeOK, CookieInv
  <2>4. CallInv'
    BY <2>1 DEF TypeOK, CallInv
  <2>5. SignInStaysInItsBrowser' /\ TokenInv'
    BY <2>1, <1>0 DEF TypeOK, SignInStaysInItsBrowser, TokenInv
  <2> QED
    BY <2>2, <2>3, <2>4, <2>5
<1>2. CASE StateExpires(b)
  BY <1>2 DEF StateExpires, TypeOK, CookieInv, CallInv, RowInv, TokenInv,
              SignInStaysInItsBrowser
<1> QED
  BY <1>1, <1>2

LEMMA GitHubInv ==
  ASSUME Inv, NEW n \in Login, NEW answer \in User \union {"denied"}, Answers(n, answer)
  PROVE  Inv'
<1> USE SignInAssumption DEF Inv, cookies
<1>1. TypeOK' /\ CookieInv' /\ RowInv' /\ TokenInv'
  BY DEF Answers, TypeOK, CookieInv, RowInv, TokenInv
<1>2. CallInv' /\ SignInStaysInItsBrowser'
  BY DEF Answers, TypeOK, CallInv, SignInStaysInItsBrowser, NoCall
<1> QED
  BY <1>1, <1>2

LEMMA AcceptInv ==
  ASSUME Inv, NEW b \in Browser, NEW n \in Login, CallbackAccepted(b, n)
  PROVE  Inv'
<1> USE SignInAssumption DEF Inv, cookies, github
<1> DEFINE step == IF grant[n] = "denied" THEN "refuse" ELSE "exchange"
<1>1. /\ grant[n] # "none" /\ stateCookie[b] = n
      /\ call' = [call EXCEPT ![n] = [browser |-> b, at |-> step]]
      /\ UNCHANGED <<stateCookie, sidCookie, startedIn, grant, redeemed, row>>
  BY DEF CallbackAccepted, StateMatches
<1>2. startedIn[n] = b
  BY <1>1 DEF CookieInv, Login
<1>3. step # "refuse" => grant[n] \in User
  BY <1>1 DEF TypeOK
<1>4. TypeOK' /\ CookieInv' /\ SignInStaysInItsBrowser'
  BY <1>1 DEF TypeOK, CallStep, CookieInv, SignInStaysInItsBrowser
<1>5. CallInv'
  BY <1>1, <1>2, <1>3 DEF TypeOK, CallInv
<1>6. RowInv' /\ TokenInv'
  BY <1>1 DEF TypeOK, RowInv, TokenInv
<1> QED
  BY <1>4, <1>5, <1>6

\* The steps between the state check and the reply.
LEMMA CallbackInv ==
  ASSUME Inv, NEW n \in Login,
         Exchanges(n) \/ ExchangeFails(n) \/ Records(n) \/ RecordFails(n)
  PROVE  Inv'
<1> USE SignInAssumption DEF Inv, cookies, github, CallGoes
<1>1. PICK to \in {"record", "reply", "refuse"} :
        call[n] # NoCall /\ call[n].at # "refuse" /\ call' = [call EXCEPT ![n].at = to]
  BY DEF Exchanges, ExchangeFails, Records, RecordFails, NoCall
<1>2. UNCHANGED <<stateCookie, sidCookie, startedIn, grant>>
  BY DEF Exchanges, ExchangeFails, Records, RecordFails
<1>3. TypeOK'
  <2>1. call[n] \in [browser : Browser, at : CallStep]
    BY <1>1 DEF TypeOK
  <2>2. call' \in [Login -> {NoCall} \union [browser : Browser, at : CallStep]]
    BY <1>1, <2>1 DEF TypeOK, CallStep
  <2>3. redeemed' \subseteq Login /\ row' \in [Login -> RowState]
    BY DEF Exchanges, ExchangeFails, Records, RecordFails, TypeOK, RowState
  <2> QED
    BY <1>2, <2>2, <2>3 DEF TypeOK
<1>4. CookieInv' /\ SignInStaysInItsBrowser'
  BY <1>2 DEF CookieInv, SignInStaysInItsBrowser
<1>5. CallInv'
  BY <1>1, <1>2 DEF TypeOK, CallInv, NoCall
<1>6. RowInv' /\ TokenInv'
  <2>1. CASE Exchanges(n)
    BY <2>1 DEF Exchanges, TypeOK, RowInv, TokenInv
  <2>2. CASE ExchangeFails(n)
    BY <2>2 DEF ExchangeFails, TypeOK, RowInv, TokenInv
  <2>3. CASE Records(n)
    BY <2>3 DEF Records, TypeOK, RowInv, TokenInv
  <2>4. CASE RecordFails(n)
    BY <2>4 DEF RecordFails, TypeOK, RowInv, TokenInv
  <2> QED
    BY <2>1, <2>2, <2>3, <2>4
<1> QED
  BY <1>3, <1>4, <1>5, <1>6

LEMMA ReplyInv ==
  ASSUME Inv, NEW n \in Login, Replies(n) \/ ReplyLost(n)
  PROVE  Inv'
<1> USE SignInAssumption DEF Inv, cookies, github
<1>1. CASE Replies(n)
  <2> DEFINE b == call[n].browser
  <2>1. /\ call[n].at \in {"reply", "refuse"}
        /\ call' = [call EXCEPT ![n] = NoCall]
        /\ stateCookie' = [stateCookie EXCEPT ![b] = 0]
        /\ sidCookie' = IF call[n].at = "reply" THEN [sidCookie EXCEPT ![b] = n] ELSE sidCookie
        /\ UNCHANGED <<startedIn, grant, redeemed, row>>
    BY <1>1 DEF Replies
  <2>2. b \in Browser /\ startedIn[n] = b /\ (call[n].at = "reply" => grant[n] \in User)
    BY <2>1 DEF CallInv, NoCall
  <2>3. TypeOK' /\ CookieInv'
    BY <2>1, <2>2 DEF TypeOK, CookieInv
  <2>4. CallInv' /\ RowInv' /\ TokenInv'
    BY <2>1, <2>2 DEF TypeOK, CallInv, RowInv, TokenInv, NoCall
  <2>5. SignInStaysInItsBrowser'
    BY <2>1, <2>2 DEF TypeOK, SignInStaysInItsBrowser
  <2> QED
    BY <2>3, <2>4, <2>5
<1>2. CASE ReplyLost(n)
  BY <1>2 DEF ReplyLost, TypeOK, CookieInv, CallInv, RowInv, TokenInv,
              SignInStaysInItsBrowser, NoCall
<1> QED
  BY <1>1, <1>2

LEMMA RowsInv ==
  ASSUME Inv, (\E b \in Browser : Logout(b)) \/ (\E n \in Login : Expires(n)) \/ Prune
  PROVE  Inv'
<1> USE SignInAssumption DEF Inv, cookies, github
<1>1. ASSUME NEW b \in Browser, Logout(b) PROVE Inv'
  <2>1. /\ row' = row \/ (sidCookie[b] # 0 /\ row' = [row EXCEPT ![sidCookie[b]] = "gone"])
        /\ sidCookie' \in {sidCookie, [sidCookie EXCEPT ![b] = 0]}
        /\ UNCHANGED <<stateCookie, startedIn, grant, redeemed, call>>
    BY <1>1 DEF Logout
  <2>2. sidCookie[b] # 0 => sidCookie[b] \in Login
    BY DEF TypeOK
  <2>3. TypeOK' /\ CookieInv' /\ CallInv' /\ SignInStaysInItsBrowser'
    BY <2>1, <2>2 DEF TypeOK, RowState, CookieInv, CallInv, SignInStaysInItsBrowser
  <2>4. RowInv' /\ TokenInv'
    BY <2>1, <2>2 DEF TypeOK, RowInv, TokenInv
  <2> QED
    BY <2>3, <2>4
<1>2. ASSUME NEW n \in Login, Expires(n) PROVE Inv'
  BY <1>2 DEF Expires, TypeOK, RowState, CookieInv, CallInv, RowInv, TokenInv,
              SignInStaysInItsBrowser
<1>3. CASE Prune
  BY <1>3 DEF Prune, TypeOK, RowState, CookieInv, CallInv, RowInv, TokenInv,
              SignInStaysInItsBrowser
<1> QED
  BY <1>1, <1>2, <1>3

LEMMA Inductive == Inv /\ [Next]_vars => Inv'
<1> SUFFICES ASSUME Inv, [Next]_vars PROVE Inv'
  OBVIOUS
<1>1. CASE \E b \in Browser, n \in Login :
             StartsLogin(b, n) \/ CallbackRejected(b, n) \/ CallbackAccepted(b, n)
  <2>1. PICK b \in Browser, n \in Login :
          StartsLogin(b, n) \/ CallbackRejected(b, n) \/ CallbackAccepted(b, n)
    BY <1>1
  <2>2. CASE CallbackRejected(b, n)
    BY <2>2 DEF CallbackRejected, vars, Inv, TypeOK, CookieInv, CallInv, RowInv, TokenInv,
                SignInStaysInItsBrowser
  <2> QED
    BY <2>1, <2>2, LoginInv, AcceptInv
<1>2. CASE \E b \in Browser : StateExpires(b) \/ Logout(b)
  <2>1. PICK b \in Browser : StateExpires(b) \/ Logout(b)
    BY <1>2
  <2>2. CASE Logout(b)
    BY <2>2, RowsInv
  <2>3. CASE StateExpires(b)
    <3>1. 1 \in Login
      BY SignInAssumption DEF Login
    <3> QED
      BY <2>3, <3>1, LoginInv
  <2> QED
    BY <2>1, <2>2, <2>3
<1>3. CASE \E n \in Login, answer \in User \union {"denied"} : Answers(n, answer)
  BY <1>3, GitHubInv
<1>4. CASE \E n \in Login :
             \/ Exchanges(n) \/ ExchangeFails(n) \/ Records(n) \/ RecordFails(n)
             \/ Replies(n) \/ ReplyLost(n) \/ Expires(n)
  <2>1. PICK n \in Login :
             \/ Exchanges(n) \/ ExchangeFails(n) \/ Records(n) \/ RecordFails(n)
             \/ Replies(n) \/ ReplyLost(n) \/ Expires(n)
    BY <1>4
  <2>2. CASE Expires(n)
    BY <2>2, RowsInv
  <2> QED
    BY <2>1, <2>2, CallbackInv, ReplyInv
<1>5. CASE Prune
  BY <1>5, RowsInv
<1>6. CASE UNCHANGED vars
  BY <1>6 DEF vars, Inv, TypeOK, CookieInv, CallInv, RowInv, TokenInv, SignInStaysInItsBrowser
<1> QED
  BY <1>1, <1>2, <1>3, <1>4, <1>5, <1>6 DEF Next

\* The rows, cookies and calls keep their types in every interleaving.
THEOREM TypeCorrect == Spec => []TypeOK
<1>1. Inv => TypeOK
  BY DEF Inv
<1> QED
  BY InitInv, Inductive, <1>1, PTL DEF Spec

\* Callback's state check: no browser is signed in by a login that was started
\* in another one, or that nobody approved.
THEOREM SignInIsItsOwn == Spec => []SignInStaysInItsBrowser
<1>1. Inv => SignInStaysInItsBrowser
  BY DEF Inv
<1> QED
  BY InitInv, Inductive, <1>1, PTL DEF Spec

\* What a step may do to a session's row.
RowStep ==
  \A n \in Login :
    /\ row[n] = "live" /\ row'[n] = "gone" => sidCookie[startedIn[n]] = n
    /\ row[n] \in {"expired", "gone"} => row'[n] # "live"

LEMMA RowsStep == Inv /\ [Next]_vars => RowStep \/ UNCHANGED vars
<1> SUFFICES ASSUME Inv, Next PROVE RowStep
  OBVIOUS
<1> USE SignInAssumption DEF Inv, cookies, github
<1>1. CASE UNCHANGED row
  BY <1>1 DEF RowStep
<1>2. ASSUME NEW n \in Login, Records(n) \/ RecordFails(n) PROVE RowStep
  <2>1. row[n] = "none" /\ row' \in {row, [row EXCEPT ![n] = "live"]}
    BY <1>2 DEF Records, RecordFails, CallGoes, RowInv
  <2> QED
    BY <2>1 DEF RowStep, TypeOK
<1>3. ASSUME NEW b \in Browser, Logout(b) PROVE RowStep
  <2>1. row' = row \/ (sidCookie[b] # 0 /\ row' = [row EXCEPT ![sidCookie[b]] = "gone"])
    BY <1>3 DEF Logout
  <2>2. sidCookie[b] # 0 => sidCookie[b] \in Login /\ startedIn[sidCookie[b]] = b
    BY DEF TypeOK, SignInStaysInItsBrowser
  <2> QED
    BY <2>1, <2>2 DEF RowStep, TypeOK
<1>4. ASSUME NEW n \in Login, Expires(n) PROVE RowStep
  BY <1>4 DEF Expires, RowStep, TypeOK
<1>5. CASE Prune
  BY <1>5 DEF Prune, RowStep, TypeOK
<1> QED
  BY <1>1, <1>2, <1>3, <1>4, <1>5
  DEF Next, StartsLogin, CallbackRejected, CallbackAccepted, StateExpires, Answers,
      Exchanges, ExchangeFails, Replies, ReplyLost, vars

\* Sessions are independent: only a browser's own logout, or time, ends one, and
\* nothing that a repeated callback inserts revives it.
THEOREM SessionsAreIndependent == Spec => SessionsEndByLogoutOrTime
<1>1. Inv /\ [Next]_vars => [RowStep]_vars
  BY RowsStep
<1> QED
  BY InitInv, Inductive, <1>1, PTL DEF Spec, SessionsEndByLogoutOrTime, RowStep

-----------------------------------------------------------------------------
(* Portfolio *)

Pages == {"away", "listing", "chosen", "booting", "plays", "failed"}

Rows == [owner : Owner \union {"none"}, slug : Slug \union {"none"}, published : BOOLEAN]

Guests == [page : Pages, of : Username \union {"none"}, chose : Project \union {"none"},
           edited : BOOLEAN, runs : Project \union {"none", "fixture"}]

PortfolioTypeOK ==
  /\ username \in [Owner -> Username \union {"none"}]
  /\ claim \in [Claim -> {NoClaim} \union [owner : Owner, had : Username \union {"none"}]]
  /\ project \in [Project -> Rows]
  /\ guest \in [Guest -> Guests]

\* The two UNIQUE constraints, and a slug only where there is a row.
UniqueInv ==
  /\ \A u, v \in Owner : username[u] # "none" /\ username[u] = username[v] => u = v
  /\ \A p, q \in Project :
       project[p].slug # "none" /\ project[p].slug = project[q].slug
         /\ project[p].owner = project[q].owner => p = q
  /\ \A p \in Project : /\ project[p].slug # "none" => project[p].owner # "none"
                        /\ project[p].published => project[p].owner # "none"

\* A Project that a Guest has before them is published until it is edited.
ChosenInv ==
  \A g \in Guest : guest[g].page \in {"chosen", "booting"} =>
    guest[g].chose \in Project /\ (~guest[g].edited => project[guest[g].chose].published)

PortfolioInv == PortfolioTypeOK /\ UniqueInv /\ ChosenInv /\ GuestsPlayWhatTheyChose

LEMMA PortfolioInitInv == PortfolioInit => PortfolioInv
  BY PortfolioAssumption
  DEF PortfolioInit, PortfolioInv, PortfolioTypeOK, UniqueInv, ChosenInv, GuestsPlayWhatTheyChose, NoProject, NoClaim,
      Away, Pages, Rows, Guests

\* Overwriting a Boolean field keeps a record of its kind.
LEMMA RowFlag ==
  ASSUME NEW r \in Rows, NEW b \in BOOLEAN
  PROVE  [r EXCEPT !.published = b] \in Rows
  BY Zenon DEF Rows

LEMMA GuestFlag ==
  ASSUME NEW r \in Guests, NEW b \in BOOLEAN
  PROVE  [r EXCEPT !.edited = b] \in Guests
  BY Zenon DEF Guests

\* A claim takes a username that nobody else holds.
LEMMA ClaimInv ==
  ASSUME PortfolioInv, NEW c \in Claim, NEW u \in Owner, NEW n \in Username,
         ClaimArrives(c, u) \/ ClaimRefused(c) \/ UsernameTaken(c, n) \/ SetUsername(c, n)
  PROVE  PortfolioInv'
<1> USE PortfolioAssumption DEF PortfolioInv, Answered
<1>1. UNCHANGED <<project, guest>>
  BY DEF ClaimArrives, ClaimRefused, UsernameTaken, SetUsername
<1>2. ChosenInv' /\ GuestsPlayWhatTheyChose'
  BY <1>1 DEF ChosenInv, GuestsPlayWhatTheyChose
<1>3. CASE ClaimArrives(c, u) \/ ClaimRefused(c) \/ UsernameTaken(c, n)
  <2>1. PortfolioTypeOK'
    BY <1>1, <1>3 DEF ClaimArrives, ClaimRefused, UsernameTaken, PortfolioTypeOK
  <2>2. UniqueInv'
    BY <1>1, <1>3 DEF ClaimArrives, ClaimRefused, UsernameTaken, UniqueInv
  <2> QED
    BY <1>2, <2>1, <2>2
<1>4. CASE SetUsername(c, n)
  <2> DEFINE o == claim[c].owner
  <2>1. o \in Owner
    BY <1>4 DEF SetUsername, PortfolioTypeOK
  <2>2. username' = [username EXCEPT ![o] = n] /\ UsernameFree(o, n)
    BY <1>4 DEF SetUsername
  <2>3. PortfolioTypeOK'
    BY <1>1, <1>4, <2>1, <2>2 DEF SetUsername, PortfolioTypeOK
  <2>4. UniqueInv'
    BY <1>1, <2>1, <2>2 DEF UniqueInv, UsernameFree, PortfolioTypeOK
  <2> QED
    BY <1>2, <2>3, <2>4
<1> QED
  BY <1>3, <1>4

\* The Owner's statements on one row.
LEMMA ProjectInv ==
  ASSUME PortfolioInv, NEW u \in Owner, NEW p \in Project, NEW s \in Slug \union {"none"},
         \/ CreateProject(u, p) \/ SetProjectSlug(u, p, s)
         \/ PublishProject(u, p) \/ UpdateProject(u, p)
  PROVE  PortfolioInv'
<1> USE PortfolioAssumption DEF PortfolioInv
<1>1. CASE CreateProject(u, p)
  <2> DEFINE r == [owner |-> u, slug |-> "none", published |-> FALSE]
  <2>1. /\ project[p] = NoProject
        /\ project' = [project EXCEPT ![p] = r]
        /\ UNCHANGED <<username, claim, guest>>
    BY <1>1 DEF CreateProject
  <2>2. PortfolioTypeOK'
    <3>1. r \in Rows
      BY Zenon DEF Rows
    <3> QED
      BY <2>1, <3>1, Zenon DEF PortfolioTypeOK
  <2>3. UniqueInv'
    BY <2>1 DEF PortfolioTypeOK, UniqueInv
  <2>4. ChosenInv' /\ GuestsPlayWhatTheyChose'
    BY <2>1 DEF PortfolioTypeOK, ChosenInv, GuestsPlayWhatTheyChose, NoProject
  <2> QED
    BY <2>2, <2>3, <2>4
<1>2. CASE SetProjectSlug(u, p, s)
  <2>1. /\ project[p].owner = u
        /\ s = "none" \/ SlugFree(p, s)
        /\ project' = [project EXCEPT ![p].slug = s]
        /\ UNCHANGED <<username, claim, guest>>
    BY <1>2 DEF SetProjectSlug
  <2>2. PortfolioTypeOK'
    BY <2>1 DEF PortfolioTypeOK, Rows
  <2>3. UniqueInv'
    BY <2>1 DEF PortfolioTypeOK, Rows, UniqueInv, SlugFree
  <2>4. ChosenInv' /\ GuestsPlayWhatTheyChose'
    BY <2>1 DEF PortfolioTypeOK, Rows, ChosenInv, GuestsPlayWhatTheyChose
  <2> QED
    BY <2>2, <2>3, <2>4
<1>3. CASE PublishProject(u, p) \/ UpdateProject(u, p)
  <2> DEFINE noted(g) == guest[g].page \in {"chosen", "booting"} /\ guest[g].chose = p
             edit(g) == [guest[g] EXCEPT !.edited = @ \/ noted(g)]
  <2>1. PICK b \in BOOLEAN :
          /\ project' = [project EXCEPT ![p] = [project[p] EXCEPT !.published = b]]
          /\ b \/ guest' = [g \in Guest |-> edit(g)]
          /\ ~b \/ guest' = guest
    BY <1>3, Zenon DEF PublishProject, UpdateProject
  <2>2. project[p].owner = u /\ UNCHANGED <<username, claim>>
    BY <1>3 DEF PublishProject, UpdateProject
  <2>3. project \in [Project -> Rows] /\ guest \in [Guest -> Guests]
    BY DEF PortfolioTypeOK
  <2>4. [project[p] EXCEPT !.published = b] \in Rows
    BY <2>3, RowFlag
  <2>5. project' \in [Project -> Rows]
    BY <2>1, <2>3, <2>4, Zenon
  <2>6. /\ \A q \in Project : project'[q].owner = project[q].owner
                              /\ project'[q].slug = project[q].slug
        /\ \A q \in Project : q # p => project'[q] = project[q]
        /\ project'[p].published = b
    BY <2>1, <2>3, Zenon DEF Rows
  <2>7. \A g \in Guest : edit(g) \in Guests
    <3> SUFFICES ASSUME NEW g \in Guest PROVE edit(g) \in Guests
      OBVIOUS
    <3>1. guest[g] \in Guests
      BY <2>3
    <3>2. (guest[g].edited \/ noted(g)) \in BOOLEAN
      BY Zenon
    <3> QED
      BY <3>1, <3>2, GuestFlag
  <2>8. guest' \in [Guest -> Guests]
    BY <2>1, <2>3, <2>7, Zenon
  <2>9. \A g \in Guest : /\ guest'[g].page = guest[g].page
                         /\ guest'[g].chose = guest[g].chose
                         /\ guest'[g].runs = guest[g].runs
                         /\ guest[g].edited => guest'[g].edited
                         /\ ~b /\ noted(g) => guest'[g].edited
    <3>1. CASE guest' = guest /\ b
      BY <3>1
    <3>2. CASE guest' = [g \in Guest |-> edit(g)]
      <4> SUFFICES ASSUME NEW g \in Guest
                   PROVE  /\ guest'[g].page = guest[g].page
                          /\ guest'[g].chose = guest[g].chose
                          /\ guest'[g].runs = guest[g].runs
                          /\ guest[g].edited => guest'[g].edited
                          /\ ~b /\ noted(g) => guest'[g].edited
        OBVIOUS
      <4>1. guest'[g] = edit(g) /\ guest[g] \in Guests
        BY <2>3, <3>2, Zenon
      <4> QED
        BY <4>1, Zenon DEF Guests
    <3> QED
      BY <2>1, <3>1, <3>2
  <2>10. PortfolioTypeOK'
    BY <2>2, <2>5, <2>8, Zenon DEF PortfolioTypeOK
  <2>11. UniqueInv'
    <3>1. \A q \in Project : project'[q].published =>
                              q = p \/ project[q].published
      BY <2>6
    <3>2. project[p].owner # "none"
      BY <2>2, PortfolioAssumption
    <3> QED
      BY <2>2, <2>6, <3>1, <3>2 DEF UniqueInv
  <2>12. ChosenInv'
    <3> SUFFICES ASSUME NEW g \in Guest, guest[g].page \in {"chosen", "booting"}
                 PROVE  /\ guest[g].chose \in Project
                        /\ guest'[g].edited \/ project'[guest[g].chose].published
      BY <2>9 DEF ChosenInv
    <3>1. guest[g].chose \in Project /\ (~guest[g].edited => project[guest[g].chose].published)
      BY DEF ChosenInv
    <3>2. CASE guest[g].chose = p
      BY <2>6, <2>9, <3>1, <3>2
    <3>3. CASE guest[g].chose # p
      BY <2>6, <2>9, <3>1, <3>3
    <3> QED
      BY <3>1, <3>2, <3>3
  <2>13. GuestsPlayWhatTheyChose'
    BY <2>9 DEF GuestsPlayWhatTheyChose
  <2> QED
    BY <2>10, <2>11, <2>12, <2>13
<1> QED
  BY <1>1, <1>2, <1>3

\* What a Guest does changes nothing but their page.
LEMMA GuestInv ==
  ASSUME PortfolioInv, NEW g \in Guest,
         \/ \E n \in Username : OpensPortfolio(g, n)
         \/ \E n \in Username, s \in Slug : OpensLink(g, n, s)
         \/ \E p \in Project : ChoosesListed(g, p)
         \/ Plays(g) \/ BootResolves(g) \/ Leaves(g)
  PROVE  PortfolioInv'
<1> USE PortfolioAssumption DEF PortfolioInv, GuestGoes
<1>1. UNCHANGED <<username, claim, project>>
  BY DEF OpensPortfolio, OpensLink, ChoosesListed, Plays, BootResolves, Leaves
<1>2. UniqueInv'
  BY <1>1 DEF UniqueInv
<1> DEFINE Good(x) == /\ x \in Guests
                      /\ x.page \in {"chosen", "booting"} =>
                           x.chose \in Project /\ (~x.edited => project[x.chose].published)
                      /\ x.page = "plays" => x.runs = x.chose
                      /\ x.page = "failed" => x.edited
<1>3. ASSUME NEW x, Good(x), guest' = [guest EXCEPT ![g] = x]
      PROVE  PortfolioTypeOK' /\ ChosenInv' /\ GuestsPlayWhatTheyChose'
  BY <1>1, <1>3 DEF PortfolioTypeOK, ChosenInv, GuestsPlayWhatTheyChose
<1>4. Away \in Guests /\ Away.page = "away"
  BY DEF Away, Pages, Guests
<1>5. guest[g] \in Guests
  BY DEF PortfolioTypeOK
<1>6. ASSUME NEW n \in Username, OpensPortfolio(g, n) PROVE PortfolioInv'
  <2> DEFINE x == [Away EXCEPT !.page = "listing", !.of = n]
  <2>1. Good(x)
    BY DEF Away, Pages, Guests
  <2>2. guest' = [guest EXCEPT ![g] = x]
    BY <1>6 DEF OpensPortfolio
  <2> QED
    BY <1>2, <1>3, <2>1, <2>2
<1>7. ASSUME NEW p \in Project, ChoosesListed(g, p) PROVE PortfolioInv'
  <2> DEFINE x == [guest[g] EXCEPT !.page = "chosen", !.chose = p]
  <2>1. Good(x)
    BY <1>5, <1>7 DEF ChoosesListed, Listed, Pages, Guests
  <2> QED
    BY <1>2, <1>3, <1>7, <2>1 DEF ChoosesListed
<1>8. ASSUME NEW n \in Username, NEW s \in Slug, OpensLink(g, n, s) PROVE PortfolioInv'
  <2>1. PICK q \in Resolved(n, s) :
          guest' = [guest EXCEPT ![g] = [Away EXCEPT !.page = "chosen", !.of = n, !.chose = q]]
    BY <1>8 DEF OpensLink
  <2> DEFINE x == [Away EXCEPT !.page = "chosen", !.of = n, !.chose = q]
  <2>2. q \in Project /\ project[q].published
    BY DEF Resolved, Listed
  <2>3. Good(x)
    BY <1>4, <2>2 DEF Away, Pages, Guests
  <2> QED
    BY <1>2, <1>3, <2>1, <2>3
<1>9. CASE Plays(g)
  <2> DEFINE x == [guest[g] EXCEPT !.page = "booting"]
  <2>1. guest[g].page = "chosen" /\ guest' = [guest EXCEPT ![g] = x]
    BY <1>9 DEF Plays
  <2>2. Good(x)
    BY <1>5, <2>1 DEF ChosenInv, Pages, Guests
  <2> QED
    BY <1>2, <1>3, <2>1, <2>2
<1>10. CASE BootResolves(g)
  <2> DEFINE q == guest[g].chose
             played == [guest[g] EXCEPT !.page = "plays", !.runs = Found(q)]
             failed == [guest[g] EXCEPT !.page = "failed"]
  <2>1. /\ guest[g].page = "booting"
        /\ guest' = [guest EXCEPT ![g] = IF Buildable(q, Found(q)) THEN played ELSE failed]
    BY <1>10 DEF BootResolves
  <2>2. q \in Project /\ (~guest[g].edited => project[q].published)
    BY <2>1 DEF ChosenInv
  <2>3. CASE project[q].published
    <3>1. Found(q) = q /\ Buildable(q, Found(q))
      BY <2>2, <2>3 DEF Found, Buildable
    <3>2. Good(played)
      BY <1>5, <2>2, <3>1 DEF Pages, Guests
    <3> QED
      BY <1>2, <1>3, <2>1, <3>1, <3>2
  <2>4. CASE ~project[q].published
    <3>1. ~Buildable(q, Found(q))
      BY <2>4 DEF Found, Buildable
    <3>2. Good(failed)
      BY <1>5, <2>2, <2>4 DEF Pages, Guests
    <3> QED
      BY <1>2, <1>3, <2>1, <3>1, <3>2
  <2> QED
    BY <2>3, <2>4
<1>11. CASE Leaves(g)
  <2>1. Good(Away) /\ guest' = [guest EXCEPT ![g] = Away]
    BY <1>4, <1>11 DEF Leaves, Away
  <2> QED
    BY <1>2, <1>3, <2>1
<1> QED
  BY <1>6, <1>7, <1>8, <1>9, <1>10, <1>11

LEMMA PortfolioInductive == PortfolioInv /\ [PortfolioNext]_portfolioVars => PortfolioInv'
<1> SUFFICES ASSUME PortfolioInv, [PortfolioNext]_portfolioVars PROVE PortfolioInv'
  OBVIOUS
<1>1. CASE UNCHANGED portfolioVars
  BY <1>1 DEF portfolioVars, PortfolioInv, PortfolioTypeOK, UniqueInv, ChosenInv, GuestsPlayWhatTheyChose
<1>2. ASSUME NEW c \in Claim, ClaimRefused(c) \/ \E u \in Owner : ClaimArrives(c, u) PROVE PortfolioInv'
  BY <1>2 DEF PortfolioInv, ClaimRefused, ClaimArrives, Answered, PortfolioTypeOK, UniqueInv, ChosenInv,
              GuestsPlayWhatTheyChose
<1>3. ASSUME NEW c \in Claim, NEW n \in Username, UsernameTaken(c, n) \/ SetUsername(c, n)
      PROVE  PortfolioInv'
  <2>1. claim[c].owner \in Owner
    BY <1>3 DEF UsernameTaken, SetUsername, PortfolioInv, PortfolioTypeOK
  <2> QED
    BY <1>3, <2>1, ClaimInv
<1>4. ASSUME NEW u \in Owner, NEW p \in Project,
             CreateProject(u, p) \/ PublishProject(u, p) \/ UpdateProject(u, p)
      PROVE  PortfolioInv'
  BY <1>4, ProjectInv
<1>5. ASSUME NEW u \in Owner, NEW p \in Project, NEW s \in Slug \union {"none"},
             SetProjectSlug(u, p, s)
      PROVE  PortfolioInv'
  BY <1>5, ProjectInv
<1>6. ASSUME NEW u \in Owner, NEW p \in Project,
             NotTheirs(u, p) \/ \E s \in Slug : SlugTaken(u, p, s)
      PROVE  UNCHANGED portfolioVars
  BY <1>6 DEF NotTheirs, SlugTaken
<1>7. ASSUME NEW g \in Guest,
             \/ \E n \in Username : OpensPortfolio(g, n)
             \/ \E n \in Username, s \in Slug : OpensLink(g, n, s)
             \/ \E p \in Project : ChoosesListed(g, p)
             \/ Plays(g) \/ BootResolves(g) \/ Leaves(g)
      PROVE  PortfolioInv'
  BY <1>7, GuestInv
<1> QED
  BY <1>1, <1>2, <1>3, <1>4, <1>5, <1>6, <1>7 DEF PortfolioNext

\* /{username}/{slug} names one Project: the two UNIQUE constraints are enough,
\* however claims, renames, publishes and edits interleave.
THEOREM LinksNameOneProject == PortfolioSpec => []LinksAreUnambiguous
<1>1. PortfolioInv => LinksAreUnambiguous
  BY PortfolioAssumption DEF PortfolioInv, PortfolioTypeOK, Rows, UniqueInv, LinksAreUnambiguous
<1> QED
  BY PortfolioInitInv, PortfolioInductive, <1>1, PTL DEF PortfolioSpec

\* The fallback source answers an Owner's id with that Owner's Project or not at
\* all: nobody gets the fixture in the place of a Project.
THEOREM PlaysAreHonest == PortfolioSpec => []GuestsPlayWhatTheyChose
<1>1. PortfolioInv => GuestsPlayWhatTheyChose
  BY DEF PortfolioInv
<1> QED
  BY PortfolioInitInv, PortfolioInductive, <1>1, PTL DEF PortfolioSpec
=============================================================================
