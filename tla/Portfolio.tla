------------------------------ MODULE Portfolio ------------------------------
(***************************************************************************)
(* What the public sees: usernames (auth.ClaimUsername), the Owners'       *)
(* Projects and their slugs (project.Handlers over the projects table),    *)
(* and the Guests who follow /{username} and /{username}/{slug} and play   *)
(* by id, while Owners claim, create, rename, publish and edit.            *)
(*                                                                         *)
(* Abstractions.  Usernames and slugs are canonical and allowed ones; the  *)
(* statements are atomic, with the table's UNIQUE constraints.  Names are  *)
(* constrained per Owner as slugs are and lead nowhere, so a taken name is *)
(* a refusal.  How a draft becomes published is the module Projects.       *)
(***************************************************************************)
EXTENDS Naturals, FiniteSets

CONSTANTS
  Owner,      \* the signed-in Owners
  Username,  \* the usernames they ask for
  Project,   \* the ids that creations may mint
  Slug,      \* the slugs they ask for
  Claim,     \* the claim requests that can be in flight
  Guest      \* the visitors

ASSUME PortfolioAssumption ==
  /\ "none" \notin Owner \union Username \union Project \union Slug
  /\ "fixture" \notin Project   \* fixtureProjectID is not a uuid

VARIABLES
  username,  \* owners.username: the username of each Owner, or "none"
  claim,     \* each claim in flight: the Owner that RequireOwner loaded
  project,   \* projects: owner, slug and published of each row
  guest      \* each Guest's page and what it leads to

portfolioVars == <<username, claim, project, guest>>

NoProject == [owner |-> "none", slug |-> "none", published |-> FALSE]
NoClaim   == [owner |-> "none", had |-> "none"]

\* A Guest is away, reads the listing of a username's Projects, has chosen a
\* Project, or has the booting, playing or failed Session a play of it gave.
Away == [page |-> "away", of |-> "none", chose |-> "none", edited |-> FALSE, runs |-> "none"]

PortfolioInit ==
  /\ username = [u \in Owner |-> "none"]
  /\ claim = [c \in Claim |-> NoClaim]
  /\ project = [p \in Project |-> NoProject]
  /\ guest = [g \in Guest |-> Away]

-----------------------------------------------------------------------------
(* auth.ClaimUsername behind RequireOwner *)

\* currentOwner: the row as it is when the request arrives.
ClaimArrives(c, u) ==
  /\ claim[c] = NoClaim
  /\ claim' = [claim EXCEPT ![c] = [owner |-> u, had |-> username[u]]]
  /\ UNCHANGED <<username, project, guest>>

Answered(c) == claim' = [claim EXCEPT ![c] = NoClaim] /\ UNCHANGED <<project, guest>>

\* Already set, a bad body, an invalid or reserved username.
ClaimRefused(c) ==
  /\ claim[c] # NoClaim
  /\ Answered(c)
  /\ UNCHANGED username

\* Mutant: the column has lost its UNIQUE constraint.
UsernameFree_Unchecked(u, n) == TRUE

UsernameFree(u, n) == \A v \in Owner \ {u} : username[v] # n

UsernameTaken(c, n) ==
  /\ claim[c] # NoClaim /\ claim[c].had = "none"
  /\ ~UsernameFree(claim[c].owner, n)
  /\ Answered(c)
  /\ UNCHANGED username

\* The UPDATE is unconditional: what the Owner had is what the request loaded.
SetUsername(c, n) ==
  LET u == claim[c].owner IN
  /\ claim[c] # NoClaim /\ claim[c].had = "none"
  /\ UsernameFree(u, n)
  /\ username' = [username EXCEPT ![u] = n]
  /\ Answered(c)

-----------------------------------------------------------------------------
(* project.Handlers: the rows *)

CreateProject(u, p) ==
  /\ project[p] = NoProject
  /\ project' = [project EXCEPT ![p] = [owner |-> u, slug |-> "none", published |-> FALSE]]
  /\ UNCHANGED <<username, claim, guest>>

SlugFree(p, s) ==
  \A q \in Project \ {p} : project[q].owner = project[p].owner => project[q].slug # s

\* Every statement is scoped to the Owner: another Owner's id is not found.
NotTheirs(u, p) == project[p].owner # u /\ UNCHANGED portfolioVars

SlugTaken(u, p, s) == project[p].owner = u /\ ~SlugFree(p, s) /\ UNCHANGED portfolioVars

SetProjectSlug(u, p, s) ==
  /\ project[p].owner = u
  /\ s = "none" \/ SlugFree(p, s)
  /\ project' = [project EXCEPT ![p].slug = s]
  /\ UNCHANGED <<username, claim, guest>>

PublishProject(u, p) ==
  /\ project[p].owner = u
  /\ project' = [project EXCEPT ![p].published = TRUE]
  /\ UNCHANGED <<username, claim, guest>>

\* An edit of the manifest returns the Project to draft, keeping its slug; the
\* Guests that have it before them are noted.
UpdateProject(u, p) ==
  /\ project[p].owner = u
  /\ project' = [project EXCEPT ![p].published = FALSE]
  /\ guest' = [g \in Guest |-> [guest[g] EXCEPT
                 !.edited = @ \/ (guest[g].page \in {"chosen", "booting"} /\ guest[g].chose = p)]]
  /\ UNCHANGED <<username, claim>>

-----------------------------------------------------------------------------
(* The public reads, and the play *)

Held(n) == \E u \in Owner : username[u] = n
Listed(n) == {p \in Project : project[p].published /\ username[project[p].owner] = n}

\* GetPublishedProjectBySlug
Resolved(n, s) == {p \in Listed(n) : project[p].slug = s}

GuestGoes(g, state) ==
  /\ guest' = [guest EXCEPT ![g] = state]
  /\ UNCHANGED <<username, claim, project>>

\* Portfolio reads the Owner, and then the Owner's published Projects by the
\* username again; an unknown username is 404.
OpensPortfolio(g, n) ==
  /\ guest[g].page = "away"
  /\ Held(n)
  /\ GuestGoes(g, [Away EXCEPT !.page = "listing", !.of = n])

ChoosesListed(g, p) ==
  /\ guest[g].page = "listing"
  /\ p \in Listed(guest[g].of)
  /\ GuestGoes(g, [guest[g] EXCEPT !.page = "chosen", !.chose = p])

OpensLink(g, n, s) ==
  /\ guest[g].page = "away"
  /\ \E p \in Resolved(n, s) :
       GuestGoes(g, [Away EXCEPT !.page = "chosen", !.of = n, !.chose = p])

Leaves(g) == guest[g].page # "away" /\ GuestGoes(g, Away)

\* POST /api/play with the id; the booting page is shown at once.
Plays(g) ==
  /\ guest[g].page = "chosen"
  /\ GuestGoes(g, [guest[g] EXCEPT !.page = "booting"])

\* Mutant: the fixture's build spec is made for every id.
Buildable_Fixture(p, found) == TRUE

\* main's specFunc: the fixture's manifest builds under the fixture's own id
\* only; under an Owner's id its repository cannot be parsed.
Buildable(p, found) == found # "fixture"

\* FallbackSource: a published Project, or else the demo fixture.
Found(p) == IF project[p].published THEN p ELSE "fixture"

\* The boot resolves the Project by its id, whatever its slug is by now.
BootResolves(g) ==
  LET p == guest[g].chose
      found == Found(p)
  IN /\ guest[g].page = "booting"
     /\ GuestGoes(g, IF Buildable(p, found)
                     THEN [guest[g] EXCEPT !.page = "plays", !.runs = found]
                     ELSE [guest[g] EXCEPT !.page = "failed"])

PortfolioNext ==
  \/ \E c \in Claim, u \in Owner : ClaimArrives(c, u)
  \/ \E c \in Claim : ClaimRefused(c)
  \/ \E c \in Claim, n \in Username : UsernameTaken(c, n) \/ SetUsername(c, n)
  \/ \E u \in Owner, p \in Project :
       CreateProject(u, p) \/ NotTheirs(u, p) \/ PublishProject(u, p) \/ UpdateProject(u, p)
  \/ \E u \in Owner, p \in Project, s \in Slug : SlugTaken(u, p, s)
  \/ \E u \in Owner, p \in Project, s \in Slug \union {"none"} : SetProjectSlug(u, p, s)
  \/ \E g \in Guest, n \in Username : OpensPortfolio(g, n)
  \/ \E g \in Guest, n \in Username, s \in Slug : OpensLink(g, n, s)
  \/ \E g \in Guest, p \in Project : ChoosesListed(g, p)
  \/ \E g \in Guest : Plays(g) \/ BootResolves(g) \/ Leaves(g)

PortfolioSpec == PortfolioInit /\ [][PortfolioNext]_portfolioVars

-----------------------------------------------------------------------------
(* Properties *)

\* A link /{username}/{slug} names at most one Project, published or not: it
\* takes both UNIQUE constraints, whatever claims and renames race.
LinksAreUnambiguous ==
  \A p, q \in Project :
    /\ project[p].slug # "none" /\ project[p].slug = project[q].slug
    /\ username[project[p].owner] # "none"
    /\ username[project[p].owner] = username[project[q].owner]
    => p = q

\* The fallback to the demo fixture is for the demo only: who plays an Owner's
\* Project gets that Project, and gets the failure page only when the Project
\* was edited between the page and the boot.
GuestsPlayWhatTheyChose ==
  \A g \in Guest : /\ guest[g].page = "plays" => guest[g].runs = guest[g].chose
                   /\ guest[g].page = "failed" => guest[g].edited

\* username.go: "Set-once for the MVP", since a change would break the links
\* and free the old username for somebody else.
UsernameSetOnce ==
  [][\A u \in Owner : username[u] # "none" => username'[u] = username[u]]_username
=============================================================================
