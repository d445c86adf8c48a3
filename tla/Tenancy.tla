------------------------------ MODULE Tenancy ------------------------------
(***************************************************************************)
(* Who has an account, and whose books a browser works on.                 *)
(*                                                                         *)
(*   server/src/routes/{localAuth,auth,orgs,invites,account}.ts            *)
(*   server/src/auth/passport.ts            sign-in with an OAuth provider *)
(*   server/src/repos/impl/UserRepoImpl.ts  users, identities, the set-up  *)
(*   server/src/repos/impl/{Org,Business,Invite}RepoImpl.ts                *)
(*   server/src/middleware/{requireUser,requireOrgOwner}.ts                *)
(*   web/src/auth/AuthContext.tsx           the business a tab works on    *)
(*                                                                         *)
(* Every user has an organization of their own, whose id is the user's, a  *)
(* membership in it and at least one business in it, seeded with the       *)
(* default categories and rules.  A sign-up writes all of that in separate *)
(* statements, so a crash may leave any prefix.  A tab names the business  *)
(* it works on in the x-business-id header, which the server checks.       *)
(*                                                                         *)
(* One action is one SQL statement (or one db.transaction) with the code   *)
(* around it; the reads that resolve a request's user and business are     *)
(* merged into its first action.  As in Ledger, on SQLite a handler keeps  *)
(* the event loop between its statements; it lets others run while a       *)
(* password is hashed and while Stripe is called.                          *)
(***************************************************************************)
EXTENDS Integers, FiniteSets, FiniteSetsExt

CONSTANTS
  Backend,       \* "sqlite" or "pg"
  Scenarios,     \* sets of operations; the browsers keep to those of one set
  Tab,           \* browsers, each with its own session and localStorage
  Person,        \* people: one email, one username and one Google account each
  UserId,        \* ids crypto.randomUUID() may give; bounds the users ever made
  MaxBusiness,   \* bounds the businesses ever made
  Invite,        \* bounds the invites ever made
  MaxCrashes,    \* bounds the crashes of the server process
  None, Gone     \* not there yet; deleted

ASSUME TenancyAssumption ==
  /\ Backend \in {"sqlite", "pg"}
  /\ MaxBusiness \in Nat \ {0} /\ MaxCrashes \in Nat
  /\ None \notin UserId \cup Person \cup Invite \cup Tab /\ Gone \notin UserId /\ None # Gone
  /\ None \notin {"owner", "member", "running", "over"}

VARIABLES
  users,        \* id -> row
  identities,   \* <<provider, person>> -> user
  orgs,         \* the organizations that exist
  members,      \* <<org, user>> -> role
  businesses,   \* id -> row; ids are given out in order
  trials,       \* org -> the trial in its subscription row
  invites,      \* token -> row
  tabs,         \* tab -> session and page state
  calls,        \* tab -> its request in flight: program counter and locals
  turn,         \* the tab whose handler holds the event loop, or None
  crashes,      \* how often the process has died
  ops,          \* the scenario of this behaviour
  admitted      \* history: invite -> the users it has let in

Tables == <<users, identities, orgs, members, businesses, trials, invites>>
vars == <<Tables, tabs, calls, turn, crashes, ops, admitted>>

-----------------------------------------------------------------------------
BizId == 1 .. MaxBusiness
Name == {"Personal", "Acme"}
Provider == {"local", "google"}

UserRow == [email : Person, local : BOOLEAN]

\* cat stands for the default categories, rule for any one of the nine default rules on
\* them: the user_id on the row, or None when it is not there.
BizRow == [org : UserId, name : Name, cat : UserId \cup {None}, rule : UserId \cup {None}]

InviteRow == [org : UserId, by : UserId, status : {"pending", "accepted", "expired"}, due : BOOLEAN]

ASSUME RowAssumption == {None, Gone} \cap (UserRow \cup BizRow \cup InviteRow) = {}

\* session: the user id in the server's session of this browser.  header: the
\* module variable and localStorage entry sent as x-business-id.  biz, org and
\* shown: businessId, orgId and businesses of AuthState.
TabState == [session : UserId \cup {None}, header : BizId \cup {None}, biz : BizId \cup {None},
             org : UserId \cup {None}, shown : UNION {[S -> Name] : S \in SUBSET BizId}]

ServerPC == {"hash", "insert", "create", "link", "org", "member", "business", "newBusiness",
             "cats", "rules", "trial", "login", "drop", "admit", "spend", "stripe"}

CallState == [pc : ServerPC \cup {"idle", "list"},
              op : {"register", "oauth", "refresh", "delete", "accept", "leave", "none"},
              who : Person \cup {None}, user : UserId \cup {None}, org : UserId \cup {None},
              biz : BizId \cup {None}, inv : Invite \cup {None}, orgs : SUBSET UserId]

Nothing == [b \in {} |-> "Personal"]

IdleCall == [pc |-> "idle", op |-> "none", who |-> None, user |-> None, org |-> None,
             biz |-> None, inv |-> None, orgs |-> {}]

TypeOK ==
  /\ users \in [UserId -> UserRow \cup {None, Gone}]
  /\ identities \in [Provider \X Person -> UserId \cup {None}]
  /\ orgs \in SUBSET UserId
  /\ members \in [UserId \X UserId -> {"owner", "member", None}]
  /\ businesses \in [BizId -> BizRow \cup {None, Gone}]
  /\ trials \in [UserId -> {"running", "over", None}]
  /\ invites \in [Invite -> InviteRow \cup {None, Gone}]
  /\ tabs \in [Tab -> TabState]
  /\ calls \in [Tab -> CallState]
  /\ turn \in Tab \cup {None}
  /\ crashes \in 0 .. MaxCrashes
  /\ admitted \in [Invite -> SUBSET UserId]

BlankTab == [session |-> None, header |-> None, biz |-> None, org |-> None, shown |-> Nothing]

Init ==
  /\ users = [u \in UserId |-> None]
  /\ identities = [i \in Provider \X Person |-> None]
  /\ orgs = {}
  /\ members = [m \in UserId \X UserId |-> None]
  /\ businesses = [b \in BizId |-> None]
  /\ trials = [o \in UserId |-> None]
  /\ invites = [i \in Invite |-> None]
  /\ tabs = [t \in Tab |-> BlankTab]
  /\ calls = [t \in Tab |-> IdleCall]
  /\ turn = None
  /\ crashes = 0
  /\ ops \in Scenarios
  /\ admitted = [i \in Invite |-> {}]

-----------------------------------------------------------------------------
(* The event loop and the rows.                                            *)

Serial == Backend = "sqlite"

\* Where a handler lets others run: hashing and Stripe; "list" is between two requests.
Open == {"idle", "hash", "stripe", "list"}

At(t, pc) == calls[t].pc = pc /\ turn \in {None, t}
Idle(t, op) == At(t, "idle") /\ op \in ops

Become(t, call) ==
  /\ calls' = [calls EXCEPT ![t] = call]
  /\ turn' = IF Serial /\ call.pc \notin Open THEN t ELSE None

Goto(t, pc) == Become(t, [calls[t] EXCEPT !.pc = pc])
Finish(t) == Become(t, IdleCall)

Live(u) == u \in UserId /\ users[u] \notin {None, Gone}
LiveBiz == {b \in BizId : businesses[b] \notin {None, Gone}}
Businesses(o) == {b \in LiveBiz : businesses[b].org = o}
OrgsOf(u) == {o \in UserId : members[<<o, u>>] # None}

\* Every business of every organization the user belongs to.
Visible(u) == UNION {Businesses(o) : o \in OrgsOf(u)}

\* requireUser: the business a request works on; 0 when it is refused.
Resolve(u, header) ==
  IF ~Live(u) THEN 0
  ELSE IF header = None THEN Min(Visible(u) \cup (IF Visible(u) = {} THEN {0} ELSE {}))
  ELSE IF header \in Visible(u) THEN header ELSE 0

\* The business, organization and role of a request of tab t.
Context(t, header) == Resolve(tabs[t].session, header)
OrgAt(t, header) == businesses[Context(t, header)].org
AsOwner(t) == /\ Context(t, tabs[t].header) # 0
              /\ members[<<OrgAt(t, tabs[t].header), tabs[t].session>>] = "owner"

NextBiz == {b \in BizId : businesses[b] = None}

-----------------------------------------------------------------------------
(* Signing up and signing in.                                              *)

SignedOut(t) == ~Live(tabs[t].session)

EmailTaken(p) == \E u \in UserId : Live(u) /\ users[u].email = p

\* POST /register up to the hashing of the password.
Register(t, p) ==
  /\ Idle(t, "register") /\ SignedOut(t) /\ ~EmailTaken(p)
  /\ Become(t, [IdleCall EXCEPT !.pc = "hash", !.op = "register", !.who = p])
  /\ UNCHANGED <<Tables, tabs, crashes, admitted>>

Hashed(t) ==
  /\ At(t, "hash")
  /\ Goto(t, "insert")
  /\ UNCHANGED <<Tables, tabs, crashes, admitted>>

\* The identity, else the email of the profile, else a new user.
FoundUser(p) ==
  IF identities[<<"google", p>>] # None THEN {identities[<<"google", p>>]}
  ELSE {u \in UserId : Live(u) /\ users[u].email = p}

\* The callback of the OAuth provider: upsertUserFromProfile up to its first write.
OAuth(t, p) ==
  /\ Idle(t, "oauth") /\ SignedOut(t)
  /\ LET call == [IdleCall EXCEPT !.op = "oauth", !.who = p] IN
       \/ /\ FoundUser(p) = {}
          /\ Become(t, [call EXCEPT !.pc = "create"])
       \/ \E u \in FoundUser(p) : Become(t, [call EXCEPT !.pc = "link", !.user = u])
  /\ UNCHANGED <<Tables, tabs, crashes, admitted>>

\* Fault: no unique index on the email.
InsertTwice(t, pc) ==
  /\ At(t, pc)
  /\ \E u \in UserId :
       /\ users[u] = None
       /\ users' = [users EXCEPT ![u] = [email |-> calls[t].who, local |-> pc = "insert"]]
       /\ Become(t, [calls[t] EXCEPT !.pc = "link", !.user = u])
  /\ UNCHANGED <<identities, orgs, members, businesses, trials, invites, tabs, crashes, admitted>>

\* INSERT INTO users by createLocal and by create, under the unique indexes on
\* username and email_hash; a conflict ends the request with an error.
InsertUser(t, pc) ==
  /\ At(t, pc)
  /\ IF EmailTaken(calls[t].who)
     THEN Finish(t) /\ UNCHANGED users
     ELSE \E u \in UserId :
            /\ users[u] = None
            /\ users' = [users EXCEPT ![u] = [email |-> calls[t].who, local |-> pc = "insert"]]
            /\ Become(t, [calls[t] EXCEPT !.pc = "link", !.user = u])
  /\ UNCHANGED <<identities, orgs, members, businesses, trials, invites, tabs, crashes, admitted>>

ProviderOf(op) == IF op = "register" THEN "local" ELSE "google"

\* Fault: the set-up is left to the first sign-in.
LinkFirst(t) ==
  LET i == <<ProviderOf(calls[t].op), calls[t].who>> IN
  /\ At(t, "link")
  /\ identities' = [identities EXCEPT ![i] = IF @ = None THEN calls[t].user ELSE @]
  /\ Goto(t, IF identities[i] = None THEN "org" ELSE "login")
  /\ UNCHANGED <<users, orgs, members, businesses, trials, invites, tabs, crashes, admitted>>

\* upsertIdentity: a known identity keeps its user.
Link(t) ==
  LET i == <<ProviderOf(calls[t].op), calls[t].who>> IN
  /\ At(t, "link")
  /\ IF Live(calls[t].user)
     THEN /\ identities' = [identities EXCEPT ![i] = IF @ = None THEN calls[t].user ELSE @]
          /\ Goto(t, "org")
     ELSE Finish(t) /\ UNCHANGED identities
  /\ UNCHANGED <<users, orgs, members, businesses, trials, invites, tabs, crashes, admitted>>

-----------------------------------------------------------------------------
(* provisionDefaults, run by every sign-up and every OAuth sign-in.        *)

AddOrg(t) ==
  /\ At(t, "org")
  /\ orgs' = orgs \cup {calls[t].user}
  /\ Goto(t, "member")
  /\ UNCHANGED <<users, identities, members, businesses, trials, invites, tabs, crashes, admitted>>

\* Fault: a role the CHECK of org_memberships does not know.
AddAdmin(t) ==
  /\ At(t, "member")
  /\ members' = [members EXCEPT ![<<calls[t].user, calls[t].user>>] = "admin"]
  /\ Goto(t, "business")
  /\ UNCHANGED <<users, identities, orgs, businesses, trials, invites, tabs, crashes, admitted>>

AddOwner(t) ==
  LET m == <<calls[t].user, calls[t].user>> IN
  /\ At(t, "member")
  /\ IF Live(calls[t].user)
     THEN /\ members' = [members EXCEPT ![m] = IF @ = None THEN "owner" ELSE @]
          /\ Goto(t, "business")
     ELSE Finish(t) /\ UNCHANGED members
  /\ UNCHANGED <<users, identities, orgs, businesses, trials, invites, tabs, crashes, admitted>>

FindBusiness(t) ==
  LET own == Businesses(calls[t].user) IN
  /\ At(t, "business")
  /\ IF own = {} THEN Goto(t, "newBusiness")
     ELSE Become(t, [calls[t] EXCEPT !.pc = "cats", !.biz = Min(own)])
  /\ UNCHANGED <<Tables, tabs, crashes, admitted>>

\* A local sign-up names the business; OAuth leaves the placeholder.
Placeholder(op) == IF op = "register" THEN "Acme" ELSE "Personal"

AddBusiness(t) ==
  /\ At(t, "newBusiness")
  /\ NextBiz # {}
  /\ LET b == Min(NextBiz) IN
       /\ businesses' = [businesses EXCEPT ![b] =
            [org |-> calls[t].user, name |-> Placeholder(calls[t].op), cat |-> None, rule |-> None]]
       /\ Become(t, [calls[t] EXCEPT !.pc = "cats", !.biz = b])
  /\ UNCHANGED <<users, identities, orgs, members, trials, invites, tabs, crashes, admitted>>

\* Category templates ON CONFLICT DO NOTHING, then rules WHERE NOT EXISTS.
WithCategories(row, u) == IF row.cat = None THEN [row EXCEPT !.cat = u] ELSE row
WithRules(row, u) == IF row.rule = None /\ row.cat # None THEN [row EXCEPT !.rule = u] ELSE row

Seed(t, from, to, row) ==
  LET c == calls[t] IN
  /\ At(t, from)
  /\ IF Live(c.user) /\ c.biz \in LiveBiz
     THEN businesses' = [businesses EXCEPT ![c.biz] = row] /\ Goto(t, to)
     ELSE Finish(t) /\ UNCHANGED businesses
  /\ UNCHANGED <<users, identities, orgs, members, trials, invites, tabs, crashes, admitted>>

SeedCategories(t) == Seed(t, "cats", "rules", WithCategories(businesses[calls[t].biz], calls[t].user))

\* One INSERT for each rule: others may come before and after the one in the model, and a
\* crash between any two of them.
SeedRules(t) ==
  \E to \in {"rules", "trial"} :
    Seed(t, "rules", to, WithRules(businesses[calls[t].biz], calls[t].user))

StartTrial(t) ==
  /\ At(t, "trial")
  /\ trials' = [trials EXCEPT ![calls[t].user] = IF @ = None THEN "running" ELSE @]
  /\ Goto(t, "login")
  /\ UNCHANGED <<users, identities, orgs, members, businesses, invites, tabs, crashes, admitted>>

\* req.login.  After OAuth the browser loads the page anew.
Enter(t) ==
  LET s == [tabs[t] EXCEPT !.session = calls[t].user] IN
  /\ At(t, "login")
  /\ tabs' = [tabs EXCEPT ![t] = IF calls[t].op = "register" THEN s
                                 ELSE [BlankTab EXCEPT !.session = s.session, !.header = s.header,
                                                       !.biz = s.header]]
  /\ Finish(t)
  /\ UNCHANGED <<Tables, crashes, admitted>>

\* POST /login without a second factor; it never runs the set-up.
Login(t, p) ==
  /\ Idle(t, "login") /\ SignedOut(t)
  /\ \E u \in UserId :
       /\ Live(u) /\ users[u] = [email |-> p, local |-> TRUE]
       /\ tabs' = [tabs EXCEPT ![t].session = u]
  /\ UNCHANGED <<Tables, calls, turn, crashes, admitted>>

Logout(t) ==
  /\ Idle(t, "logout") /\ tabs[t].session # None
  /\ tabs' = [tabs EXCEPT ![t] = BlankTab]
  /\ UNCHANGED <<Tables, calls, turn, crashes, admitted>>

-----------------------------------------------------------------------------
(* AuthContext: which business the tab works on.                           *)

\* A page load: the module variable and the state start from localStorage.
Loaded(tab) == [tab EXCEPT !.biz = tab.header, !.org = None, !.shown = Nothing]

Reload(t) ==
  /\ Idle(t, "refresh")
  /\ tabs' = [tabs EXCEPT ![t] = Loaded(@)]
  /\ UNCHANGED <<Tables, calls, turn, crashes, admitted>>

\* Choosing in the BusinessSwitcher, which reloads the page.
Switch(t, b) ==
  /\ Idle(t, "switch") /\ b \in DOMAIN tabs[t].shown
  /\ tabs' = [tabs EXCEPT ![t] = Loaded([@ EXCEPT !.header = b])]
  /\ UNCHANGED <<Tables, calls, turn, crashes, admitted>>

\* Fault: the organization shown is the user's first one.
PickedFirst(tab, org, shown) ==
  LET all == DOMAIN shown
      valid == IF tab.biz \in all THEN tab.biz ELSE IF all = {} THEN None ELSE Min(all)
  IN [tab EXCEPT !.header = valid, !.biz = valid, !.shown = shown, !.org = org]

\* The end of refresh(): the business the tab had if it is among those shown,
\* else the first; its organization, else the user's first one.
Picked(tab, org, shown) ==
  LET all == DOMAIN shown
      valid == IF tab.biz \in all THEN tab.biz ELSE IF all = {} THEN None ELSE Min(all)
  IN [tab EXCEPT !.header = valid, !.biz = valid, !.shown = shown,
                 !.org = IF valid # None THEN businesses[valid].org ELSE org]

\* refresh() up to GET /orgs.  A refused request counts as an empty list, and
\* then there is nothing more to ask.
Refresh(t) ==
  /\ Idle(t, "refresh")
  /\ \/ /\ SignedOut(t)
        /\ tabs' = [tabs EXCEPT ![t].biz = None, ![t].org = None, ![t].shown = Nothing]
        /\ UNCHANGED <<calls, turn>>
     \/ /\ ~SignedOut(t) /\ Context(t, tabs[t].header) = 0
        /\ tabs' = [tabs EXCEPT ![t] = Picked(@, None, Nothing)]
        /\ UNCHANGED <<calls, turn>>
     \/ /\ ~SignedOut(t) /\ Context(t, tabs[t].header) # 0
        /\ Become(t, [IdleCall EXCEPT !.pc = "list", !.op = "refresh", !.orgs = OrgsOf(tabs[t].session)])
        /\ UNCHANGED tabs
  /\ UNCHANGED <<Tables, crashes, admitted>>

\* GET /orgs/:orgId/businesses, once for each organization of the user.  The
\* route ignores :orgId: every answer lists the organization of the business
\* the request works on.
Listed(t) ==
  IF Context(t, tabs[t].header) = 0 THEN Nothing
  ELSE [b \in Businesses(OrgAt(t, tabs[t].header)) |-> businesses[b].name]

List(t) ==
  /\ At(t, "list")
  /\ \E o \in calls[t].orgs : tabs' = [tabs EXCEPT ![t] = Picked(@, o, Listed(t))]
  /\ Finish(t)
  /\ UNCHANGED <<Tables, crashes, admitted>>

-----------------------------------------------------------------------------
(* Businesses, from the page of the organization's settings.               *)

SetBusiness(b, row) == businesses' = [businesses EXCEPT ![b] = row]

CreateBusiness(t) ==
  /\ Idle(t, "create") /\ AsOwner(t)
  /\ NextBiz # {}
  /\ SetBusiness(Min(NextBiz), [org |-> OrgAt(t, tabs[t].header), name |-> "Acme",
                                cat |-> tabs[t].session, rule |-> tabs[t].session])
  /\ UNCHANGED <<users, identities, orgs, members, trials, invites, tabs, calls, turn, crashes, admitted>>

\* "Personal" is refused as a name.
Rename(t, b) ==
  /\ Idle(t, "rename") /\ AsOwner(t)
  /\ b \in DOMAIN tabs[t].shown \cap Businesses(OrgAt(t, tabs[t].header))
  /\ SetBusiness(b, [businesses[b] EXCEPT !.name = "Acme"])
  /\ UNCHANGED <<users, identities, orgs, members, trials, invites, tabs, calls, turn, crashes, admitted>>

\* Fault: one business may always go.
DeleteAnyBusiness(t, b) ==
  LET o == OrgAt(t, tabs[t].header) IN
  /\ Idle(t, "delete") /\ AsOwner(t)
  /\ b \in DOMAIN tabs[t].shown \cap Businesses(o) /\ tabs[t].shown[b] = businesses[b].name
  /\ Become(t, [IdleCall EXCEPT !.pc = "drop", !.op = "delete", !.org = o, !.biz = b])
  /\ UNCHANGED <<Tables, tabs, crashes, admitted>>

\* The name typed to confirm is the one the page shows; the only business of an
\* organization is refused.
DeleteBusiness(t, b) ==
  LET o == OrgAt(t, tabs[t].header) IN
  /\ Idle(t, "delete") /\ AsOwner(t)
  /\ b \in DOMAIN tabs[t].shown \cap Businesses(o) /\ tabs[t].shown[b] = businesses[b].name
  /\ Cardinality(Businesses(o)) > 1
  /\ Become(t, [IdleCall EXCEPT !.pc = "drop", !.op = "delete", !.org = o, !.biz = b])
  /\ UNCHANGED <<Tables, tabs, crashes, admitted>>

\* The transaction that deletes the business and all its rows.
DropBusiness(t) ==
  /\ At(t, "drop")
  /\ IF calls[t].biz \in Businesses(calls[t].org) THEN SetBusiness(calls[t].biz, Gone)
     ELSE UNCHANGED businesses
  /\ Finish(t)
  /\ UNCHANGED <<users, identities, orgs, members, trials, invites, tabs, crashes, admitted>>

\* DELETE /rules/:id or /categories/:id on a default row; a category takes its rules along.
Tidy(t) ==
  LET b == Context(t, tabs[t].header) IN
  /\ Idle(t, "tidy") /\ b # 0
  /\ \/ businesses[b].rule # None /\ SetBusiness(b, [businesses[b] EXCEPT !.rule = None])
     \/ businesses[b].cat # None /\ SetBusiness(b, [businesses[b] EXCEPT !.cat = None, !.rule = None])
  /\ UNCHANGED <<users, identities, orgs, members, trials, invites, tabs, calls, turn, crashes, admitted>>

-----------------------------------------------------------------------------
(* Members and invites.                                                    *)

CreateInvite(t, i) ==
  /\ Idle(t, "invite") /\ AsOwner(t)
  /\ invites[i] = None
  /\ invites' = [invites EXCEPT ![i] = [org |-> OrgAt(t, tabs[t].header), by |-> tabs[t].session,
                                        status |-> "pending", due |-> FALSE]]
  /\ UNCHANGED <<users, identities, orgs, members, businesses, trials, tabs, calls, turn, crashes, admitted>>

SetStatus(i, s) ==
  invites' = IF invites[i] = Gone THEN invites ELSE [invites EXCEPT ![i].status = s]

\* The list may be stale: the route asks nothing about the status.
ExpireInvite(t, i) ==
  /\ Idle(t, "expire") /\ AsOwner(t)
  /\ invites[i] \notin {None, Gone} /\ invites[i].org = OrgAt(t, tabs[t].header)
  /\ SetStatus(i, "expired")
  /\ UNCHANGED <<users, identities, orgs, members, businesses, trials, tabs, calls, turn, crashes, admitted>>

\* Fault: the invite is marked before the membership is written.
AcceptFirst(t, i) ==
  /\ Idle(t, "accept") /\ Context(t, None) # 0
  /\ invites[i] \notin {None, Gone} /\ invites[i].status = "pending" /\ ~invites[i].due
  /\ SetStatus(i, "accepted")
  /\ Become(t, [IdleCall EXCEPT !.pc = "admit", !.op = "accept", !.user = tabs[t].session,
                                !.org = invites[i].org, !.inv = i])
  /\ UNCHANGED <<users, identities, orgs, members, businesses, trials, tabs, crashes, admitted>>

\* The page does not send the header.  An invite that is due is marked expired.
Accept(t, i) ==
  /\ Idle(t, "accept") /\ Context(t, None) # 0
  /\ invites[i] \notin {None, Gone} /\ invites[i].status = "pending"
  /\ IF invites[i].due
     THEN /\ SetStatus(i, "expired")
          /\ UNCHANGED <<calls, turn>>
     ELSE /\ Become(t, [IdleCall EXCEPT !.pc = "admit", !.op = "accept", !.user = tabs[t].session,
                                        !.org = invites[i].org, !.inv = i])
          /\ UNCHANGED invites
  /\ UNCHANGED <<users, identities, orgs, members, businesses, trials, tabs, crashes, admitted>>

Admit(t) ==
  LET c == calls[t]  m == <<c.org, c.user>> IN
  /\ At(t, "admit")
  /\ IF Live(c.user)
     THEN /\ members' = [members EXCEPT ![m] = IF @ = None THEN "member" ELSE @]
          /\ admitted' = [admitted EXCEPT ![c.inv] = @ \cup {c.user}]
          /\ Goto(t, "spend")
     ELSE Finish(t) /\ UNCHANGED <<members, admitted>>
  /\ UNCHANGED <<users, identities, orgs, businesses, trials, invites, tabs, crashes>>

Spend(t) ==
  /\ At(t, "spend")
  /\ SetStatus(calls[t].inv, "accepted")
  /\ Finish(t)
  /\ UNCHANGED <<users, identities, orgs, members, businesses, trials, tabs, crashes, admitted>>

\* The page offers every member but oneself.
RemoveMember(t, u) ==
  /\ Idle(t, "remove") /\ AsOwner(t)
  /\ u # tabs[t].session /\ members[<<OrgAt(t, tabs[t].header), u>>] # None
  /\ members' = [members EXCEPT ![<<OrgAt(t, tabs[t].header), u>>] = None]
  /\ UNCHANGED <<users, identities, orgs, businesses, trials, invites, tabs, calls, turn, crashes, admitted>>

-----------------------------------------------------------------------------
(* Leaving.                                                                *)

\* DELETE /account up to the cancellation of the Stripe subscription.
DeleteAccount(t) ==
  /\ Idle(t, "leave") /\ Context(t, tabs[t].header) # 0
  /\ Become(t, [IdleCall EXCEPT !.pc = "stripe", !.op = "leave", !.user = tabs[t].session])
  /\ UNCHANGED <<Tables, tabs, crashes, admitted>>

\* What is left of a business's default rows when its seeder's user row goes.
WithoutSeeder(row, u) ==
  [row EXCEPT !.cat = IF @ = u THEN None ELSE @,
              !.rule = IF @ = u \/ row.cat = u THEN None ELSE @]

\* DELETE FROM users with its cascades, and the end of the session; the
\* organization, its businesses and its subscription row have no user to follow.
Erase(t) ==
  LET u == calls[t].user IN
  /\ At(t, "stripe")
  /\ users' = [users EXCEPT ![u] = Gone]
  /\ identities' = [i \in DOMAIN identities |-> IF identities[i] = u THEN None ELSE identities[i]]
  /\ members' = [m \in DOMAIN members |-> IF m[2] = u THEN None ELSE members[m]]
  /\ businesses' = [b \in BizId |-> IF b \in LiveBiz THEN WithoutSeeder(businesses[b], u)
                                    ELSE businesses[b]]
  /\ invites' = [i \in Invite |-> IF invites[i] \notin {None, Gone} /\ invites[i].by = u
                                  THEN Gone ELSE invites[i]]
  /\ tabs' = [tabs EXCEPT ![t] = Loaded([@ EXCEPT !.session = None])]
  /\ Finish(t)
  /\ UNCHANGED <<orgs, trials, crashes, admitted>>

-----------------------------------------------------------------------------
TrialEnds(o) ==
  /\ trials[o] = "running" /\ "trial" \in ops
  /\ trials' = [trials EXCEPT ![o] = "over"]
  /\ UNCHANGED <<users, identities, orgs, members, businesses, invites, tabs, calls, turn, crashes, admitted>>

InviteLapses(i) ==
  /\ "lapse" \in ops
  /\ invites[i] \notin {None, Gone} /\ ~invites[i].due
  /\ invites' = [invites EXCEPT ![i].due = TRUE]
  /\ UNCHANGED <<users, identities, orgs, members, businesses, trials, tabs, calls, turn, crashes, admitted>>

\* The process dies and is started again; the browsers and their sessions stay.
Crash ==
  /\ crashes < MaxCrashes
  /\ crashes' = crashes + 1
  /\ calls' = [t \in Tab |-> IF calls[t].pc \in ServerPC THEN IdleCall ELSE calls[t]]
  /\ turn' = None
  /\ UNCHANGED <<Tables, tabs, admitted>>

SignIn(t) ==
  \/ \E p \in Person : Register(t, p) \/ OAuth(t, p) \/ Login(t, p)
  \/ Hashed(t) \/ InsertUser(t, "insert") \/ InsertUser(t, "create") \/ Link(t)
  \/ AddOrg(t) \/ AddOwner(t) \/ FindBusiness(t) \/ AddBusiness(t)
  \/ SeedCategories(t) \/ SeedRules(t) \/ StartTrial(t) \/ Enter(t) \/ Logout(t)

Page(t) == Reload(t) \/ Refresh(t) \/ List(t) \/ \E b \in BizId : Switch(t, b)

Manage(t) ==
  \/ CreateBusiness(t) \/ DropBusiness(t) \/ Tidy(t)
  \/ \E b \in BizId : Rename(t, b) \/ DeleteBusiness(t, b)
  \/ \E i \in Invite : CreateInvite(t, i) \/ ExpireInvite(t, i) \/ Accept(t, i)
  \/ Admit(t) \/ Spend(t)
  \/ \E u \in UserId : RemoveMember(t, u)
  \/ DeleteAccount(t) \/ Erase(t)

Next ==
  /\ \/ \E t \in Tab : SignIn(t) \/ Page(t) \/ Manage(t)
     \/ \E o \in UserId : TrialEnds(o)
     \/ \E i \in Invite : InviteLapses(i)
     \/ Crash
  /\ UNCHANGED ops

Spec == Init /\ [][Next]_vars

-----------------------------------------------------------------------------
\* A person is one user: no two users share an email, and both ways of signing
\* in lead to the user with that email.  Sign-ups check the email before they
\* hash the password and insert after it, while others sign in.
OneUserPerPerson ==
  /\ \A u, v \in UserId : Live(u) /\ Live(v) /\ users[u].email = users[v].email => u = v
  /\ \A i \in DOMAIN identities :
       identities[i] # None => Live(identities[i]) /\ users[identities[i]].email = i[2]

\* What provisionDefaults promises a user.
SetUp(u) ==
  /\ u \in orgs /\ members[<<u, u>>] = "owner" /\ trials[u] # None
  /\ Businesses(u) # {}
  /\ LET row == businesses[Min(Businesses(u))] IN row.cat # None /\ row.rule # None

\* A sign-up or OAuth sign-in that completes leaves a user who is set up,
\* whatever an earlier crash has left undone.
SignInSetsUp ==
  [][\A t \in Tab : calls[t].pc = "login" /\ calls'[t].pc = "idle" /\ tabs'[t].session = calls[t].user
       => SetUp(calls[t].user)]_vars

\* An organization that has a business always keeps one: the pages and the
\* server need a business to work on.
OrgKeepsABusiness == [][\A o \in UserId : Businesses(o) # {} => Businesses(o)' # {}]_vars

\* An invite is used once: it lets one person in, unless a crash between the membership and
\* the status leaves it open for a second one, and it is never used up without letting
\* somebody in.
InviteIsUsedOnce ==
  \A i \in Invite :
    /\ Cardinality(admitted[i]) <= 1 + crashes
    /\ invites[i] \notin {None, Gone} /\ invites[i].status = "accepted" => admitted[i] # {}

\* The organization a page shows, and names in its requests, is that of the
\* business its requests work on.
PageShowsItsOrg ==
  \A t \in Tab : tabs[t].biz # None /\ tabs[t].biz \in LiveBiz /\ tabs[t].org # None
                   => businesses[tabs[t].biz].org = tabs[t].org
=============================================================================
