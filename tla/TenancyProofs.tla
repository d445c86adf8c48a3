---------------------------- MODULE TenancyProofs ----------------------------
(***************************************************************************)
(* Proofs about Tenancy, for every value of its constants.                 *)
(***************************************************************************)
EXTENDS Tenancy, FiniteSetTheorems, WellFoundedInduction, TLAPS

(* The steps of a sign-up or OAuth sign-in that know their user.            *)
SettingUp == {"link", "org", "member", "business", "newBusiness", "cats", "rules", "trial", "login"}

(* What a handler knows by the time it gets to a step, given the invites.   *)
Fit(c, invs) ==
  /\ c.pc \in {"hash", "insert", "create"} => c.who \in Person
  /\ c.pc \in SettingUp => c.user \in UserId /\ c.who \in Person
  /\ c.pc \in {"cats", "rules"} => c.biz \in BizId
  /\ c.pc = "drop" => c.biz \in BizId /\ c.org \in UserId
  /\ c.pc \in {"admit", "spend"} =>
       c.user \in UserId /\ c.org \in UserId /\ c.inv \in Invite /\ invs[c.inv] # None
  /\ c.pc = "stripe" => c.user \in UserId

TypeInv == TypeOK /\ \A t \in Tab : Fit(calls[t], invites)

(* TypeInv without the tables, the tabs and the history. *)
CallsFit ==
  /\ calls \in [Tab -> CallState] /\ turn \in Tab \cup {None}
  /\ \A t \in Tab : Fit(calls[t], invites)

-----------------------------------------------------------------------------
(* The least business of a set.                                            *)

LEMMA Least ==
  ASSUME NEW S \in SUBSET Nat, S # {}
  PROVE  \E x \in S : \A y \in S : x <= y
<1> DEFINE less == {ss \in Nat \X Nat : ss[1] < ss[2]}
<1>1. less = OpToRel(<, Nat)
  BY DEF OpToRel
<1>2. IsWellFoundedOn(less, Nat)
  BY <1>1, NatLessThanWellFounded
<1> HIDE DEF less
<1>3. PICK x \in S : \A y \in S : <<y, x>> \notin less
  BY <1>2, WFMin
<1>4. ASSUME NEW y \in S PROVE x <= y
  <2>1. x \in Nat /\ y \in Nat /\ ~(y < x)
    BY <1>3 DEF less
  <2> QED BY <2>1
<1> QED BY <1>3, <1>4

LEMMA MinOK ==
  ASSUME NEW S \in SUBSET Nat, S # {}
  PROVE  Min(S) \in S /\ \A y \in S : Min(S) <= y
<1>1. PICK x \in S : \A y \in S : x <= y
  BY Least
<1> QED BY <1>1 DEF Min

LEMMA LeastBusiness ==
  ASSUME NEW S \in SUBSET BizId, S # {}
  PROVE  Min(S) \in S
BY MinOK DEF BizId

LEMMA SameLeast ==
  ASSUME NEW S \in SUBSET BizId, NEW T \in SUBSET S, Min(S) \in T
  PROVE  Min(T) = Min(S)
<1>0. BizId \in SUBSET Nat
  BY DEF BizId
<1>1. S \in SUBSET Nat /\ T \in SUBSET Nat /\ S # {} /\ T # {}
  BY <1>0
<1>2. Min(T) \in T /\ \A y \in T : Min(T) <= y
  BY <1>1, MinOK
<1>3. Min(S) \in S /\ \A y \in S : Min(S) <= y
  BY <1>1, MinOK
<1>4. Min(T) \in Nat /\ Min(S) \in Nat /\ Min(T) <= Min(S) /\ Min(S) <= Min(T)
  BY <1>0, <1>1, <1>2, <1>3
<1> QED BY <1>4

-----------------------------------------------------------------------------
(* Rows, calls and the context of a request.                               *)

LEMMA Sentinels ==
  /\ None \notin UserId /\ None \notin Person /\ None \notin Invite /\ None \notin Tab
  /\ Gone \notin UserId /\ None # Gone
  /\ \A r \in UserRow \cup BizRow \cup InviteRow : r # None /\ r # Gone
BY TenancyAssumption, RowAssumption

LEMMA Unfolded ==
  ASSUME TypeInv
  PROVE  /\ \A u \in UserId : users[u] \in UserRow \/ ~Live(u)
         /\ \A b \in BizId : b \in LiveBiz <=> businesses[b] \in BizRow
         /\ \A i \in Invite : invites[i] \in InviteRow <=> invites[i] \notin {None, Gone}
         /\ \A t \in Tab : tabs[t] \in TabState /\ calls[t] \in CallState /\ Fit(calls[t], invites)
BY Sentinels DEF TypeInv, TypeOK, Live, LiveBiz

LEMMA IdleFits == IdleCall \in CallState /\ \A invs : Fit(IdleCall, invs)
BY DEF IdleCall, CallState, ServerPC, Fit, SettingUp

LEMMA GoneTo ==
  ASSUME NEW c \in CallState, NEW pc \in ServerPC
  PROVE  /\ [c EXCEPT !.pc = pc] \in CallState /\ [c EXCEPT !.pc = pc].pc = pc
         /\ [c EXCEPT !.pc = pc].op = c.op /\ [c EXCEPT !.pc = pc].who = c.who
         /\ [c EXCEPT !.pc = pc].user = c.user /\ [c EXCEPT !.pc = pc].org = c.org
         /\ [c EXCEPT !.pc = pc].biz = c.biz /\ [c EXCEPT !.pc = pc].inv = c.inv
BY DEF CallState

(* An invite that was made stays, if only as one that is gone. *)
InvitesStay == \A i \in Invite : invites[i] # None => invites'[i] # None

LEMMA Becoming ==
  ASSUME TypeInv, InvitesStay, NEW t \in Tab, NEW call \in CallState, Become(t, call), Fit(call, invites')
  PROVE  CallsFit' /\ calls'[t] = call /\ \A s \in Tab \ {t} : calls'[s] = calls[s]
<1>1. calls \in [Tab -> CallState] /\ \A s \in Tab : Fit(calls[s], invites)
  BY DEF TypeInv, TypeOK
<1>2. /\ calls' \in [Tab -> CallState] /\ calls'[t] = call
      /\ \A s \in Tab \ {t} : calls'[s] = calls[s]
  BY <1>1 DEF Become
<1>3. turn' \in Tab \cup {None}
  BY DEF Become
<1>4. \A s \in Tab \ {t} : Fit(calls[s], invites')
  BY <1>1 DEF Fit, InvitesStay
<1> QED BY <1>2, <1>3, <1>4 DEF CallsFit

LEMMA Moving ==
  ASSUME TypeInv, InvitesStay, NEW t \in Tab, NEW pc \in ServerPC, Goto(t, pc),
         Fit([calls[t] EXCEPT !.pc = pc], invites')
  PROVE  CallsFit'
<1>1. calls[t] \in CallState
  BY Unfolded
<1>2. [calls[t] EXCEPT !.pc = pc] \in CallState
  BY <1>1, GoneTo
<1> QED BY <1>2, Becoming DEF Goto

LEMMA Resting ==
  ASSUME TypeInv, InvitesStay, NEW t \in Tab, Finish(t)
  PROVE  CallsFit'
BY IdleFits, Becoming DEF Finish

LEMMA Waiting == ASSUME TypeInv, InvitesStay, UNCHANGED <<calls, turn>> PROVE CallsFit'
BY DEF TypeInv, TypeOK, CallsFit, Fit, InvitesStay

LEMMA ContextOK ==
  ASSUME TypeInv, NEW t \in Tab, NEW h \in BizId \cup {None}, Context(t, h) # 0
  PROVE  /\ Context(t, h) \in LiveBiz /\ OrgAt(t, h) \in UserId
         /\ tabs[t].session \in UserId /\ Live(tabs[t].session)
         /\ members[<<OrgAt(t, h), tabs[t].session>>] # None
         /\ h # None => Context(t, h) = h
<1> DEFINE u == tabs[t].session  seen == Visible(u)
<1>1. Live(u) /\ u \in UserId
  BY DEF Context, Resolve, Live
<1>2. seen \in SUBSET BizId
  BY DEF Visible, Businesses, LiveBiz
<1>3. Context(t, h) \in seen /\ (h # None => Context(t, h) = h)
  <2>1. CASE h # None
    BY <1>1, <2>1 DEF Context, Resolve
  <2>2. CASE h = None /\ seen # {}
    BY <1>1, <1>2, <2>2, LeastBusiness DEF Context, Resolve
  <2>3. CASE h = None /\ seen = {}
    <3>1. Context(t, h) = Min({0})
      BY <1>1, <2>3 DEF Context, Resolve
    <3>2. Min({0}) \in {0}
      BY MinOK
    <3> QED BY <3>1, <3>2
  <2> QED BY <2>1, <2>2, <2>3
<1>4. PICK o \in UserId : members[<<o, u>>] # None /\ Context(t, h) \in Businesses(o)
  BY <1>3 DEF Visible, OrgsOf
<1>5. Context(t, h) \in LiveBiz /\ OrgAt(t, h) = o
  BY <1>4 DEF Businesses, OrgAt
<1> QED BY <1>1, <1>3, <1>4, <1>5

LEMMA OwnerOK ==
  ASSUME TypeInv, NEW t \in Tab, AsOwner(t)
  PROVE  /\ Context(t, tabs[t].header) \in LiveBiz /\ OrgAt(t, tabs[t].header) \in UserId
         /\ tabs[t].session \in UserId /\ Live(tabs[t].session)
         /\ members[<<OrgAt(t, tabs[t].header), tabs[t].session>>] = "owner"
<1>1. tabs[t].header \in BizId \cup {None}
  BY Unfolded DEF TabState
<1> QED BY <1>1, ContextOK DEF AsOwner

-----------------------------------------------------------------------------
(* Types. First the parts of an action's effect.                           *)

LEMMA TypeFrom ==
  ASSUME TypeInv, CallsFit',
         users' \in [UserId -> UserRow \cup {None, Gone}],
         identities' \in [Provider \X Person -> UserId \cup {None}],
         orgs' \in SUBSET UserId,
         members' \in [UserId \X UserId -> {"owner", "member", None}],
         businesses' \in [BizId -> BizRow \cup {None, Gone}],
         trials' \in [UserId -> {"running", "over", None}],
         invites' \in [Invite -> InviteRow \cup {None, Gone}],
         tabs' \in [Tab -> TabState],
         admitted' \in [Invite -> SUBSET UserId],
         crashes' \in 0 .. MaxCrashes
  PROVE  TypeInv'
BY DEF TypeInv, TypeOK, CallsFit

LEMMA CallsOnly ==
  ASSUME TypeInv, CallsFit', UNCHANGED <<Tables, tabs, crashes, admitted>>
  PROVE  TypeInv'
BY DEF TypeInv, TypeOK, CallsFit, Tables

LEMMA TabsOnly ==
  ASSUME TypeInv, CallsFit', tabs' \in [Tab -> TabState], UNCHANGED <<Tables, crashes, admitted>>
  PROVE  TypeInv'
BY DEF TypeInv, TypeOK, CallsFit, Tables

LEMMA BusinessesOnly ==
  ASSUME TypeInv, CallsFit', businesses' \in [BizId -> BizRow \cup {None, Gone}],
         UNCHANGED <<users, identities, orgs, members, trials, invites, tabs, crashes, admitted>>
  PROVE  TypeInv'
BY DEF TypeInv, TypeOK, CallsFit

LEMMA InvitesOnly ==
  ASSUME TypeInv, CallsFit', invites' \in [Invite -> InviteRow \cup {None, Gone}],
         UNCHANGED <<users, identities, orgs, members, businesses, trials, tabs, crashes, admitted>>
  PROVE  TypeInv'
BY DEF TypeInv, TypeOK, CallsFit

LEMMA RegisterTypes ==
  ASSUME TypeInv, NEW t \in Tab, NEW p \in Person, Register(t, p)
  PROVE  TypeInv'
<1> DEFINE call == [IdleCall EXCEPT !.pc = "hash", !.op = "register", !.who = p]
<1>1. Become(t, call) /\ UNCHANGED <<Tables, tabs, crashes, admitted>> /\ InvitesStay
  BY DEF Register, InvitesStay, Tables
<1>2. call \in CallState /\ Fit(call, invites')
  BY DEF IdleCall, CallState, ServerPC, Fit, SettingUp
<1> HIDE DEF call
<1> QED BY <1>1, <1>2, Becoming, CallsOnly

LEMMA HashedTypes == ASSUME TypeInv, NEW t \in Tab, Hashed(t) PROVE TypeInv'
<1>1. Goto(t, "insert") /\ UNCHANGED <<Tables, tabs, crashes, admitted>> /\ InvitesStay
  BY DEF Hashed, InvitesStay, Tables
<1>2. Fit([calls[t] EXCEPT !.pc = "insert"], invites')
  BY Unfolded DEF Hashed, At, Fit, SettingUp, CallState
<1> QED BY <1>1, <1>2, Moving, CallsOnly DEF ServerPC

LEMMA OAuthTypes ==
  ASSUME TypeInv, NEW t \in Tab, NEW p \in Person, OAuth(t, p)
  PROVE  TypeInv'
<1> DEFINE create == [[IdleCall EXCEPT !.op = "oauth", !.who = p] EXCEPT !.pc = "create"]
           link(u) == [[IdleCall EXCEPT !.op = "oauth", !.who = p] EXCEPT !.pc = "link", !.user = u]
<1>1. UNCHANGED <<Tables, tabs, crashes, admitted>> /\ InvitesStay
  BY DEF OAuth, InvitesStay, Tables
<1>2. CASE Become(t, create)
  <2>1. create \in CallState /\ Fit(create, invites')
    BY DEF IdleCall, CallState, ServerPC, Fit, SettingUp
  <2> QED BY <1>1, <1>2, <2>1, Becoming, CallsOnly
<1>3. ASSUME NEW u \in FoundUser(p), Become(t, link(u)) PROVE TypeInv'
  <2>1. u \in UserId
    BY DEF FoundUser, TypeInv, TypeOK, Provider
  <2>2. link(u) \in CallState /\ Fit(link(u), invites')
    BY <2>1 DEF IdleCall, CallState, ServerPC, Fit, SettingUp
  <2> HIDE DEF link
  <2> QED BY <1>1, <1>3, <2>2, Becoming, CallsOnly
<1> QED BY <1>2, <1>3 DEF OAuth

LEMMA InsertUserTypes ==
  ASSUME TypeInv, NEW t \in Tab, NEW pc \in {"insert", "create"}, InsertUser(t, pc)
  PROVE  TypeInv'
<1>1. UNCHANGED <<identities, orgs, members, businesses, trials, invites, tabs, crashes, admitted>> /\ InvitesStay
  BY DEF InsertUser, InvitesStay
<1>2. CASE Finish(t) /\ UNCHANGED users
  BY <1>1, <1>2, Resting, CallsOnly DEF Tables
<1>3. ASSUME NEW u \in UserId, users' = [users EXCEPT ![u] = [email |-> calls[t].who, local |-> pc = "insert"]],
             Become(t, [calls[t] EXCEPT !.pc = "link", !.user = u])
      PROVE  TypeInv'
  <2> DEFINE call == [calls[t] EXCEPT !.pc = "link", !.user = u]
  <2>1. calls[t] \in CallState /\ calls[t].who \in Person
    BY Unfolded DEF InsertUser, At, Fit
  <2>2. call \in CallState /\ Fit(call, invites')
    BY <2>1 DEF CallState, ServerPC, Fit, SettingUp
  <2>3. [email |-> calls[t].who, local |-> pc = "insert"] \in UserRow
    BY <2>1 DEF UserRow
  <2>4. users' \in [UserId -> UserRow \cup {None, Gone}]
    BY <1>3, <2>3 DEF TypeInv, TypeOK
  <2> HIDE DEF call
  <2>5. CallsFit'
    BY <1>1, <1>3, <2>2, Becoming DEF call
  <2> QED BY <1>1, <2>4, <2>5 DEF TypeInv, TypeOK, CallsFit
<1> QED BY <1>2, <1>3 DEF InsertUser

LEMMA LinkTypes == ASSUME TypeInv, NEW t \in Tab, Link(t) PROVE TypeInv'
<1>1. /\ UNCHANGED <<users, orgs, members, businesses, trials, invites, tabs, crashes, admitted>> /\ InvitesStay
      /\ calls[t] \in CallState /\ calls[t].user \in UserId /\ calls[t].who \in Person
  BY Unfolded DEF Link, InvitesStay, At, Fit, SettingUp
<1>2. CASE Finish(t) /\ UNCHANGED identities
  BY <1>1, <1>2, Resting, CallsOnly DEF Tables
<1>3. CASE /\ Goto(t, "org")
           /\ identities' = [identities EXCEPT ![<<ProviderOf(calls[t].op), calls[t].who>>] =
                               IF @ = None THEN calls[t].user ELSE @]
  <2>1. Fit([calls[t] EXCEPT !.pc = "org"], invites')
    BY <1>1 DEF CallState, Fit, SettingUp
  <2>2. CallsFit'
    BY <1>1, <1>3, <2>1, Moving DEF ServerPC
  <2>3. <<ProviderOf(calls[t].op), calls[t].who>> \in Provider \X Person
    BY <1>1 DEF ProviderOf, Provider
  <2>4. identities' \in [Provider \X Person -> UserId \cup {None}]
    BY <1>1, <1>3, <2>3 DEF TypeInv, TypeOK
  <2> QED BY <1>1, <2>2, <2>4 DEF TypeInv, TypeOK, CallsFit
<1> QED BY <1>2, <1>3 DEF Link

LEMMA AddOrgTypes == ASSUME TypeInv, NEW t \in Tab, AddOrg(t) PROVE TypeInv'
<1>1. /\ UNCHANGED <<users, identities, members, businesses, trials, invites, tabs, crashes, admitted>> /\ InvitesStay
      /\ calls[t] \in CallState /\ calls[t].user \in UserId /\ calls[t].who \in Person
  BY Unfolded DEF AddOrg, InvitesStay, At, Fit, SettingUp
<1>2. Goto(t, "member") /\ orgs' \in SUBSET UserId
  BY <1>1 DEF AddOrg, TypeInv, TypeOK
<1>3. Fit([calls[t] EXCEPT !.pc = "member"], invites')
  BY <1>1 DEF CallState, Fit, SettingUp
<1>4. CallsFit'
  BY <1>1, <1>2, <1>3, Moving DEF ServerPC
<1> QED BY <1>1, <1>2, <1>4 DEF TypeInv, TypeOK, CallsFit

LEMMA AddOwnerTypes == ASSUME TypeInv, NEW t \in Tab, AddOwner(t) PROVE TypeInv'
<1>1. /\ UNCHANGED <<users, identities, orgs, businesses, trials, invites, tabs, crashes, admitted>> /\ InvitesStay
      /\ calls[t] \in CallState /\ calls[t].user \in UserId /\ calls[t].who \in Person
  BY Unfolded DEF AddOwner, InvitesStay, At, Fit, SettingUp
<1>2. CASE Finish(t) /\ UNCHANGED members
  BY <1>1, <1>2, Resting, CallsOnly DEF Tables
<1>3. CASE /\ Goto(t, "business")
           /\ members' = [members EXCEPT ![<<calls[t].user, calls[t].user>>] =
                            IF @ = None THEN "owner" ELSE @]
  <2>1. Fit([calls[t] EXCEPT !.pc = "business"], invites')
    BY <1>1 DEF CallState, Fit, SettingUp
  <2>2. CallsFit'
    BY <1>1, <1>3, <2>1, Moving DEF ServerPC
  <2>3. members' \in [UserId \X UserId -> {"owner", "member", None}]
    BY <1>1, <1>3 DEF TypeInv, TypeOK
  <2> QED BY <1>1, <2>2, <2>3 DEF TypeInv, TypeOK, CallsFit
<1> QED BY <1>2, <1>3 DEF AddOwner

LEMMA FindBusinessTypes == ASSUME TypeInv, NEW t \in Tab, FindBusiness(t) PROVE TypeInv'
<1> DEFINE own == Businesses(calls[t].user)
           call == [calls[t] EXCEPT !.pc = "cats", !.biz = Min(own)]
<1>1. /\ UNCHANGED <<Tables, tabs, crashes, admitted>> /\ InvitesStay
      /\ calls[t] \in CallState /\ calls[t].user \in UserId /\ calls[t].who \in Person
  BY Unfolded DEF FindBusiness, InvitesStay, At, Fit, SettingUp, Tables
<1>2. CASE Goto(t, "newBusiness")
  <2>1. Fit([calls[t] EXCEPT !.pc = "newBusiness"], invites')
    BY <1>1 DEF CallState, Fit, SettingUp
  <2> QED BY <1>1, <1>2, <2>1, Moving, CallsOnly DEF ServerPC
<1>3. CASE own # {} /\ Become(t, call)
  <2>1. Min(own) \in BizId
    BY <1>3, LeastBusiness DEF Businesses, LiveBiz
  <2>2. call \in CallState /\ Fit(call, invites')
    BY <1>1, <2>1 DEF CallState, ServerPC, Fit, SettingUp
  <2> HIDE DEF call
  <2> QED BY <1>1, <1>3, <2>2, Becoming, CallsOnly
<1> QED BY <1>2, <1>3 DEF FindBusiness

LEMMA AddBusinessTypes == ASSUME TypeInv, NEW t \in Tab, AddBusiness(t) PROVE TypeInv'
<1> DEFINE b == Min(NextBiz)
           call == [calls[t] EXCEPT !.pc = "cats", !.biz = b]
           row == [org |-> calls[t].user, name |-> Placeholder(calls[t].op), cat |-> None, rule |-> None]
<1>1. /\ UNCHANGED <<users, identities, orgs, members, trials, invites, tabs, crashes, admitted>> /\ InvitesStay
      /\ calls[t] \in CallState /\ calls[t].user \in UserId /\ calls[t].who \in Person
  BY Unfolded DEF AddBusiness, InvitesStay, At, Fit, SettingUp, Tables
<1>2. b \in BizId /\ Become(t, call) /\ businesses' = [businesses EXCEPT ![b] = row]
  BY LeastBusiness DEF AddBusiness, NextBiz
<1>3. call \in CallState /\ Fit(call, invites')
  BY <1>1, <1>2 DEF CallState, ServerPC, Fit, SettingUp
<1>4. row \in BizRow
  BY <1>1 DEF BizRow, Name, Placeholder
<1> HIDE DEF row, call, b
<1>5. businesses' \in [BizId -> BizRow \cup {None, Gone}]
  BY <1>2, <1>4 DEF TypeInv, TypeOK
<1>6. CallsFit'
  BY <1>1, <1>2, <1>3, Becoming
<1> QED BY <1>1, <1>5, <1>6, BusinessesOnly

LEMMA SeedTypes ==
  ASSUME TypeInv, NEW t \in Tab, NEW from \in {"cats", "rules"}, NEW to \in {"rules", "trial"}, NEW row,
         calls[t].biz \in LiveBiz => row \in BizRow, Seed(t, from, to, row)
  PROVE  TypeInv'
<1>1. /\ UNCHANGED <<users, identities, orgs, members, trials, invites, tabs, crashes, admitted>> /\ InvitesStay
      /\ calls[t] \in CallState /\ calls[t].user \in UserId /\ calls[t].who \in Person /\ calls[t].biz \in BizId
  BY Unfolded DEF Seed, InvitesStay, At, Fit, SettingUp, Tables
<1>2. CASE Finish(t) /\ UNCHANGED businesses
  BY <1>1, <1>2, Resting, CallsOnly DEF Tables
<1>3. CASE calls[t].biz \in LiveBiz /\ businesses' = [businesses EXCEPT ![calls[t].biz] = row] /\ Goto(t, to)
  <2>1. Fit([calls[t] EXCEPT !.pc = to], invites')
    BY <1>1 DEF CallState, Fit, SettingUp
  <2>2. CallsFit'
    BY <1>1, <1>3, <2>1, Moving DEF ServerPC
  <2>3. businesses' \in [BizId -> BizRow \cup {None, Gone}]
    BY <1>1, <1>3 DEF TypeInv, TypeOK
  <2> QED BY <1>1, <2>2, <2>3, BusinessesOnly
<1> QED BY <1>2, <1>3 DEF Seed

LEMMA SeededTypes == ASSUME TypeInv, NEW t \in Tab, SeedCategories(t) \/ SeedRules(t) PROVE TypeInv'
<1> DEFINE b == calls[t].biz
<1>1. At(t, "cats") \/ At(t, "rules")
  BY DEF SeedCategories, SeedRules, Seed
<1>2. calls[t].user \in UserId
  BY <1>1, Unfolded DEF At, Fit, SettingUp
<1>3. b \in LiveBiz => businesses[b] \in BizRow
  BY Unfolded DEF LiveBiz
<1>4. b \in LiveBiz => WithCategories(businesses[b], calls[t].user) \in BizRow
  BY <1>2, <1>3 DEF WithCategories, BizRow
<1>5. b \in LiveBiz => WithRules(businesses[b], calls[t].user) \in BizRow
  BY <1>2, <1>3 DEF WithRules, BizRow
<1>6. CASE SeedCategories(t)
  BY <1>4, <1>6, SeedTypes DEF SeedCategories
<1>7. CASE SeedRules(t)
  BY <1>5, <1>7, SeedTypes DEF SeedRules
<1> QED BY <1>6, <1>7

LEMMA StartTrialTypes == ASSUME TypeInv, NEW t \in Tab, StartTrial(t) PROVE TypeInv'
<1>1. /\ UNCHANGED <<users, identities, orgs, members, businesses, invites, tabs, crashes, admitted>> /\ InvitesStay
      /\ calls[t] \in CallState /\ calls[t].user \in UserId /\ calls[t].who \in Person
  BY Unfolded DEF StartTrial, InvitesStay, At, Fit, SettingUp
<1>2. Goto(t, "login") /\ trials' \in [UserId -> {"running", "over", None}]
  BY <1>1 DEF StartTrial, TypeInv, TypeOK
<1>3. Fit([calls[t] EXCEPT !.pc = "login"], invites')
  BY <1>1 DEF CallState, Fit, SettingUp
<1>4. CallsFit'
  BY <1>1, <1>2, <1>3, Moving DEF ServerPC
<1> QED BY <1>1, <1>2, <1>4 DEF TypeInv, TypeOK, CallsFit

LEMMA NothingShown == Nothing \in UNION {[S -> Name] : S \in SUBSET BizId} /\ DOMAIN Nothing = {}
<1>1. Nothing \in [{} -> Name]
  BY DEF Nothing
<1> QED BY <1>1 DEF Nothing

LEMMA LoadedOK ==
  ASSUME NEW tab \in TabState
  PROVE  Loaded(tab) \in TabState /\ BlankTab \in TabState
BY NothingShown DEF Loaded, BlankTab, TabState

LEMMA EnterTypes == ASSUME TypeInv, NEW t \in Tab, Enter(t) PROVE TypeInv'
<1>1. /\ UNCHANGED <<Tables, crashes, admitted>> /\ InvitesStay /\ Finish(t)
      /\ calls[t].user \in UserId /\ tabs[t] \in TabState
  BY Unfolded DEF Enter, InvitesStay, At, Fit, SettingUp, Tables
<1> DEFINE s == [tabs[t] EXCEPT !.session = calls[t].user]
           fresh == [BlankTab EXCEPT !.session = s.session, !.header = s.header, !.biz = s.header]
<1>2. s \in TabState
  BY <1>1 DEF TabState
<1>3. fresh \in TabState
  <2>1. s.session \in UserId \cup {None} /\ s.header \in BizId \cup {None}
    BY <1>2 DEF TabState
  <2> HIDE DEF s
  <2> QED BY <2>1, NothingShown DEF TabState, BlankTab
<1>4. tabs' = [tabs EXCEPT ![t] = IF calls[t].op = "register" THEN s ELSE fresh]
  BY DEF Enter
<1> HIDE DEF s, fresh
<1>5. tabs' \in [Tab -> TabState]
  BY <1>2, <1>3, <1>4 DEF TypeInv, TypeOK
<1> QED BY <1>1, <1>5, Resting, TabsOnly

LEMMA LoginTypes == ASSUME TypeInv, NEW t \in Tab, NEW p \in Person, Login(t, p) PROVE TypeInv'
<1>1. UNCHANGED <<Tables, calls, turn, crashes, admitted>> /\ InvitesStay
  BY DEF Login, InvitesStay, Tables
<1>2. PICK u \in UserId : tabs' = [tabs EXCEPT ![t] = [tabs[t] EXCEPT !.session = u]]
  BY DEF Login
<1>3. [tabs[t] EXCEPT !.session = u] \in TabState
  BY Unfolded DEF TabState
<1>4. tabs' \in [Tab -> TabState]
  BY <1>2, <1>3 DEF TypeInv, TypeOK
<1> QED BY <1>1, <1>4, Waiting, TabsOnly

LEMMA LogoutTypes == ASSUME TypeInv, NEW t \in Tab, Logout(t) PROVE TypeInv'
<1>1. UNCHANGED <<Tables, calls, turn, crashes, admitted>> /\ InvitesStay
  BY DEF Logout, InvitesStay, Tables
<1>2. tabs' \in [Tab -> TabState]
  BY LoadedOK, Unfolded DEF Logout, TypeInv, TypeOK
<1> QED BY <1>1, <1>2, Waiting, TabsOnly

LEMMA ReloadTypes == ASSUME TypeInv, NEW t \in Tab, Reload(t) PROVE TypeInv'
<1>1. UNCHANGED <<Tables, calls, turn, crashes, admitted>> /\ InvitesStay
  BY DEF Reload, InvitesStay, Tables
<1>2. Loaded(tabs[t]) \in TabState
  BY LoadedOK, Unfolded
<1>3. tabs' \in [Tab -> TabState]
  BY <1>2 DEF Reload, TypeInv, TypeOK
<1> QED BY <1>1, <1>3, Waiting, TabsOnly

LEMMA SwitchTypes == ASSUME TypeInv, NEW t \in Tab, NEW b \in BizId, Switch(t, b) PROVE TypeInv'
<1>1. UNCHANGED <<Tables, calls, turn, crashes, admitted>> /\ InvitesStay
  BY DEF Switch, InvitesStay, Tables
<1>2. [tabs[t] EXCEPT !.header = b] \in TabState
  BY Unfolded DEF TabState
<1>3. Loaded([tabs[t] EXCEPT !.header = b]) \in TabState
  BY <1>2, LoadedOK
<1>4. tabs' \in [Tab -> TabState]
  BY <1>3 DEF Switch, TypeInv, TypeOK
<1> QED BY <1>1, <1>4, Waiting, TabsOnly

LEMMA PickedOK ==
  ASSUME TypeInv, NEW tab \in TabState, NEW org \in UserId \cup {None}, NEW S \in SUBSET LiveBiz,
         NEW shown \in [S -> Name]
  PROVE  /\ Picked(tab, org, shown) \in TabState
         /\ Picked(tab, org, shown).header \in S \cup {None} /\ Picked(tab, org, shown).shown = shown
         /\ Picked(tab, org, shown).biz = Picked(tab, org, shown).header
         /\ Picked(tab, org, shown).session = tab.session
         /\ Picked(tab, org, shown).header # None =>
              Picked(tab, org, shown).org = businesses[Picked(tab, org, shown).header].org
<1> DEFINE valid == IF tab.biz \in S THEN tab.biz ELSE IF S = {} THEN None ELSE Min(S)
           o == IF valid # None THEN businesses[valid].org ELSE org
<1>1. S \in SUBSET BizId
  BY DEF LiveBiz
<1>2. valid \in S \cup {None}
  BY <1>1, LeastBusiness
<1>3. valid \in BizId \cup {None} /\ o \in UserId \cup {None}
  BY <1>1, <1>2, Unfolded DEF BizRow
<1>4. shown \in UNION {[R -> Name] : R \in SUBSET BizId} /\ DOMAIN shown = S
  BY <1>1
<1>5. Picked(tab, org, shown) =
        [tab EXCEPT !.header = valid, !.biz = valid, !.shown = shown, !.org = o]
  BY <1>4 DEF Picked
<1>6. o = businesses[valid].org \/ valid = None
  OBVIOUS
<1> HIDE DEF valid, o
<1> QED BY <1>2, <1>3, <1>4, <1>5, <1>6 DEF TabState

LEMMA RefreshTypes == ASSUME TypeInv, NEW t \in Tab, Refresh(t) PROVE TypeInv'
<1>1. UNCHANGED <<Tables, crashes, admitted>> /\ InvitesStay /\ tabs[t] \in TabState
  BY Unfolded DEF Refresh, InvitesStay, Tables
<1>2. CASE /\ tabs' = [tabs EXCEPT ![t].biz = None, ![t].org = None, ![t].shown = Nothing]
           /\ UNCHANGED <<calls, turn>>
  <2>1. tabs' \in [Tab -> TabState]
    BY <1>1, <1>2, NothingShown DEF TypeInv, TypeOK, TabState
  <2> QED BY <1>1, <1>2, <2>1, Waiting, TabsOnly
<1>3. CASE tabs' = [tabs EXCEPT ![t] = Picked(@, None, Nothing)] /\ UNCHANGED <<calls, turn>>
  <2>1. Nothing \in [{} -> Name]
    BY DEF Nothing
  <2>2. Picked(tabs[t], None, Nothing) \in TabState
    BY <1>1, <2>1, PickedOK
  <2>3. tabs' \in [Tab -> TabState]
    BY <1>3, <2>2 DEF TypeInv, TypeOK
  <2> QED BY <1>1, <1>3, <2>3, Waiting, TabsOnly
<1>4. CASE /\ Become(t, [IdleCall EXCEPT !.pc = "list", !.op = "refresh", !.orgs = OrgsOf(tabs[t].session)])
           /\ UNCHANGED tabs
  <2> DEFINE call == [IdleCall EXCEPT !.pc = "list", !.op = "refresh", !.orgs = OrgsOf(tabs[t].session)]
  <2>1. OrgsOf(tabs[t].session) \in SUBSET UserId
    BY DEF OrgsOf
  <2>2. call \in CallState /\ Fit(call, invites')
    BY <2>1 DEF IdleCall, CallState, Fit, SettingUp
  <2> HIDE DEF call
  <2>3. CallsFit'
    BY <1>1, <1>4, <2>2, Becoming DEF call
  <2> QED BY <1>1, <1>4, <2>3, CallsOnly
<1> QED BY <1>2, <1>3, <1>4 DEF Refresh

LEMMA ListedOK ==
  ASSUME TypeInv, NEW t \in Tab
  PROVE  \E S \in SUBSET LiveBiz : Listed(t) \in [S -> Name]
<1>1. CASE Context(t, tabs[t].header) = 0
  <2>1. Listed(t) \in [{} -> Name]
    BY <1>1 DEF Listed, Nothing
  <2> QED BY <2>1
<1>2. CASE Context(t, tabs[t].header) # 0
  <2> DEFINE S == Businesses(OrgAt(t, tabs[t].header))
  <2>1. S \in SUBSET LiveBiz /\ \A b \in S : businesses[b].name \in Name
    BY Unfolded DEF Businesses, BizRow, LiveBiz
  <2>2. Listed(t) = [b \in S |-> businesses[b].name]
    BY <1>2 DEF Listed
  <2> QED BY <2>1, <2>2
<1> QED BY <1>1, <1>2

LEMMA ListTypes == ASSUME TypeInv, NEW t \in Tab, List(t) PROVE TypeInv'
<1>1. /\ UNCHANGED <<Tables, crashes, admitted>> /\ InvitesStay /\ tabs[t] \in TabState /\ Finish(t)
      /\ calls[t].orgs \in SUBSET UserId
  BY Unfolded DEF List, InvitesStay, Tables, CallState
<1>2. PICK o \in calls[t].orgs : tabs' = [tabs EXCEPT ![t] = Picked(tabs[t], o, Listed(t))]
  BY DEF List
<1>3. Picked(tabs[t], o, Listed(t)) \in TabState
  BY <1>1, ListedOK, PickedOK
<1>4. tabs' \in [Tab -> TabState]
  BY <1>2, <1>3 DEF TypeInv, TypeOK
<1> QED BY <1>1, <1>4, Resting, TabsOnly

-----------------------------------------------------------------------------
(* Types of what owners and members do.                                    *)

LEMMA CreateBusinessTypes == ASSUME TypeInv, NEW t \in Tab, CreateBusiness(t) PROVE TypeInv'
<1> DEFINE row == [org |-> OrgAt(t, tabs[t].header), name |-> "Acme",
                   cat |-> tabs[t].session, rule |-> tabs[t].session]
<1>1. /\ UNCHANGED <<users, identities, orgs, members, trials, invites, tabs, calls, turn, crashes, admitted>>
      /\ InvitesStay /\ AsOwner(t) /\ businesses' = [businesses EXCEPT ![Min(NextBiz)] = row]
  BY DEF CreateBusiness, SetBusiness, InvitesStay
<1>2. row \in BizRow
  BY <1>1, OwnerOK DEF BizRow, Name
<1> HIDE DEF row
<1>3. businesses' \in [BizId -> BizRow \cup {None, Gone}]
  BY <1>1, <1>2 DEF TypeInv, TypeOK
<1> QED BY <1>1, <1>3, Waiting, BusinessesOnly

LEMMA RenameTypes == ASSUME TypeInv, NEW t \in Tab, NEW b \in BizId, Rename(t, b) PROVE TypeInv'
<1>1. /\ UNCHANGED <<users, identities, orgs, members, trials, invites, tabs, calls, turn, crashes, admitted>>
      /\ InvitesStay /\ b \in LiveBiz
      /\ businesses' = [businesses EXCEPT ![b] = [businesses[b] EXCEPT !.name = "Acme"]]
  BY DEF Rename, SetBusiness, InvitesStay, Businesses
<1>2. [businesses[b] EXCEPT !.name = "Acme"] \in BizRow
  BY <1>1, Unfolded DEF BizRow, Name
<1>3. businesses' \in [BizId -> BizRow \cup {None, Gone}]
  BY <1>1, <1>2 DEF TypeInv, TypeOK
<1> QED BY <1>1, <1>3, Waiting, BusinessesOnly

LEMMA DeleteBusinessTypes ==
  ASSUME TypeInv, NEW t \in Tab, NEW b \in BizId, DeleteBusiness(t, b)
  PROVE  TypeInv'
<1> DEFINE call == [IdleCall EXCEPT !.pc = "drop", !.op = "delete", !.org = OrgAt(t, tabs[t].header), !.biz = b]
<1>1. UNCHANGED <<Tables, tabs, crashes, admitted>> /\ InvitesStay /\ AsOwner(t) /\ Become(t, call)
  BY DEF DeleteBusiness, InvitesStay, Tables
<1>2. OrgAt(t, tabs[t].header) \in UserId
  BY <1>1, OwnerOK
<1>3. call \in CallState /\ Fit(call, invites')
  BY <1>2 DEF IdleCall, CallState, ServerPC, Fit, SettingUp
<1> HIDE DEF call
<1> QED BY <1>1, <1>3, Becoming, CallsOnly

LEMMA DropBusinessTypes == ASSUME TypeInv, NEW t \in Tab, DropBusiness(t) PROVE TypeInv'
<1>1. /\ UNCHANGED <<users, identities, orgs, members, trials, invites, tabs, crashes, admitted>>
      /\ InvitesStay /\ Finish(t)
  BY DEF DropBusiness, InvitesStay
<1>2. businesses' \in [BizId -> BizRow \cup {None, Gone}]
  BY DEF DropBusiness, SetBusiness, TypeInv, TypeOK
<1> QED BY <1>1, <1>2, Resting, BusinessesOnly

LEMMA TidyTypes == ASSUME TypeInv, NEW t \in Tab, Tidy(t) PROVE TypeInv'
<1> DEFINE b == Context(t, tabs[t].header)
<1>1. /\ UNCHANGED <<users, identities, orgs, members, trials, invites, tabs, calls, turn, crashes, admitted>>
      /\ InvitesStay /\ b # 0 /\ tabs[t].header \in BizId \cup {None}
      /\ \/ businesses' = [businesses EXCEPT ![b] = [businesses[b] EXCEPT !.rule = None]]
         \/ businesses' = [businesses EXCEPT ![b] = [businesses[b] EXCEPT !.cat = None, !.rule = None]]
  BY Unfolded DEF Tidy, SetBusiness, InvitesStay, TabState
<1>2. b \in LiveBiz /\ businesses[b] \in BizRow
  BY <1>1, ContextOK, Unfolded DEF LiveBiz
<1>3. /\ [businesses[b] EXCEPT !.rule = None] \in BizRow
      /\ [businesses[b] EXCEPT !.cat = None, !.rule = None] \in BizRow
  BY <1>2 DEF BizRow
<1> HIDE DEF b
<1>4. businesses' \in [BizId -> BizRow \cup {None, Gone}]
  BY <1>1, <1>3 DEF TypeInv, TypeOK
<1> QED BY <1>1, <1>4, Waiting, BusinessesOnly

LEMMA CreateInviteTypes ==
  ASSUME TypeInv, NEW t \in Tab, NEW i \in Invite, CreateInvite(t, i)
  PROVE  TypeInv'
<1> DEFINE row == [org |-> OrgAt(t, tabs[t].header), by |-> tabs[t].session,
                   status |-> "pending", due |-> FALSE]
<1>1. /\ UNCHANGED <<users, identities, orgs, members, businesses, trials, tabs, calls, turn, crashes, admitted>>
      /\ AsOwner(t) /\ invites' = [invites EXCEPT ![i] = row]
  BY DEF CreateInvite
<1>2. row \in InviteRow
  BY <1>1, OwnerOK DEF InviteRow
<1> HIDE DEF row
<1>3. invites' \in [Invite -> InviteRow \cup {None, Gone}] /\ InvitesStay
  BY <1>1, <1>2, Sentinels DEF TypeInv, TypeOK, InvitesStay
<1> QED BY <1>1, <1>3, Waiting, InvitesOnly

LEMMA SetStatusOK ==
  ASSUME TypeInv, NEW i \in Invite, invites[i] # None, NEW s \in {"accepted", "expired"}, SetStatus(i, s)
  PROVE  /\ invites' \in [Invite -> InviteRow \cup {None, Gone}] /\ InvitesStay
         /\ \A j \in Invite \ {i} : invites'[j] = invites[j]
         /\ invites[i] = Gone => invites'[i] = Gone
         /\ invites[i] # Gone => invites'[i] = [invites[i] EXCEPT !.status = s]
         /\ invites[i] # Gone => invites'[i] \in InviteRow
<1> DEFINE row == [invites[i] EXCEPT !.status = s]
<1>1. CASE invites[i] = Gone
  BY <1>1, Sentinels DEF SetStatus, TypeInv, TypeOK, InvitesStay
<1>2. CASE invites[i] # Gone
  <2>1. row \in InviteRow
    BY <1>2, Unfolded DEF InviteRow
  <2>2. invites' = [invites EXCEPT ![i] = row]
    BY <1>2 DEF SetStatus
  <2> HIDE DEF row
  <2>3. invites' \in [Invite -> InviteRow \cup {None, Gone}] /\ InvitesStay
    BY <2>1, <2>2, Sentinels DEF TypeInv, TypeOK, InvitesStay
  <2>4. /\ \A j \in Invite \ {i} : invites'[j] = invites[j]
        /\ invites'[i] = row
    BY <2>2 DEF TypeInv, TypeOK
  <2> QED BY <1>2, <2>1, <2>3, <2>4 DEF row
<1> QED BY <1>1, <1>2

LEMMA ExpireInviteTypes ==
  ASSUME TypeInv, NEW t \in Tab, NEW i \in Invite, ExpireInvite(t, i)
  PROVE  TypeInv'
<1>1. /\ UNCHANGED <<users, identities, orgs, members, businesses, trials, tabs, calls, turn, crashes, admitted>>
      /\ invites[i] # None /\ SetStatus(i, "expired")
  BY DEF ExpireInvite
<1> QED BY <1>1, SetStatusOK, Waiting, InvitesOnly

LEMMA AcceptTypes ==
  ASSUME TypeInv, NEW t \in Tab, NEW i \in Invite, Accept(t, i)
  PROVE  TypeInv'
<1> DEFINE call == [IdleCall EXCEPT !.pc = "admit", !.op = "accept", !.user = tabs[t].session,
                                    !.org = invites[i].org, !.inv = i]
<1>1. /\ UNCHANGED <<users, identities, orgs, members, businesses, trials, tabs, crashes, admitted>>
      /\ Context(t, None) # 0 /\ invites[i] \in InviteRow
  BY Unfolded DEF Accept
<1>2. CASE SetStatus(i, "expired") /\ UNCHANGED <<calls, turn>>
  BY <1>1, <1>2, SetStatusOK, Waiting, InvitesOnly, Sentinels
<1>3. CASE Become(t, call) /\ UNCHANGED invites
  <2>1. tabs[t].session \in UserId /\ invites[i].org \in UserId /\ invites[i] # None
    BY <1>1, ContextOK, Sentinels DEF InviteRow
  <2>2. call \in CallState /\ Fit(call, invites')
    BY <1>3, <2>1 DEF IdleCall, CallState, ServerPC, Fit, SettingUp
  <2> HIDE DEF call
  <2>3. CallsFit'
    BY <1>3, <2>2, Becoming DEF InvitesStay
  <2> QED BY <1>1, <1>3, <2>3, CallsOnly DEF Tables
<1> QED BY <1>2, <1>3 DEF Accept

LEMMA AdmitTypes == ASSUME TypeInv, NEW t \in Tab, Admit(t) PROVE TypeInv'
<1>1. /\ UNCHANGED <<users, identities, orgs, businesses, trials, invites, tabs, crashes>> /\ InvitesStay
      /\ calls[t] \in CallState /\ calls[t].user \in UserId /\ calls[t].org \in UserId
      /\ calls[t].inv \in Invite /\ invites[calls[t].inv] # None
  BY Unfolded DEF Admit, InvitesStay, At, Fit
<1>2. CASE Finish(t) /\ UNCHANGED <<members, admitted>>
  BY <1>1, <1>2, Resting, CallsOnly DEF Tables
<1>3. CASE /\ Goto(t, "spend")
           /\ members' = [members EXCEPT ![<<calls[t].org, calls[t].user>>] = IF @ = None THEN "member" ELSE @]
           /\ admitted' = [admitted EXCEPT ![calls[t].inv] = @ \cup {calls[t].user}]
  <2>1. Fit([calls[t] EXCEPT !.pc = "spend"], invites')
    BY <1>1 DEF CallState, Fit, SettingUp
  <2>2. CallsFit'
    BY <1>1, <1>3, <2>1, Moving DEF ServerPC
  <2>3. members' \in [UserId \X UserId -> {"owner", "member", None}]
    BY <1>1, <1>3 DEF TypeInv, TypeOK
  <2>4. admitted' \in [Invite -> SUBSET UserId]
    BY <1>1, <1>3 DEF TypeInv, TypeOK
  <2> QED BY <1>1, <2>2, <2>3, <2>4 DEF TypeInv, TypeOK, CallsFit
<1> QED BY <1>2, <1>3 DEF Admit

LEMMA SpendTypes == ASSUME TypeInv, NEW t \in Tab, Spend(t) PROVE TypeInv'
<1>1. /\ UNCHANGED <<users, identities, orgs, members, businesses, trials, tabs, crashes, admitted>>
      /\ calls[t].inv \in Invite /\ invites[calls[t].inv] # None
      /\ SetStatus(calls[t].inv, "accepted") /\ Finish(t)
  BY Unfolded DEF Spend, At, Fit
<1> QED BY <1>1, SetStatusOK, Resting, InvitesOnly

LEMMA RemoveMemberTypes ==
  ASSUME TypeInv, NEW t \in Tab, NEW u \in UserId, RemoveMember(t, u)
  PROVE  TypeInv'
<1>1. /\ UNCHANGED <<users, identities, orgs, businesses, trials, invites, tabs, calls, turn, crashes, admitted>>
      /\ InvitesStay
  BY DEF RemoveMember, InvitesStay
<1>2. members' \in [UserId \X UserId -> {"owner", "member", None}]
  BY DEF RemoveMember, TypeInv, TypeOK
<1> QED BY <1>1, <1>2, Waiting DEF TypeInv, TypeOK, CallsFit

LEMMA DeleteAccountTypes == ASSUME TypeInv, NEW t \in Tab, DeleteAccount(t) PROVE TypeInv'
<1> DEFINE call == [IdleCall EXCEPT !.pc = "stripe", !.op = "leave", !.user = tabs[t].session]
<1>1. /\ UNCHANGED <<Tables, tabs, crashes, admitted>> /\ InvitesStay /\ Become(t, call)
      /\ Context(t, tabs[t].header) # 0 /\ tabs[t].header \in BizId \cup {None}
  BY Unfolded DEF DeleteAccount, InvitesStay, Tables, TabState
<1>2. tabs[t].session \in UserId
  BY <1>1, ContextOK
<1>3. call \in CallState /\ Fit(call, invites')
  BY <1>2 DEF IdleCall, CallState, ServerPC, Fit, SettingUp
<1> HIDE DEF call
<1> QED BY <1>1, <1>3, Becoming, CallsOnly

LEMMA EraseTypes == ASSUME TypeInv, NEW t \in Tab, Erase(t) PROVE TypeInv'
<1> DEFINE u == calls[t].user
<1>1. UNCHANGED <<orgs, trials, crashes, admitted>> /\ u \in UserId /\ Finish(t) /\ InvitesStay
  BY Unfolded, Sentinels DEF Erase, At, Fit, InvitesStay
<1>2. users' \in [UserId -> UserRow \cup {None, Gone}]
  BY DEF Erase, TypeInv, TypeOK
<1>3. identities' \in [Provider \X Person -> UserId \cup {None}]
  BY DEF Erase, TypeInv, TypeOK
<1>4. members' \in [UserId \X UserId -> {"owner", "member", None}]
  BY DEF Erase, TypeInv, TypeOK
<1>5. businesses' \in [BizId -> BizRow \cup {None, Gone}]
  <2>1. \A b \in LiveBiz : businesses[b] \in BizRow
    BY Unfolded DEF LiveBiz
  <2>2. \A row \in BizRow : WithoutSeeder(row, u) \in BizRow
    BY DEF WithoutSeeder, BizRow
  <2>3. \A b \in BizId : (IF b \in LiveBiz THEN WithoutSeeder(businesses[b], u) ELSE businesses[b])
                           \in BizRow \cup {None, Gone}
    BY <2>1, <2>2 DEF TypeInv, TypeOK
  <2>4. businesses' = [b \in BizId |-> IF b \in LiveBiz THEN WithoutSeeder(businesses[b], u) ELSE businesses[b]]
    BY DEF Erase
  <2> QED BY <2>3, <2>4
<1>6. invites' \in [Invite -> InviteRow \cup {None, Gone}]
  BY DEF Erase, TypeInv, TypeOK
<1>7. tabs' \in [Tab -> TabState]
  <2>1. [tabs[t] EXCEPT !.session = None] \in TabState
    BY Unfolded DEF TabState
  <2>2. Loaded([tabs[t] EXCEPT !.session = None]) \in TabState
    BY <2>1, LoadedOK
  <2> QED BY <2>2 DEF Erase, TypeInv, TypeOK
<1>8. CallsFit'
  BY <1>1, Resting
<1>9. crashes' \in 0 .. MaxCrashes /\ orgs' \in SUBSET UserId /\ admitted' \in [Invite -> SUBSET UserId]
      /\ trials' \in [UserId -> {"running", "over", None}]
  BY <1>1 DEF TypeInv, TypeOK
<1> QED BY <1>2, <1>3, <1>4, <1>5, <1>6, <1>7, <1>8, <1>9, TypeFrom

LEMMA TrialEndsTypes == ASSUME TypeInv, NEW o \in UserId, TrialEnds(o) PROVE TypeInv'
<1>1. trials' \in [UserId -> {"running", "over", None}]
  BY DEF TrialEnds, TypeInv, TypeOK
<1> QED BY <1>1 DEF TrialEnds, TypeInv, TypeOK

LEMMA InviteLapsesTypes == ASSUME TypeInv, NEW i \in Invite, InviteLapses(i) PROVE TypeInv'
<1> DEFINE row == [invites[i] EXCEPT !.due = TRUE]
<1>1. /\ UNCHANGED <<users, identities, orgs, members, businesses, trials, tabs, calls, turn, crashes, admitted>>
      /\ invites[i] \in InviteRow /\ invites' = [invites EXCEPT ![i] = row]
  BY Unfolded DEF InviteLapses
<1>2. row \in InviteRow
  BY <1>1 DEF InviteRow
<1> HIDE DEF row
<1>3. invites' \in [Invite -> InviteRow \cup {None, Gone}] /\ InvitesStay
  BY <1>1, <1>2, Sentinels DEF TypeInv, TypeOK, InvitesStay
<1> QED BY <1>1, <1>3, Waiting, InvitesOnly

LEMMA CrashTypes == ASSUME TypeInv, Crash PROVE TypeInv'
<1>1. UNCHANGED <<Tables, tabs, admitted>> /\ crashes' \in 0 .. MaxCrashes
  <2>1. crashes \in 0 .. MaxCrashes /\ crashes < MaxCrashes /\ crashes' = crashes + 1 /\ MaxCrashes \in Nat
    BY TenancyAssumption DEF Crash, TypeInv, TypeOK
  <2> QED BY <2>1 DEF Crash
<1>2. calls' \in [Tab -> CallState] /\ \A t \in Tab : calls'[t] \in {IdleCall, calls[t]}
  BY IdleFits DEF Crash, TypeInv, TypeOK
<1>3. invites' = invites
  BY <1>1 DEF Tables
<1>4. CallsFit'
  BY <1>2, <1>3, IdleFits DEF CallsFit, TypeInv, Crash
<1> QED BY <1>1, <1>4 DEF TypeInv, TypeOK, CallsFit, Tables

LEMMA InitTypes == Init => TypeInv
<1> SUFFICES ASSUME Init PROVE TypeInv
  OBVIOUS
<1>1. \A t \in Tab : calls[t] = IdleCall
  BY DEF Init
<1>2. calls \in [Tab -> CallState]
  BY IdleFits DEF Init
<1>3. tabs \in [Tab -> TabState]
  BY NothingShown DEF Init, BlankTab, TabState
<1>4. crashes \in 0 .. MaxCrashes
  BY TenancyAssumption DEF Init
<1> QED BY <1>1, <1>2, <1>3, <1>4, IdleFits DEF Init, TypeInv, TypeOK

LEMMA TypeStep == TypeInv /\ Next => TypeInv'
<1> SUFFICES ASSUME TypeInv, Next PROVE TypeInv'
  OBVIOUS
<1>1. ASSUME NEW t \in Tab, SignIn(t) PROVE TypeInv'
  BY <1>1, RegisterTypes, OAuthTypes, LoginTypes, HashedTypes, InsertUserTypes, LinkTypes, AddOrgTypes,
     AddOwnerTypes, FindBusinessTypes, AddBusinessTypes, SeededTypes, StartTrialTypes, EnterTypes,
     LogoutTypes DEF SignIn
<1>2. ASSUME NEW t \in Tab, Page(t) PROVE TypeInv'
  BY <1>2, ReloadTypes, RefreshTypes, ListTypes, SwitchTypes DEF Page
<1>3. ASSUME NEW t \in Tab, Manage(t) PROVE TypeInv'
  BY <1>3, CreateBusinessTypes, DropBusinessTypes, TidyTypes, RenameTypes, DeleteBusinessTypes,
     CreateInviteTypes, ExpireInviteTypes, AcceptTypes, AdmitTypes, SpendTypes, RemoveMemberTypes,
     DeleteAccountTypes, EraseTypes DEF Manage
<1> QED BY <1>1, <1>2, <1>3, TrialEndsTypes, InviteLapsesTypes, CrashTypes DEF Next

LEMMA TypeKept == TypeInv /\ [Next]_vars => TypeInv'
<1>1. TypeInv /\ UNCHANGED vars => TypeInv'
  BY DEF TypeInv, TypeOK, vars, Tables, Fit
<1> QED BY <1>1, TypeStep

LEMMA Typed == Spec => []TypeInv
BY InitTypes, TypeKept, PTL DEF Spec

(* Tables, pages and handlers have their shape, for any people, tabs and     *)
(* bounds, on both backends and through crashes.                             *)
THEOREM TypeCorrect == Spec => []TypeOK
<1>1. TypeInv => TypeOK
  BY DEF TypeInv
<1> QED BY <1>1, Typed, PTL

-----------------------------------------------------------------------------
(* How a handler gets to a step, and what changes the tables.              *)

Alone(t) == \A s \in Tab \ {t} : calls'[s] = calls[s]

LEMMA Became ==
  ASSUME TypeInv, NEW t \in Tab, NEW call, Become(t, call)
  PROVE  calls'[t] = call /\ Alone(t)
BY DEF TypeInv, TypeOK, Become, Alone

LEMMA WentTo ==
  ASSUME TypeInv, NEW t \in Tab, NEW pc \in ServerPC, Goto(t, pc)
  PROVE  /\ Alone(t) /\ calls'[t].pc = pc
         /\ calls'[t].op = calls[t].op /\ calls'[t].who = calls[t].who
         /\ calls'[t].user = calls[t].user /\ calls'[t].org = calls[t].org
         /\ calls'[t].biz = calls[t].biz /\ calls'[t].inv = calls[t].inv
<1>1. calls'[t] = [calls[t] EXCEPT !.pc = pc] /\ Alone(t)
  BY Became DEF Goto
<1>2. calls[t] \in CallState
  BY Unfolded
<1> QED BY <1>1, <1>2, GoneTo

LEMMA Finished ==
  ASSUME TypeInv, NEW t \in Tab, Finish(t)
  PROVE  calls'[t] = IdleCall /\ Alone(t)
BY Became DEF Finish

(* The action that brings the handler of a tab to the step where it is next. *)
Arrives(t) ==
  \/ calls'[t] = IdleCall
  \/ calls'[t].pc \in {"hash", "create", "insert", "list", "stripe"}
  \/ calls'[t].pc = "link" /\ \E p \in Person : OAuth(t, p)
  \/ calls'[t].pc = "link" /\ \E pc \in {"insert", "create"} : InsertUser(t, pc)
  \/ calls'[t].pc = "org" /\ Link(t)
  \/ calls'[t].pc = "member" /\ AddOrg(t)
  \/ calls'[t].pc = "business" /\ AddOwner(t)
  \/ calls'[t].pc \in {"newBusiness", "cats"} /\ FindBusiness(t)
  \/ calls'[t].pc = "cats" /\ AddBusiness(t)
  \/ calls'[t].pc = "rules" /\ SeedCategories(t)
  \/ calls'[t].pc \in {"rules", "trial"} /\ SeedRules(t)
  \/ calls'[t].pc = "login" /\ StartTrial(t)
  \/ calls'[t].pc = "drop" /\ \E b \in BizId : DeleteBusiness(t, b)
  \/ calls'[t].pc = "admit" /\ \E i \in Invite : Accept(t, i)
  \/ calls'[t].pc = "spend" /\ Admit(t)

LEMMA SignInArrives ==
  ASSUME TypeInv, NEW t \in Tab, SignIn(t)
  PROVE  Alone(t) /\ (calls'[t] = calls[t] \/ Arrives(t))
<1>0. calls[t] \in CallState
  BY Unfolded
<1>1. ASSUME NEW p \in Person, Register(t, p) PROVE Alone(t) /\ Arrives(t)
  <2>1. Alone(t) /\ calls'[t] = [IdleCall EXCEPT !.pc = "hash", !.op = "register", !.who = p]
    BY <1>1, Became DEF Register
  <2> QED BY <2>1 DEF IdleCall, Arrives
<1>2. ASSUME NEW p \in Person, OAuth(t, p) PROVE Alone(t) /\ Arrives(t)
  <2> DEFINE call == [IdleCall EXCEPT !.op = "oauth", !.who = p]
  <2>1. CASE Become(t, [call EXCEPT !.pc = "create"])
    <3>1. Alone(t) /\ calls'[t] = [call EXCEPT !.pc = "create"]
      BY <2>1, Became
    <3> QED BY <3>1 DEF IdleCall, Arrives
  <2>2. ASSUME NEW u, Become(t, [call EXCEPT !.pc = "link", !.user = u]) PROVE Alone(t) /\ Arrives(t)
    <3>1. Alone(t) /\ calls'[t] = [call EXCEPT !.pc = "link", !.user = u]
      BY <2>2, Became
    <3> QED BY <1>2, <3>1 DEF IdleCall, Arrives
  <2> QED BY <1>2, <2>1, <2>2 DEF OAuth
<1>3. ASSUME NEW pc \in {"insert", "create"}, InsertUser(t, pc) PROVE Alone(t) /\ Arrives(t)
  <2>1. ASSUME NEW u, Become(t, [calls[t] EXCEPT !.pc = "link", !.user = u]) PROVE Alone(t) /\ Arrives(t)
    <3>1. Alone(t) /\ calls'[t] = [calls[t] EXCEPT !.pc = "link", !.user = u]
      BY <2>1, Became
    <3> QED BY <1>0, <1>3, <3>1 DEF CallState, Arrives
  <2> QED BY <1>3, <2>1, Finished DEF InsertUser, Arrives
<1>4. CASE FindBusiness(t)
  <2> DEFINE call == [calls[t] EXCEPT !.pc = "cats", !.biz = Min(Businesses(calls[t].user))]
  <2>1. CASE Become(t, call)
    <3>1. Alone(t) /\ calls'[t] = call
      BY <2>1, Became
    <3> QED BY <1>0, <1>4, <3>1 DEF CallState, Arrives
  <2>2. CASE Goto(t, "newBusiness")
    BY <1>4, <2>2, WentTo DEF Arrives, ServerPC
  <2> QED BY <1>4, <2>1, <2>2 DEF FindBusiness
<1>5. CASE AddBusiness(t)
  <2> DEFINE call == [calls[t] EXCEPT !.pc = "cats", !.biz = Min(NextBiz)]
  <2>1. Alone(t) /\ calls'[t] = call
    BY <1>5, Became DEF AddBusiness
  <2> QED BY <1>0, <1>5, <2>1 DEF CallState, Arrives
<1>6. CASE Hashed(t) \/ Link(t) \/ AddOrg(t) \/ AddOwner(t) \/ StartTrial(t)
  BY <1>6, WentTo, Finished DEF Hashed, Link, AddOrg, AddOwner, StartTrial, ServerPC, Arrives
<1>7. CASE SeedCategories(t) \/ SeedRules(t)
  <2>1. SeedCategories(t) => Goto(t, "rules") \/ Finish(t)
    BY DEF SeedCategories, Seed
  <2>2. SeedRules(t) => Goto(t, "rules") \/ Goto(t, "trial") \/ Finish(t)
    BY DEF SeedRules, Seed
  <2> QED BY <1>7, <2>1, <2>2, WentTo, Finished DEF ServerPC, Arrives
<1>8. CASE Enter(t)
  BY <1>8, Finished DEF Enter, Arrives
<1>9. ASSUME (\E p \in Person : Login(t, p)) \/ Logout(t) PROVE UNCHANGED calls
  BY <1>9 DEF Login, Logout
<1> QED BY <1>1, <1>2, <1>3, <1>4, <1>5, <1>6, <1>7, <1>8, <1>9 DEF SignIn, Alone

LEMMA PageArrives ==
  ASSUME TypeInv, NEW t \in Tab, Page(t)
  PROVE  Alone(t) /\ (calls'[t] = calls[t] \/ Arrives(t))
<1>1. CASE Become(t, [IdleCall EXCEPT !.pc = "list", !.op = "refresh", !.orgs = OrgsOf(tabs[t].session)])
  <2>1. Alone(t) /\ calls'[t] = [IdleCall EXCEPT !.pc = "list", !.op = "refresh", !.orgs = OrgsOf(tabs[t].session)]
    BY <1>1, Became
  <2> QED BY <2>1 DEF IdleCall, Arrives
<1>2. CASE List(t)
  BY <1>2, Finished DEF List, Arrives
<1> QED BY <1>1, <1>2 DEF Page, Reload, Switch, Refresh, Alone

LEMMA ManageArrives ==
  ASSUME TypeInv, NEW t \in Tab, Manage(t)
  PROVE  Alone(t) /\ (calls'[t] = calls[t] \/ Arrives(t))
<1>1. ASSUME NEW b \in BizId, DeleteBusiness(t, b) PROVE Alone(t) /\ Arrives(t)
  <2> DEFINE call == [IdleCall EXCEPT !.pc = "drop", !.op = "delete", !.org = OrgAt(t, tabs[t].header), !.biz = b]
  <2>1. Alone(t) /\ calls'[t] = call
    BY <1>1, Became DEF DeleteBusiness
  <2> QED BY <1>1, <2>1 DEF IdleCall, Arrives
<1>2. ASSUME NEW i \in Invite, Accept(t, i) PROVE Alone(t) /\ (calls'[t] = calls[t] \/ Arrives(t))
  <2> DEFINE call == [IdleCall EXCEPT !.pc = "admit", !.op = "accept", !.user = tabs[t].session,
                                      !.org = invites[i].org, !.inv = i]
  <2>1. CASE Become(t, call)
    <3>1. Alone(t) /\ calls'[t] = call
      BY <2>1, Became
    <3> QED BY <1>2, <3>1 DEF IdleCall, Arrives
  <2> QED BY <1>2, <2>1 DEF Accept, Alone
<1>3. CASE DeleteAccount(t)
  <2>1. Alone(t) /\ calls'[t] = [IdleCall EXCEPT !.pc = "stripe", !.op = "leave", !.user = tabs[t].session]
    BY <1>3, Became DEF DeleteAccount
  <2> QED BY <2>1 DEF IdleCall, Arrives
<1>4. CASE Admit(t)
  BY <1>4, WentTo, Finished DEF Admit, ServerPC, Arrives
<1>5. CASE DropBusiness(t) \/ Spend(t) \/ Erase(t)
  <2>1. Finish(t)
    BY <1>5 DEF DropBusiness, Spend, Erase
  <2> QED BY <2>1, Finished DEF Arrives
<1>6. ASSUME \/ CreateBusiness(t) \/ Tidy(t) \/ \E b \in BizId : Rename(t, b)
             \/ \E i \in Invite : CreateInvite(t, i) \/ ExpireInvite(t, i)
             \/ \E u \in UserId : RemoveMember(t, u)
      PROVE  UNCHANGED calls
  BY <1>6 DEF CreateBusiness, Tidy, Rename, CreateInvite, ExpireInvite, RemoveMember
<1> QED BY <1>1, <1>2, <1>3, <1>4, <1>5, <1>6 DEF Manage, Alone

LEMMA HowArrived ==
  ASSUME TypeInv, Next, NEW s \in Tab
  PROVE  calls'[s] = calls[s] \/ Arrives(s)
<1>1. ASSUME Crash PROVE calls'[s] = calls[s] \/ Arrives(s)
  BY <1>1 DEF Crash, Arrives
<1>2. (\E o \in UserId : TrialEnds(o)) \/ (\E i \in Invite : InviteLapses(i)) => UNCHANGED calls
  BY DEF TrialEnds, InviteLapses
<1> QED BY <1>1, <1>2, SignInArrives, PageArrives, ManageArrives DEF Next, Alone

-----------------------------------------------------------------------------
(* One person, one user.                                                   *)

LEMMA WhoChanges ==
  ASSUME Next
  PROVE  \/ UNCHANGED <<users, identities>>
         \/ \E t \in Tab : Link(t) \/ Erase(t) \/ \E pc \in {"insert", "create"} : InsertUser(t, pc)
<1>1. ASSUME NEW t \in Tab, SignIn(t)
      PROVE  \/ UNCHANGED <<users, identities>>
             \/ Link(t) \/ \E pc \in {"insert", "create"} : InsertUser(t, pc)
  BY <1>1 DEF SignIn, Register, OAuth, Login, Hashed, AddOrg, AddOwner, FindBusiness, AddBusiness,
     SeedCategories, SeedRules, Seed, StartTrial, Enter, Logout, Tables
<1>2. ASSUME NEW t \in Tab, Page(t) PROVE UNCHANGED <<users, identities>>
  BY <1>2 DEF Page, Reload, Refresh, List, Switch, Tables
<1>3. ASSUME NEW t \in Tab, Manage(t) PROVE UNCHANGED <<users, identities>> \/ Erase(t)
  BY <1>3 DEF Manage, CreateBusiness, DropBusiness, Tidy, Rename, DeleteBusiness, CreateInvite,
     ExpireInvite, Accept, Admit, Spend, RemoveMember, DeleteAccount, Tables
<1> QED BY <1>1, <1>2, <1>3 DEF Next, TrialEnds, InviteLapses, Crash, Tables

(* A handler about to link an identity does so for the user with its email,  *)
(* unless that user has been deleted.                                        *)
People ==
  \A t \in Tab : calls[t].pc = "link" =>
    /\ users[calls[t].user] # None
    /\ Live(calls[t].user) => users[calls[t].user].email = calls[t].who

PersonInv == TypeInv /\ OneUserPerPerson /\ People

LEMMA Inserted ==
  ASSUME TypeInv, NEW t \in Tab, NEW pc \in {"insert", "create"}, InsertUser(t, pc)
  PROVE  /\ UNCHANGED identities /\ Alone(t)
         /\ \/ UNCHANGED users /\ calls'[t] = IdleCall
            \/ /\ ~EmailTaken(calls[t].who) /\ calls'[t].who = calls[t].who /\ calls[t].who \in Person
               /\ calls'[t].user \in UserId /\ users[calls'[t].user] = None
               /\ users' = [users EXCEPT ![calls'[t].user] = [email |-> calls[t].who, local |-> pc = "insert"]]
<1>1. CASE Finish(t) /\ UNCHANGED users
  BY <1>1, Finished DEF InsertUser
<1>2. ASSUME NEW u \in UserId, ~EmailTaken(calls[t].who), users[u] = None,
             users' = [users EXCEPT ![u] = [email |-> calls[t].who, local |-> pc = "insert"]],
             Become(t, [calls[t] EXCEPT !.pc = "link", !.user = u])
      PROVE  /\ Alone(t) /\ calls'[t].who = calls[t].who /\ calls'[t].user = u /\ calls[t].who \in Person
  <2>1. Alone(t) /\ calls'[t] = [calls[t] EXCEPT !.pc = "link", !.user = u]
    BY <1>2, Became
  <2>2. calls[t] \in CallState /\ calls[t].who \in Person
    BY Unfolded DEF InsertUser, At, Fit
  <2> QED BY <2>1, <2>2 DEF CallState
<1> QED BY <1>1, <1>2 DEF InsertUser

LEMMA OnePersonKept ==
  ASSUME PersonInv, Next
  PROVE  OneUserPerPerson'
<1>0. TypeInv /\ OneUserPerPerson /\ People
  BY DEF PersonInv
<1>1. CASE UNCHANGED <<users, identities>>
  BY <1>0, <1>1 DEF OneUserPerPerson, Live
<1>2. ASSUME NEW t \in Tab, NEW pc \in {"insert", "create"}, InsertUser(t, pc)
      PROVE  OneUserPerPerson'
  <2>0. UNCHANGED identities
    BY <1>0, <1>2, Inserted
  <2>1. CASE UNCHANGED users
    BY <1>0, <2>0, <2>1 DEF OneUserPerPerson, Live
  <2>2. CASE users' # users
    <3>1. PICK u \in UserId :
            /\ ~EmailTaken(calls[t].who) /\ users[u] = None /\ UNCHANGED identities
            /\ users' = [users EXCEPT ![u] = [email |-> calls[t].who, local |-> pc = "insert"]]
      BY <1>0, <1>2, <2>2, Inserted
    <3>2. \A v \in UserId \ {u} : users'[v] = users[v]
      BY <1>0, <3>1 DEF TypeInv, TypeOK
    <3>3. users'[u].email = calls[t].who
      BY <1>0, <3>1 DEF TypeInv, TypeOK
    <3>4. \A v \in UserId \ {u} : Live(v)' => users'[v].email # calls[t].who
      BY <3>1, <3>2 DEF EmailTaken, Live
    <3>5. \A i \in DOMAIN identities : identities[i] # u
      BY <1>0, <3>1, Sentinels DEF OneUserPerPerson, Live
    <3> QED BY <1>0, <3>1, <3>2, <3>3, <3>4, <3>5 DEF OneUserPerPerson, Live
  <2> QED BY <2>1, <2>2
<1>3. ASSUME NEW t \in Tab, Link(t) PROVE OneUserPerPerson'
  <2>1. UNCHANGED users /\ calls[t].pc = "link" /\ calls[t].who \in Person
    BY <1>0, <1>3, Unfolded DEF Link, At, Fit, SettingUp
  <2>2. CASE UNCHANGED identities
    BY <1>0, <2>1, <2>2 DEF OneUserPerPerson, Live
  <2>3. CASE identities' # identities
    <3> DEFINE i == <<ProviderOf(calls[t].op), calls[t].who>>
    <3>1. Live(calls[t].user) /\ users[calls[t].user].email = calls[t].who
      BY <1>0, <1>3, <2>1, <2>3 DEF Link, People
    <3>2. identities' = [identities EXCEPT ![i] = IF @ = None THEN calls[t].user ELSE @]
      BY <1>3, <2>3 DEF Link
    <3>3. i[2] = calls[t].who
      OBVIOUS
    <3> HIDE DEF i
    <3>4. /\ DOMAIN identities' = DOMAIN identities
          /\ \A j \in DOMAIN identities \ {i} : identities'[j] = identities[j]
          /\ i \in DOMAIN identities => identities'[i] \in {identities[i], calls[t].user}
      <4>1. identities = [j \in DOMAIN identities |-> identities[j]]
        BY <1>0 DEF TypeInv, TypeOK
      <4> QED BY <3>2, <4>1
    <3>5. \A v \in UserId : Live(v)' = Live(v) /\ users'[v] = users[v]
      BY <2>1 DEF Live
    <3>6. ASSUME NEW j \in DOMAIN identities', identities'[j] # None
          PROVE  Live(identities[j])' /\ users'[identities'[j]].email = j[2]
      <4>1. PICK v : v = identities'[j]
        OBVIOUS
      <4>2. Live(v) /\ users[v].email = j[2]
        <5>1. CASE j = i /\ v = calls[t].user
          BY <3>1, <3>3, <5>1
        <5>2. CASE j \in DOMAIN identities /\ v = identities[j]
          BY <1>0, <3>6, <4>1, <5>2 DEF OneUserPerPerson
        <5> QED BY <3>4, <4>1, <5>1, <5>2
      <4>3. Live(v)' /\ users'[v].email = j[2]
        BY <3>5, <4>2 DEF Live
      <4> QED BY <4>1, <4>3
    <3>7. \A v, w \in UserId : Live(v)' /\ Live(w)' /\ users'[v].email = users'[w].email => v = w
      BY <1>0, <3>5 DEF OneUserPerPerson
    <3> QED BY <3>6, <3>7 DEF OneUserPerPerson
  <2> QED BY <2>2, <2>3
<1>4. ASSUME NEW t \in Tab, Erase(t) PROVE OneUserPerPerson'
  <2>1. PICK u \in UserId :
          /\ users' = [users EXCEPT ![u] = Gone]
          /\ identities' = [i \in DOMAIN identities |-> IF identities[i] = u THEN None ELSE identities[i]]
    BY <1>0, <1>4, Unfolded DEF Erase, At, Fit
  <2>2. users'[u] = Gone /\ \A v \in UserId \ {u} : users'[v] = users[v]
    BY <1>0, <2>1 DEF TypeInv, TypeOK
  <2>3. \A v \in UserId : Live(v)' => Live(v) /\ v # u /\ users'[v] = users[v]
    BY <2>2 DEF Live
  <2>4. \A v \in UserId \ {u} : Live(v) => Live(v)'
    BY <2>2 DEF Live
  <2>5. \A i \in DOMAIN identities' : identities'[i] # None =>
          i \in DOMAIN identities /\ identities'[i] = identities[i] /\ identities[i] # u
    BY <2>1
  <2>6. \A v, w \in UserId : Live(v)' /\ Live(w)' /\ users'[v].email = users'[w].email => v = w
    BY <1>0, <2>3 DEF OneUserPerPerson
  <2>7. ASSUME NEW i \in DOMAIN identities', identities'[i] # None
        PROVE  Live(identities[i])' /\ users'[identities'[i]].email = i[2]
    <3>1. PICK v : v = identities'[i]
      OBVIOUS
    <3>2. v # u /\ Live(v) /\ users[v].email = i[2]
      BY <1>0, <2>5, <2>7, <3>1 DEF OneUserPerPerson
    <3>3. v \in UserId \ {u}
      BY <3>2 DEF Live
    <3>4. Live(v)' /\ users'[v].email = i[2]
      BY <2>2, <2>4, <3>2, <3>3
    <3> QED BY <3>1, <3>4
  <2> QED BY <2>6, <2>7 DEF OneUserPerPerson
<1> QED BY <1>1, <1>2, <1>3, <1>4, WhoChanges

LEMMA PeopleKept ==
  ASSUME PersonInv, Next
  PROVE  People'
<1>0. TypeInv /\ OneUserPerPerson /\ People
  BY DEF PersonInv
<1> SUFFICES ASSUME NEW s \in Tab, calls'[s].pc = "link"
             PROVE  /\ users'[calls'[s].user] # None
                    /\ Live(calls[s].user)' => users'[calls'[s].user].email = calls'[s].who
  BY DEF People
<1>1. CASE calls'[s] = calls[s]
  <2>1. users[calls[s].user] # None /\ calls[s].user \in UserId
        /\ (Live(calls[s].user) => users[calls[s].user].email = calls[s].who)
    BY <1>0, <1>1, Unfolded DEF People, Fit, SettingUp
  <2>2. users'[calls[s].user] \in {users[calls[s].user], Gone}
    <3>1. ASSUME NEW t \in Tab, NEW pc \in {"insert", "create"}, InsertUser(t, pc)
          PROVE  users'[calls[s].user] = users[calls[s].user]
      <4>1. CASE UNCHANGED users
        BY <4>1
      <4>2. ASSUME NEW u \in UserId, NEW row, users[u] = None, users' = [users EXCEPT ![u] = row]
            PROVE  users'[calls[s].user] = users[calls[s].user]
        BY <2>1, <4>2
      <4> QED BY <1>0, <3>1, <4>1, <4>2, Inserted
    <3>2. ASSUME NEW t \in Tab, Erase(t) PROVE users'[calls[s].user] \in {users[calls[s].user], Gone}
      BY <1>0, <2>1, <3>2 DEF Erase, TypeInv, TypeOK
    <3>3. ASSUME NEW t \in Tab, Link(t) PROVE UNCHANGED users
      BY <3>3 DEF Link
    <3> QED BY <3>1, <3>2, <3>3, WhoChanges
  <2> QED BY <1>1, <2>1, <2>2, Sentinels DEF Live
<1>2. ASSUME NEW pc \in {"insert", "create"}, InsertUser(s, pc)
      PROVE  /\ users'[calls'[s].user] # None
             /\ Live(calls[s].user)' => users'[calls'[s].user].email = calls'[s].who
  <2>1. calls'[s] # IdleCall
    BY DEF IdleCall
  <2>2. /\ calls'[s].user \in UserId /\ calls'[s].who = calls[s].who /\ calls[s].who \in Person
        /\ users' = [users EXCEPT ![calls'[s].user] = [email |-> calls[s].who, local |-> pc = "insert"]]
    BY <1>0, <1>2, <2>1, Inserted
  <2>3. users'[calls'[s].user] = [email |-> calls[s].who, local |-> pc = "insert"]
    BY <1>0, <2>2 DEF TypeInv, TypeOK
  <2>4. [email |-> calls[s].who, local |-> pc = "insert"] \in UserRow
    BY <2>2 DEF UserRow
  <2> QED BY <2>2, <2>3, <2>4, Sentinels
<1>3. ASSUME NEW p \in Person, OAuth(s, p)
      PROVE  /\ users'[calls'[s].user] # None
             /\ Live(calls[s].user)' => users'[calls'[s].user].email = calls'[s].who
  <2> DEFINE call == [IdleCall EXCEPT !.op = "oauth", !.who = p]
  <2>1. \/ Become(s, [call EXCEPT !.pc = "create"])
        \/ \E u \in FoundUser(p) : Become(s, [call EXCEPT !.pc = "link", !.user = u])
    BY <1>3 DEF OAuth
  <2>2. [call EXCEPT !.pc = "create"].pc = "create"
    BY DEF IdleCall
  <2>3. PICK u \in FoundUser(p) : calls'[s] = [call EXCEPT !.pc = "link", !.user = u]
    BY <1>0, <2>1, <2>2, Became
  <2>4. calls'[s].user = u /\ calls'[s].who = p
    BY <2>3 DEF IdleCall
  <2>5. Live(u) /\ users[u].email = p
    <3>1. <<"google", p>> \in DOMAIN identities /\ <<"google", p>>[2] = p
      BY <1>0 DEF TypeInv, TypeOK, Provider
    <3> QED BY <1>0, <2>3, <3>1 DEF FoundUser, OneUserPerPerson
  <2>6. UNCHANGED users
    BY <1>3 DEF OAuth, Tables
  <2> QED BY <2>4, <2>5, <2>6 DEF Live
<1>4. calls'[s] # IdleCall
  BY DEF IdleCall
<1> QED BY <1>0, <1>1, <1>2, <1>3, <1>4, HowArrived DEF Arrives

(* A person is one user: no two users share an email, and both ways of      *)
(* signing in lead to the user with that email, on both backends, whatever   *)
(* sign-ups, sign-ins and deletions are under way or cut short.              *)
THEOREM OnePerson == Spec => []OneUserPerPerson
<1>1. Init => PersonInv
  <2> SUFFICES ASSUME Init PROVE OneUserPerPerson /\ People
    BY InitTypes DEF PersonInv
  <2>1. \A t \in Tab : calls[t].pc = "idle"
    BY DEF Init, IdleCall
  <2> QED BY <2>1 DEF Init, OneUserPerPerson, People, Live
<1>2. PersonInv /\ [Next]_vars => PersonInv'
  <2>1. PersonInv /\ Next => PersonInv'
    BY TypeStep, OnePersonKept, PeopleKept DEF PersonInv
  <2>2. PersonInv /\ UNCHANGED vars => PersonInv'
    <3>1. PersonInv /\ UNCHANGED vars => TypeInv'
      BY TypeKept DEF PersonInv
    <3> QED BY <3>1 DEF PersonInv, OneUserPerPerson, People, Live, vars, Tables
  <2> QED BY <2>1, <2>2
<1>3. PersonInv => OneUserPerPerson
  BY DEF PersonInv
<1> QED BY <1>1, <1>2, <1>3, PTL DEF Spec

-----------------------------------------------------------------------------
(* What a page shows. Businesses are never forgotten and never change their *)
(* organization, so a page that was right stays right until it asks again.   *)

Fine(tab, rows) ==
  /\ {tab.header, tab.biz} \ {None} \subseteq {b \in BizId : rows[b] # None}
  /\ DOMAIN tab.shown \subseteq {b \in BizId : rows[b] # None}
  /\ tab.biz # None /\ rows[tab.biz] \notin {None, Gone} /\ tab.org # None =>
       rows[tab.biz].org = tab.org

PageInv == TypeInv /\ \A t \in Tab : Fine(tabs[t], businesses)

(* What any step does to a business that was ever made. *)
Stays(b) ==
  /\ businesses'[b] # None
  /\ businesses'[b] \notin {None, Gone} =>
       businesses[b] \notin {None, Gone} /\ businesses'[b].org = businesses[b].org

LEMMA WhoChangesBusinesses ==
  ASSUME Next
  PROVE  \/ UNCHANGED businesses
         \/ \E t \in Tab :
              \/ AddBusiness(t) \/ SeedCategories(t) \/ SeedRules(t) \/ CreateBusiness(t)
              \/ DropBusiness(t) \/ Tidy(t) \/ Erase(t) \/ \E b \in BizId : Rename(t, b)
<1>1. ASSUME NEW t \in Tab, SignIn(t)
      PROVE  UNCHANGED businesses \/ AddBusiness(t) \/ SeedCategories(t) \/ SeedRules(t)
  BY <1>1 DEF SignIn, Register, OAuth, Login, Hashed, InsertUser, Link, AddOrg, AddOwner, FindBusiness,
     StartTrial, Enter, Logout, Tables
<1>2. ASSUME NEW t \in Tab, Page(t) PROVE UNCHANGED businesses
  BY <1>2 DEF Page, Reload, Refresh, List, Switch, Tables
<1>3. ASSUME NEW t \in Tab, Manage(t)
      PROVE  \/ UNCHANGED businesses \/ CreateBusiness(t) \/ DropBusiness(t) \/ Tidy(t) \/ Erase(t)
             \/ \E b \in BizId : Rename(t, b)
  BY <1>3 DEF Manage, DeleteBusiness, CreateInvite, ExpireInvite, Accept, Admit, Spend, RemoveMember,
     DeleteAccount, Tables
<1> QED BY <1>1, <1>2, <1>3 DEF Next, TrialEnds, InviteLapses, Crash, Tables

(* One business is made, changed within its organization, or dropped.       *)
Kept(b, row) == businesses[b] \in BizRow /\ row \in BizRow /\ row.org = businesses[b].org
OneChanges(b, row) == b \in BizId /\ businesses' = [businesses EXCEPT ![b] = row]

LEMMA AddBusinessOne ==
  ASSUME TypeInv, NEW t \in Tab, AddBusiness(t)
  PROVE  \E b \in NextBiz : OneChanges(b, [org |-> calls[t].user, name |-> Placeholder(calls[t].op),
                                           cat |-> None, rule |-> None])
BY LeastBusiness DEF AddBusiness, NextBiz, OneChanges

LEMMA CreateBusinessOne ==
  ASSUME TypeInv, NEW t \in Tab, CreateBusiness(t)
  PROVE  \E b \in NextBiz : OneChanges(b, [org |-> OrgAt(t, tabs[t].header), name |-> "Acme",
                                           cat |-> tabs[t].session, rule |-> tabs[t].session])
<1>1. Min(NextBiz) \in NextBiz
  BY LeastBusiness DEF CreateBusiness, NextBiz
<1> QED BY <1>1 DEF CreateBusiness, SetBusiness, NextBiz, OneChanges

LEMMA SeededOne ==
  ASSUME TypeInv, NEW t \in Tab, SeedCategories(t) \/ SeedRules(t)
  PROVE  \/ UNCHANGED businesses /\ Finish(t)
         \/ /\ calls[t].biz \in LiveBiz /\ Live(calls[t].user) /\ calls[t].user \in UserId
            /\ \E row : /\ OneChanges(calls[t].biz, row) /\ Kept(calls[t].biz, row)
                        /\ \/ SeedCategories(t) /\ row = WithCategories(businesses[calls[t].biz], calls[t].user)
                           \/ SeedRules(t) /\ row = WithRules(businesses[calls[t].biz], calls[t].user)
<1> DEFINE b == calls[t].biz  u == calls[t].user
<1>1. At(t, "cats") \/ At(t, "rules")
  BY DEF SeedCategories, SeedRules, Seed
<1>2. u \in UserId
  BY <1>1, Unfolded DEF At, Fit, SettingUp
<1>3. b \in LiveBiz => b \in BizId /\ businesses[b] \in BizRow
  BY Unfolded DEF LiveBiz
<1>4. b \in LiveBiz => Kept(b, WithCategories(businesses[b], u)) /\ Kept(b, WithRules(businesses[b], u))
  BY <1>2, <1>3 DEF WithCategories, WithRules, BizRow, Kept
<1>5. ASSUME SeedCategories(t), ~(UNCHANGED businesses /\ Finish(t))
      PROVE  b \in LiveBiz /\ Live(u) /\ OneChanges(b, WithCategories(businesses[b], u))
  BY <1>3, <1>5 DEF SeedCategories, Seed, OneChanges
<1>6. ASSUME SeedRules(t), ~(UNCHANGED businesses /\ Finish(t))
      PROVE  b \in LiveBiz /\ Live(u) /\ OneChanges(b, WithRules(businesses[b], u))
  BY <1>3, <1>6 DEF SeedRules, Seed, OneChanges
<1> HIDE DEF b, u
<1>7. CASE SeedCategories(t)
  BY <1>2, <1>4, <1>5, <1>7 DEF b, u
<1>8. CASE SeedRules(t)
  BY <1>2, <1>4, <1>6, <1>8 DEF b, u
<1> QED BY <1>7, <1>8

LEMMA RenameOne ==
  ASSUME TypeInv, NEW t \in Tab, NEW b \in BizId, Rename(t, b)
  PROVE  \E row : /\ OneChanges(b, row) /\ Kept(b, row)
                  /\ row.cat = businesses[b].cat /\ row.rule = businesses[b].rule
<1> DEFINE row == [businesses[b] EXCEPT !.name = "Acme"]
<1>1. businesses[b] \in BizRow /\ OneChanges(b, row)
  BY Unfolded DEF Rename, SetBusiness, Businesses, OneChanges
<1>2. Kept(b, row) /\ row.cat = businesses[b].cat /\ row.rule = businesses[b].rule
  BY <1>1 DEF Kept, BizRow, Name
<1> QED BY <1>1, <1>2

LEMMA TidyOne ==
  ASSUME TypeInv, NEW t \in Tab, Tidy(t)
  PROVE  \E row : OneChanges(Context(t, tabs[t].header), row) /\ Kept(Context(t, tabs[t].header), row)
<1> DEFINE b == Context(t, tabs[t].header)
           bare == [businesses[b] EXCEPT !.rule = None]
           empty == [businesses[b] EXCEPT !.cat = None, !.rule = None]
<1>1. b # 0 /\ tabs[t].header \in BizId \cup {None}
  BY Unfolded DEF Tidy, TabState
<1>2. b \in BizId /\ businesses[b] \in BizRow
  BY <1>1, ContextOK, Unfolded DEF LiveBiz
<1>3. Kept(b, bare) /\ Kept(b, empty)
  BY <1>2 DEF Kept, BizRow
<1>4. OneChanges(b, bare) \/ OneChanges(b, empty)
  BY <1>2 DEF Tidy, SetBusiness, OneChanges
<1> HIDE DEF b, bare, empty
<1> QED BY <1>3, <1>4 DEF b

LEMMA ErasedRows ==
  ASSUME TypeInv, NEW t \in Tab, Erase(t), NEW b \in BizId
  PROVE  \/ businesses'[b] = businesses[b]
         \/ businesses[b] \in BizRow /\ businesses'[b] = WithoutSeeder(businesses[b], calls[t].user)
            /\ Kept(b, businesses'[b])
<1>1. CASE b \in LiveBiz
  <2>1. businesses[b] \in BizRow /\ calls[t].user \in UserId
    BY <1>1, Unfolded DEF Erase, At, Fit
  <2>2. businesses'[b] = WithoutSeeder(businesses[b], calls[t].user)
    BY <1>1 DEF Erase
  <2>3. WithoutSeeder(businesses[b], calls[t].user) \in BizRow
        /\ WithoutSeeder(businesses[b], calls[t].user).org = businesses[b].org
    BY <2>1 DEF WithoutSeeder, BizRow
  <2> QED BY <2>1, <2>2, <2>3 DEF Kept
<1>2. CASE b \notin LiveBiz
  BY <1>2 DEF Erase
<1> QED BY <1>1, <1>2

LEMMA DroppedOne ==
  ASSUME TypeInv, NEW t \in Tab, DropBusiness(t)
  PROVE  /\ Finish(t)
         /\ \/ UNCHANGED businesses
            \/ calls[t].biz \in Businesses(calls[t].org) /\ OneChanges(calls[t].biz, Gone)
BY DEF DropBusiness, SetBusiness, Businesses, LiveBiz, OneChanges

LEMMA BusinessStays ==
  ASSUME TypeInv, Next, NEW b \in BizId, businesses[b] # None
  PROVE  Stays(b)
<1>1. UNCHANGED businesses => Stays(b)
  BY DEF Stays
<1>2. ASSUME NEW c, NEW row, OneChanges(c, row), Kept(c, row) PROVE Stays(b)
  BY <1>2, Sentinels DEF OneChanges, Kept, Stays, TypeInv, TypeOK
<1>3. ASSUME NEW c \in NextBiz, NEW row, OneChanges(c, row) PROVE Stays(b)
  BY <1>3 DEF OneChanges, NextBiz, Stays, TypeInv, TypeOK
<1>4. ASSUME NEW c, OneChanges(c, Gone) PROVE Stays(b)
  BY <1>4, Sentinels DEF OneChanges, Stays, TypeInv, TypeOK
<1>5. ASSUME NEW t \in Tab, Erase(t) PROVE Stays(b)
  BY <1>5, ErasedRows, Sentinels DEF Stays, Kept
<1>6. ASSUME NEW t \in Tab, AddBusiness(t) \/ CreateBusiness(t) PROVE Stays(b)
  BY <1>3, <1>6, AddBusinessOne, CreateBusinessOne
<1>7. ASSUME NEW t \in Tab, SeedCategories(t) \/ SeedRules(t) PROVE Stays(b)
  BY <1>1, <1>2, <1>7, SeededOne
<1>8. ASSUME NEW t \in Tab, Tidy(t) \/ DropBusiness(t) PROVE Stays(b)
  BY <1>1, <1>2, <1>4, <1>8, TidyOne, DroppedOne
<1>9. ASSUME NEW t \in Tab, NEW c \in BizId, Rename(t, c) PROVE Stays(b)
  BY <1>2, <1>9, RenameOne
<1> QED BY <1>1, <1>5, <1>6, <1>7, <1>8, <1>9, WhoChangesBusinesses

LEMMA LoadedFine ==
  ASSUME NEW tab \in TabState, NEW rows, Fine(tab, rows)
  PROVE  Fine(Loaded(tab), rows) /\ Fine(BlankTab, rows)
BY NothingShown DEF Fine, Loaded, BlankTab, TabState

LEMMA SessionFine ==
  ASSUME NEW tab \in TabState, NEW rows, Fine(tab, rows), NEW u \in UserId \cup {None}
  PROVE  Fine([tab EXCEPT !.session = u], rows) /\ [tab EXCEPT !.session = u] \in TabState
BY DEF Fine, TabState

LEMMA PickedFine ==
  ASSUME TypeInv, NEW tab \in TabState, NEW org \in UserId \cup {None}, NEW S \in SUBSET LiveBiz,
         NEW shown \in [S -> Name]
  PROVE  Fine(Picked(tab, org, shown), businesses)
<1> DEFINE page == Picked(tab, org, shown)
<1>1. /\ page.header \in S \cup {None} /\ page.shown = shown /\ page.biz = page.header
      /\ page.header # None => page.org = businesses[page.header].org
  BY PickedOK
<1>2. DOMAIN shown = S /\ \A b \in S : b \in BizId /\ businesses[b] # None
  BY DEF LiveBiz
<1> HIDE DEF page
<1> QED BY <1>1, <1>2 DEF Fine, page

(* What a step makes of a page is right for the businesses before the step. *)
LEMMA PagesFine ==
  ASSUME PageInv, Next, NEW s \in Tab
  PROVE  Fine(tabs'[s], businesses)
<1>0. TypeInv /\ \A t \in Tab : tabs[t] \in TabState /\ Fine(tabs[t], businesses)
  BY Unfolded DEF PageInv
<1>1. ASSUME NEW t \in Tab, NEW page, tabs' = [tabs EXCEPT ![t] = page], Fine(page, businesses)
      PROVE  Fine(tabs'[s], businesses)
  BY <1>0, <1>1 DEF TypeInv, TypeOK
<1>2. UNCHANGED tabs => Fine(tabs'[s], businesses)
  BY <1>0
<1>3. ASSUME NEW t \in Tab, Enter(t) PROVE Fine(tabs'[s], businesses)
  <2> DEFINE in == [tabs[t] EXCEPT !.session = calls[t].user]
             fresh == [BlankTab EXCEPT !.session = in.session, !.header = in.header, !.biz = in.header]
  <2>1. calls[t].user \in UserId
    BY <1>0, <1>3, Unfolded DEF Enter, At, Fit, SettingUp
  <2>2. Fine(in, businesses) /\ in \in TabState
    BY <1>0, <2>1, SessionFine
  <2>3. tabs' = [tabs EXCEPT ![t] = IF calls[t].op = "register" THEN in ELSE fresh]
    BY <1>3 DEF Enter
  <2> HIDE DEF in
  <2>4. Fine(fresh, businesses)
    BY <2>2, NothingShown DEF Fine, BlankTab
  <2> HIDE DEF fresh
  <2> QED BY <1>1, <2>2, <2>3, <2>4
<1>4. ASSUME NEW t \in Tab, NEW p \in Person, Login(t, p) PROVE Fine(tabs'[s], businesses)
  <2>1. PICK u \in UserId : tabs' = [tabs EXCEPT ![t] = [tabs[t] EXCEPT !.session = u]]
    BY <1>4 DEF Login
  <2>2. Fine([tabs[t] EXCEPT !.session = u], businesses)
    BY <1>0, SessionFine
  <2> QED BY <1>1, <2>1, <2>2
<1>5. ASSUME NEW t \in Tab, Logout(t) \/ Reload(t) PROVE Fine(tabs'[s], businesses)
  <2>1. Fine(Loaded(tabs[t]), businesses) /\ Fine(BlankTab, businesses)
    BY <1>0, LoadedFine
  <2>2. tabs' = [tabs EXCEPT ![t] = BlankTab] \/ tabs' = [tabs EXCEPT ![t] = Loaded(tabs[t])]
    BY <1>5 DEF Logout, Reload
  <2> QED BY <1>1, <2>1, <2>2
<1>6. ASSUME NEW t \in Tab, NEW b \in BizId, Switch(t, b) PROVE Fine(tabs'[s], businesses)
  <2> DEFINE chosen == [tabs[t] EXCEPT !.header = b]
  <2>1. b \in DOMAIN tabs[t].shown /\ tabs' = [tabs EXCEPT ![t] = Loaded(chosen)]
    BY <1>6 DEF Switch
  <2>2. chosen \in TabState /\ Fine(chosen, businesses)
    BY <1>0, <2>1 DEF Fine, TabState
  <2> HIDE DEF chosen
  <2>3. Fine(Loaded(chosen), businesses)
    BY <2>2, LoadedFine
  <2> QED BY <1>1, <2>1, <2>3
<1>7. ASSUME NEW t \in Tab, Refresh(t) PROVE Fine(tabs'[s], businesses)
  <2>1. CASE tabs' = [tabs EXCEPT ![t].biz = None, ![t].org = None, ![t].shown = Nothing]
    <3> DEFINE page == [tabs[t] EXCEPT !.biz = None, !.org = None, !.shown = Nothing]
    <3>1. Fine(page, businesses)
      BY <1>0, NothingShown DEF Fine, TabState
    <3>2. tabs' = [tabs EXCEPT ![t] = page]
      BY <1>0, <2>1 DEF TypeInv, TypeOK
    <3> HIDE DEF page
    <3> QED BY <1>1, <3>1, <3>2
  <2>2. CASE tabs' = [tabs EXCEPT ![t] = Picked(@, None, Nothing)]
    <3>1. Nothing \in [{} -> Name]
      BY DEF Nothing
    <3>2. Fine(Picked(tabs[t], None, Nothing), businesses)
      BY <1>0, <3>1, PickedFine
    <3> QED BY <1>1, <2>2, <3>2
  <2> QED BY <1>2, <1>7, <2>1, <2>2 DEF Refresh
<1>8. ASSUME NEW t \in Tab, List(t) PROVE Fine(tabs'[s], businesses)
  <2>1. PICK o \in calls[t].orgs : tabs' = [tabs EXCEPT ![t] = Picked(tabs[t], o, Listed(t))]
    BY <1>8 DEF List
  <2>2. o \in UserId
    BY <1>0, Unfolded DEF CallState
  <2>3. Fine(Picked(tabs[t], o, Listed(t)), businesses)
    BY <1>0, <2>2, ListedOK, PickedFine
  <2> QED BY <1>1, <2>1, <2>3
<1>9. ASSUME NEW t \in Tab, Erase(t) PROVE Fine(tabs'[s], businesses)
  <2> DEFINE out == [tabs[t] EXCEPT !.session = None]
  <2>1. out \in TabState /\ Fine(out, businesses)
    BY <1>0, SessionFine
  <2>2. tabs' = [tabs EXCEPT ![t] = Loaded(out)]
    BY <1>9 DEF Erase
  <2> HIDE DEF out
  <2> QED BY <1>1, <2>1, <2>2, LoadedFine
<1>10. ASSUME NEW t \in Tab, SignIn(t) PROVE Fine(tabs'[s], businesses)
  <2>1. \/ UNCHANGED tabs \/ Enter(t) \/ Logout(t) \/ \E p \in Person : Login(t, p)
    BY <1>10 DEF SignIn, Register, OAuth, Hashed, InsertUser, Link, AddOrg, AddOwner, FindBusiness,
       AddBusiness, SeedCategories, SeedRules, Seed, StartTrial
  <2> QED BY <1>2, <1>3, <1>4, <1>5, <2>1
<1>11. ASSUME NEW t \in Tab, Page(t) PROVE Fine(tabs'[s], businesses)
  BY <1>5, <1>6, <1>7, <1>8, <1>11 DEF Page
<1>12. ASSUME NEW t \in Tab, Manage(t) PROVE Fine(tabs'[s], businesses)
  <2>1. UNCHANGED tabs \/ Erase(t)
    BY <1>12 DEF Manage, CreateBusiness, DropBusiness, Tidy, Rename, DeleteBusiness, CreateInvite,
       ExpireInvite, Accept, Admit, Spend, RemoveMember, DeleteAccount
  <2> QED BY <1>2, <1>9, <2>1
<1> QED BY <1>2, <1>10, <1>11, <1>12 DEF Next, TrialEnds, InviteLapses, Crash

LEMMA PageKept == ASSUME PageInv, Next PROVE PageInv'
<1>1. TypeInv /\ TypeInv'
  BY TypeStep DEF PageInv
<1>2. ASSUME NEW s \in Tab PROVE Fine(tabs'[s], businesses')
  <2>1. Fine(tabs'[s], businesses) /\ tabs'[s] \in TabState
    BY <1>1, PagesFine, Unfolded DEF TypeInv, TypeOK
  <2>2. \A b \in BizId : businesses[b] # None => Stays(b)
    BY <1>1, BusinessStays
  <2>3. tabs'[s].biz # None => tabs'[s].biz \in BizId /\ businesses[tabs'[s].biz] # None
    BY <2>1 DEF Fine
  <2> QED BY <2>1, <2>2, <2>3 DEF Fine, Stays
<1> QED BY <1>1, <1>2 DEF PageInv

(* The organization that a page shows is that of the business which its      *)
(* requests work on, for any people, tabs and businesses, on both backends,  *)
(* whatever is created, deleted or lost meanwhile.                           *)
THEOREM PageIsRight == Spec => []PageShowsItsOrg
<1>1. Init => PageInv
  <2>1. Init => \A t \in Tab : Fine(tabs[t], businesses)
    BY NothingShown DEF Init, BlankTab, Fine
  <2> QED BY <2>1, InitTypes DEF PageInv
<1>2. PageInv /\ [Next]_vars => PageInv'
  <2>1. PageInv /\ UNCHANGED vars => PageInv'
    <3>1. PageInv /\ UNCHANGED vars => TypeInv'
      BY TypeKept DEF PageInv
    <3> QED BY <3>1 DEF PageInv, Fine, vars, Tables
  <2> QED BY <2>1, PageKept
<1>3. PageInv => PageShowsItsOrg
  BY DEF PageInv, Fine, PageShowsItsOrg, LiveBiz
<1> QED BY <1>1, <1>2, <1>3, PTL DEF Spec

-----------------------------------------------------------------------------
(* One event loop: a handler that is between two statements has the turn.  *)

Turns == \A t \in Tab : calls[t].pc \notin Open => turn = t

SerialInv == TypeInv /\ Turns

(* A step of a tab is taken while no other tab's handler has the turn. *)
Acts(t) == turn \in {None, t} /\ (UNCHANGED <<calls, turn>> \/ \E call : Become(t, call))

LEMMA TabActs ==
  ASSUME NEW t \in Tab, SignIn(t) \/ Page(t) \/ Manage(t)
  PROVE  Acts(t)
<1>1. Page(t) => Acts(t)
  BY DEF Page, Reload, Refresh, List, Switch, Idle, At, Finish, Acts
<1>2. Manage(t) => Acts(t)
  BY DEF Manage, CreateBusiness, DropBusiness, Tidy, Rename, DeleteBusiness, CreateInvite, ExpireInvite,
     Accept, Admit, Spend, RemoveMember, DeleteAccount, Erase, Idle, At, Goto, Finish, Acts
<1>3. ASSUME NEW p \in Person, Register(t, p) \/ OAuth(t, p) \/ Login(t, p) PROVE Acts(t)
  BY <1>3 DEF Register, OAuth, Login, Idle, At, Acts
<1>4. ASSUME NEW pc, InsertUser(t, pc) PROVE Acts(t)
  BY <1>4 DEF InsertUser, At, Finish, Acts
<1>5. Hashed(t) \/ Link(t) \/ AddOrg(t) \/ AddOwner(t) \/ FindBusiness(t) \/ AddBusiness(t) => Acts(t)
  BY DEF Hashed, Link, AddOrg, AddOwner, FindBusiness, AddBusiness, At, Goto, Finish, Acts
<1>6. SeedCategories(t) \/ SeedRules(t) \/ StartTrial(t) \/ Enter(t) \/ Logout(t) => Acts(t)
  BY DEF SeedCategories, SeedRules, Seed, StartTrial, Enter, Logout, Idle, At, Goto, Finish, Acts
<1> QED BY <1>1, <1>2, <1>3, <1>4, <1>5, <1>6 DEF SignIn

LEMMA OnlyOne ==
  ASSUME SerialInv, NEW t \in Tab, Acts(t), NEW s \in Tab \ {t}
  PROVE  calls[s].pc \in Open
BY Sentinels DEF SerialInv, Turns, Acts

LEMMA TurnsKept ==
  ASSUME Serial, SerialInv, Next
  PROVE  Turns'
<1>1. ASSUME NEW t \in Tab, Acts(t) PROVE Turns'
  <2>1. CASE UNCHANGED <<calls, turn>>
    BY <2>1 DEF SerialInv, Turns
  <2>2. ASSUME NEW call, Become(t, call) PROVE Turns'
    <3>1. calls'[t] = call /\ Alone(t)
      BY <2>2, Became DEF SerialInv
    <3>2. call.pc \notin Open => turn' = t
      BY <2>2 DEF Become
    <3>3. \A s \in Tab \ {t} : calls'[s].pc \in Open
      BY <1>1, <3>1, OnlyOne DEF Alone
    <3> QED BY <3>1, <3>2, <3>3 DEF Turns
  <2> QED BY <1>1, <2>1, <2>2 DEF Acts
<1>2. CASE Crash
  <2>1. \A t \in Tab : calls[t] \in CallState
    BY Unfolded DEF SerialInv
  <2>2. \A t \in Tab : calls'[t].pc \in Open
    BY <1>2, <2>1 DEF Crash, IdleCall, CallState, Open
  <2> QED BY <2>2 DEF Turns
<1>3. CASE UNCHANGED <<calls, turn>>
  BY <1>3 DEF SerialInv, Turns
<1> QED BY <1>1, <1>2, <1>3, TabActs DEF Next, TrialEnds, InviteLapses

LEMMA SerialCorrect == ASSUME Serial PROVE Spec => []SerialInv
<1>1. Init => SerialInv
  <2>1. Init => Turns
    BY DEF Init, Turns, IdleCall, Open
  <2> QED BY <2>1, InitTypes DEF SerialInv
<1>2. SerialInv /\ [Next]_vars => SerialInv'
  <2>1. SerialInv /\ Next => SerialInv'
    BY TypeStep, TurnsKept DEF SerialInv
  <2>2. SerialInv /\ UNCHANGED vars => SerialInv'
    BY TypeKept DEF SerialInv, Turns, vars
  <2> QED BY <2>1, <2>2
<1> QED BY <1>1, <1>2, PTL DEF Spec

(* A handler between two statements moves only by its own steps: any other   *)
(* step leaves it and what it relies on alone.                               *)
Elsewhere(s) ==
  \/ \E o \in UserId : TrialEnds(o)
  \/ \E i \in Invite : InviteLapses(i)

LEMMA WhoMoves ==
  ASSUME SerialInv, Next, NEW s \in Tab, calls[s].pc \notin Open
  PROVE  \/ Crash /\ calls'[s] = IdleCall
         \/ UNCHANGED calls /\ Elsewhere(s)
         \/ SignIn(s) \/ Page(s) \/ Manage(s)
<1>1. ASSUME NEW t \in Tab, SignIn(t) \/ Page(t) \/ Manage(t) PROVE t = s
  BY <1>1, TabActs, OnlyOne
<1>2. Crash => calls'[s] = IdleCall
  <2>1. calls[s] \in CallState
    BY Unfolded DEF SerialInv
  <2> QED BY <2>1 DEF Crash, CallState, Open
<1> QED BY <1>1, <1>2 DEF Next, Elsewhere, TrialEnds, InviteLapses

(* What a handler does next. *)
LEMMA Runs ==
  ASSUME NEW s \in Tab, SignIn(s) \/ Page(s) \/ Manage(s)
  PROVE  /\ calls[s].pc = "link" => Link(s)
         /\ calls[s].pc = "org" => AddOrg(s)
         /\ calls[s].pc = "member" => AddOwner(s)
         /\ calls[s].pc = "business" => FindBusiness(s)
         /\ calls[s].pc = "newBusiness" => AddBusiness(s)
         /\ calls[s].pc = "cats" => SeedCategories(s)
         /\ calls[s].pc = "rules" => SeedRules(s)
         /\ calls[s].pc = "trial" => StartTrial(s)
         /\ calls[s].pc = "login" => Enter(s)
         /\ calls[s].pc = "drop" => DropBusiness(s)
         /\ calls[s].pc = "admit" => Admit(s)
         /\ calls[s].pc = "spend" => Spend(s)
<1>1. CASE Page(s)
  BY <1>1 DEF Page, Reload, Refresh, List, Switch, Idle, At
<1>2. CASE Manage(s)
  BY <1>2 DEF Manage, CreateBusiness, DropBusiness, Tidy, Rename, DeleteBusiness, CreateInvite, ExpireInvite,
     Accept, Admit, Spend, RemoveMember, DeleteAccount, Erase, Idle, At
<1>3. CASE SignIn(s)
  BY <1>3 DEF SignIn, Register, OAuth, Login, Hashed, InsertUser, Link, AddOrg, AddOwner, FindBusiness,
     AddBusiness, SeedCategories, SeedRules, Seed, StartTrial, Enter, Logout, Idle, At
<1> QED BY <1>1, <1>2, <1>3

-----------------------------------------------------------------------------
(* An organization keeps a business.                                       *)

Lives(b) == businesses'[b] \in BizRow /\ businesses'[b].org = businesses[b].org

LEMMA BusinessLives ==
  ASSUME TypeInv, Next, NEW b \in LiveBiz
  PROVE  \/ Lives(b)
         \/ \E t \in Tab : DropBusiness(t) /\ b = calls[t].biz /\ b \in Businesses(calls[t].org)
<1>0. b \in BizId /\ businesses[b] \in BizRow /\ businesses[b] # None
  BY Unfolded, Sentinels DEF LiveBiz
<1>1. UNCHANGED businesses => Lives(b)
  BY <1>0 DEF Lives
<1>2. ASSUME NEW c, NEW row, OneChanges(c, row), Kept(c, row) PROVE Lives(b)
  BY <1>0, <1>2 DEF OneChanges, Kept, Lives, TypeInv, TypeOK
<1>3. ASSUME NEW c, NEW row, OneChanges(c, row), c # b PROVE Lives(b)
  BY <1>0, <1>3 DEF OneChanges, Lives, TypeInv, TypeOK
<1>4. b \notin NextBiz
  BY <1>0 DEF NextBiz
<1>5. ASSUME NEW t \in Tab, Erase(t) PROVE Lives(b)
  BY <1>0, <1>5, ErasedRows DEF Lives, Kept
<1>6. ASSUME NEW t \in Tab, AddBusiness(t) \/ CreateBusiness(t) PROVE Lives(b)
  BY <1>3, <1>4, <1>6, AddBusinessOne, CreateBusinessOne
<1>7. ASSUME NEW t \in Tab, SeedCategories(t) \/ SeedRules(t) PROVE Lives(b)
  BY <1>1, <1>2, <1>7, SeededOne
<1>8. ASSUME NEW t \in Tab, Tidy(t) PROVE Lives(b)
  BY <1>2, <1>8, TidyOne
<1>9. ASSUME NEW t \in Tab, NEW c \in BizId, Rename(t, c) PROVE Lives(b)
  BY <1>2, <1>9, RenameOne
<1>10. ASSUME NEW t \in Tab, DropBusiness(t)
       PROVE  Lives(b) \/ (b = calls[t].biz /\ b \in Businesses(calls[t].org))
  BY <1>1, <1>3, <1>10, DroppedOne
<1> QED BY <1>1, <1>5, <1>6, <1>7, <1>8, <1>9, <1>10, WhoChangesBusinesses

(* A handler about to drop a business leaves another one to the organization. *)
Drops == \A t \in Tab : calls[t].pc = "drop" => \E b \in Businesses(calls[t].org) : b # calls[t].biz

LEMMA AnotherOne ==
  ASSUME NEW S, Cardinality(S) > 1, NEW x
  PROVE  \E y \in S : y # x
<1> SUFFICES ASSUME S \subseteq {x} PROVE FALSE
  OBVIOUS
<1>1. S = {} \/ S = {x}
  OBVIOUS
<1>2. Cardinality({}) = 0 /\ Cardinality({x}) = 1
  BY FS_EmptySet, FS_Singleton
<1> QED BY <1>1, <1>2

LEMMA DropsKept ==
  ASSUME Serial, SerialInv, Drops, Next
  PROVE  Drops'
<1>0. TypeInv
  BY DEF SerialInv
<1> SUFFICES ASSUME NEW s \in Tab, calls'[s].pc = "drop"
             PROVE  \E b \in Businesses(calls[s].org)' : b # calls'[s].biz
  BY DEF Drops
<1>1. calls'[s] # IdleCall
  BY DEF IdleCall
<1>2. CASE calls'[s] = calls[s]
  <2>1. calls[s].pc = "drop" /\ calls[s].pc \notin Open
    BY <1>2 DEF Open
  <2>2. ASSUME SignIn(s) \/ Page(s) \/ Manage(s) PROVE FALSE
    BY <1>0, <1>1, <2>1, <2>2, Runs, DroppedOne, Finished
  <2>3. Elsewhere(s)
    BY <1>1, <2>1, <2>2, WhoMoves
  <2>4. UNCHANGED businesses
    BY <2>3 DEF Elsewhere, TrialEnds, InviteLapses
  <2>5. Businesses(calls[s].org)' = Businesses(calls[s].org)
    BY <1>2, <2>4 DEF Businesses, LiveBiz
  <2> QED BY <1>2, <2>1, <2>5 DEF Drops
<1>3. ASSUME NEW b \in BizId, DeleteBusiness(s, b)
      PROVE  \E c \in Businesses(calls[s].org)' : c # calls'[s].biz
  <2> DEFINE o == OrgAt(s, tabs[s].header)
             call == [IdleCall EXCEPT !.pc = "drop", !.op = "delete", !.org = o, !.biz = b]
  <2>1. Cardinality(Businesses(o)) > 1 /\ Become(s, call) /\ UNCHANGED businesses
    BY <1>3 DEF DeleteBusiness, Tables
  <2>2. calls'[s] = call
    BY <1>0, <2>1, Became
  <2>3. calls'[s].org = o /\ calls'[s].biz = b
    BY <2>2 DEF IdleCall
  <2> HIDE DEF call
  <2>4. PICK c \in Businesses(o) : c # b
    BY <2>1, AnotherOne
  <2>5. Businesses(calls[s].org)' = Businesses(o)
    BY <2>1, <2>3 DEF Businesses, LiveBiz
  <2> QED BY <2>3, <2>4, <2>5
<1> QED BY <1>0, <1>1, <1>2, <1>3, HowArrived DEF Arrives

(* On one event loop an organization that has a business always keeps one:  *)
(* deletions by any owners and pages, one after the other, leave the last.   *)
THEOREM AnOrgKeepsABusiness == ASSUME Serial PROVE Spec => OrgKeepsABusiness
<1>1. Init => SerialInv /\ Drops
  <2>1. Init => SerialInv
    <3>1. Init => Turns
      BY DEF Init, Turns, IdleCall, Open
    <3> QED BY <3>1, InitTypes DEF SerialInv
  <2>2. Init => Drops
    BY DEF Init, Drops, IdleCall
  <2> QED BY <2>1, <2>2
<1>2. SerialInv /\ Drops /\ [Next]_vars => SerialInv' /\ Drops'
  <2>1. SerialInv /\ Drops /\ Next => SerialInv' /\ Drops'
    BY TypeStep, TurnsKept, DropsKept DEF SerialInv
  <2>2. SerialInv /\ Drops /\ UNCHANGED vars => SerialInv' /\ Drops'
    <3>1. SerialInv /\ UNCHANGED vars => TypeInv'
      BY TypeKept DEF SerialInv
    <3> QED BY <3>1 DEF SerialInv, Turns, Drops, Businesses, LiveBiz, vars, Tables
  <2> QED BY <2>1, <2>2
<1>3. SerialInv /\ Drops /\ [Next]_vars
        => [\A o \in UserId : Businesses(o) # {} => Businesses(o)' # {}]_vars
  <2> SUFFICES ASSUME SerialInv, Drops, Next, NEW o \in UserId, NEW b \in Businesses(o)
               PROVE  Businesses(o)' # {}
    OBVIOUS
  <2>0. TypeInv
    BY DEF SerialInv
  <2>1. ASSUME NEW c \in Businesses(o), Lives(c) PROVE Businesses(o)' # {}
    <3>1. c \in BizId /\ businesses[c].org = o
      BY DEF Businesses, LiveBiz
    <3>2. businesses'[c] \notin {None, Gone} /\ businesses'[c].org = o
      BY <2>1, <3>1, Sentinels DEF Lives
    <3> QED BY <3>1, <3>2 DEF Businesses, LiveBiz
  <2>2. ASSUME NEW t \in Tab, DropBusiness(t), b = calls[t].biz, b \in Businesses(calls[t].org)
        PROVE  Businesses(o)' # {}
    <3>1. calls[t].org = o /\ calls[t].pc = "drop"
      BY <2>2 DEF Businesses, DropBusiness, At
    <3>2. PICK c \in Businesses(o) : c # calls[t].biz
      BY <3>1 DEF Drops
    <3>3. UNCHANGED businesses \/ OneChanges(calls[t].biz, Gone)
      BY <2>0, <2>2, DroppedOne
    <3>4. businesses'[c] = businesses[c]
      BY <2>0, <3>2, <3>3 DEF OneChanges, TypeInv, TypeOK, Businesses, LiveBiz
    <3>5. c \in LiveBiz /\ businesses[c].org = o
      BY DEF Businesses
    <3> QED BY <3>4, <3>5 DEF Businesses, LiveBiz
  <2>3. b \in LiveBiz
    BY DEF Businesses
  <2> QED BY <2>0, <2>1, <2>2, <2>3, BusinessLives
<1> QED BY <1>1, <1>2, <1>3, PTL DEF Spec, OrgKeepsABusiness

-----------------------------------------------------------------------------
(* Owners. A user owns the organization of the same id and no other, and     *)
(* nobody is invited to an organization before its founder owns it.          *)

Founded(o) == members[<<o, o>>] = "owner" \/ users[o] = Gone

Owners ==
  /\ \A o, u \in UserId : members[<<o, u>>] = "owner" => o = u
  /\ \A o \in UserId : members[<<o, o>>] # "member"

Inviting ==
  /\ \A i \in Invite : invites[i] \notin {None, Gone} => Founded(invites[i].org)
  /\ \A t \in Tab : calls[t].pc = "admit" => Founded(calls[t].org)

OwnInv == TypeInv /\ Owners /\ Inviting

LEMMA WhoChangesMembers ==
  ASSUME Next
  PROVE  \/ UNCHANGED members
         \/ \E t \in Tab : \/ AddOwner(t) \/ Admit(t) \/ Erase(t)
                           \/ \E u \in UserId : RemoveMember(t, u)
<1>1. ASSUME NEW t \in Tab, SignIn(t) PROVE UNCHANGED members \/ AddOwner(t)
  BY <1>1 DEF SignIn, Register, OAuth, Login, Hashed, InsertUser, Link, AddOrg, FindBusiness, AddBusiness,
     SeedCategories, SeedRules, Seed, StartTrial, Enter, Logout, Tables
<1>2. ASSUME NEW t \in Tab, Page(t) PROVE UNCHANGED members
  BY <1>2 DEF Page, Reload, Refresh, List, Switch, Tables
<1>3. ASSUME NEW t \in Tab, Manage(t)
      PROVE  UNCHANGED members \/ Admit(t) \/ Erase(t) \/ \E u \in UserId : RemoveMember(t, u)
  BY <1>3 DEF Manage, CreateBusiness, DropBusiness, Tidy, Rename, DeleteBusiness, CreateInvite,
     ExpireInvite, Accept, Spend, DeleteAccount, Tables
<1> QED BY <1>1, <1>2, <1>3 DEF Next, TrialEnds, InviteLapses, Crash, Tables

LEMMA OwnersKept == ASSUME OwnInv, Next PROVE Owners'
<1>0. TypeInv /\ Owners /\ Inviting
  BY DEF OwnInv
<1>1. UNCHANGED members => Owners'
  BY <1>0 DEF Owners
<1>2. ASSUME NEW o \in UserId, NEW u \in UserId, NEW role,
             members' = [members EXCEPT ![<<o, u>>] = role],
             role = "owner" => o = u, role = "member" => o # u
      PROVE  Owners'
  <2>1. /\ members'[<<o, u>>] = role
        /\ \A p, v \in UserId : <<p, v>> # <<o, u>> => members'[<<p, v>>] = members[<<p, v>>]
    BY <1>0, <1>2 DEF TypeInv, TypeOK
  <2>2. ASSUME NEW p \in UserId, NEW v \in UserId, members'[<<p, v>>] = "owner" PROVE p = v
    BY <1>0, <1>2, <2>1, <2>2 DEF Owners
  <2>3. ASSUME NEW p \in UserId PROVE members'[<<p, p>>] # "member"
    BY <1>0, <1>2, <2>1 DEF Owners
  <2> QED BY <2>2, <2>3 DEF Owners
<1>3. ASSUME NEW t \in Tab, AddOwner(t) PROVE Owners'
  <2> DEFINE u == calls[t].user
  <2>1. u \in UserId
    BY <1>0, <1>3, Unfolded DEF AddOwner, At, Fit, SettingUp
  <2>2. UNCHANGED members \/ members' = [members EXCEPT ![<<u, u>>] = IF @ = None THEN "owner" ELSE @]
    BY <1>3 DEF AddOwner
  <2>3. members[<<u, u>>] \in {"owner", None}
    BY <1>0, <2>1 DEF Owners, TypeInv, TypeOK
  <2> HIDE DEF u
  <2>4. (IF members[<<u, u>>] = None THEN "owner" ELSE members[<<u, u>>]) = "owner"
    BY <2>3
  <2>5. members' = [members EXCEPT ![<<u, u>>] = "owner"] => Owners'
    BY <1>2, <2>1
  <2> QED BY <1>1, <2>2, <2>4, <2>5
<1>4. ASSUME NEW t \in Tab, Admit(t) PROVE Owners'
  <2> DEFINE u == calls[t].user  o == calls[t].org
  <2>1. u \in UserId /\ o \in UserId /\ calls[t].pc = "admit"
    BY <1>0, <1>4, Unfolded DEF Admit, At, Fit
  <2>2. \/ UNCHANGED members
        \/ Live(u) /\ members' = [members EXCEPT ![<<o, u>>] = IF @ = None THEN "member" ELSE @]
    BY <1>4 DEF Admit
  <2>3. Founded(o)
    BY <1>0, <2>1 DEF Inviting
  <2> HIDE DEF u, o
  <2>4. ASSUME Live(u), members' = [members EXCEPT ![<<o, u>>] = IF @ = None THEN "member" ELSE @]
        PROVE  Owners'
    <3> DEFINE role == IF members[<<o, u>>] = None THEN "member" ELSE members[<<o, u>>]
    <3>1. o = u => members[<<o, u>>] = "owner"
      BY <2>3, <2>4 DEF Founded, Live
    <3>2. role = "owner" => o = u
      BY <1>0, <2>1, Sentinels, TenancyAssumption DEF Owners
    <3>3. role = "member" => o # u
      BY <1>0, <2>1, <3>1, TenancyAssumption DEF Owners
    <3>4. members' = [members EXCEPT ![<<o, u>>] = role]
      BY <2>4
    <3> HIDE DEF role
    <3> QED BY <1>2, <2>1, <3>2, <3>3, <3>4
  <2> QED BY <1>1, <2>2, <2>4
<1>5. ASSUME NEW t \in Tab, Erase(t) PROVE Owners'
  <2>1. \A o, v \in UserId : members'[<<o, v>>] \in {members[<<o, v>>], None}
    BY <1>0, <1>5 DEF Erase, TypeInv, TypeOK
  <2> QED BY <1>0, <2>1, TenancyAssumption DEF Owners
<1>6. ASSUME NEW t \in Tab, NEW u \in UserId, RemoveMember(t, u) PROVE Owners'
  <2>1. OrgAt(t, tabs[t].header) \in UserId
    BY <1>0, <1>6, OwnerOK DEF RemoveMember
  <2>2. members' = [members EXCEPT ![<<OrgAt(t, tabs[t].header), u>>] = None]
    BY <1>6 DEF RemoveMember
  <2> QED BY <1>2, <2>1, <2>2, TenancyAssumption
<1> QED BY <1>1, <1>3, <1>4, <1>5, <1>6, WhoChangesMembers

(* An organization that was founded stays so, or its founder is deleted.    *)
LEMMA FoundedStays ==
  ASSUME OwnInv, Next, NEW o \in UserId, Founded(o)
  PROVE  Founded(o)'
<1>0. TypeInv /\ Owners /\ Inviting
  BY DEF OwnInv
<1>1. CASE users[o] = Gone
  <2>1. users'[o] = Gone
    <3>1. ASSUME NEW t \in Tab, NEW pc \in {"insert", "create"}, InsertUser(t, pc) PROVE users'[o] = Gone
      <4>1. ASSUME NEW u \in UserId, NEW row, users[u] = None, users' = [users EXCEPT ![u] = row]
            PROVE  users'[o] = Gone
        BY <1>0, <1>1, <4>1, Sentinels DEF TypeInv, TypeOK
      <4> QED BY <1>0, <1>1, <3>1, <4>1, Inserted
    <3>2. ASSUME NEW t \in Tab, Erase(t) PROVE users'[o] = Gone
      BY <1>0, <1>1, <3>2 DEF Erase, TypeInv, TypeOK
    <3>3. ASSUME NEW t \in Tab, Link(t) PROVE UNCHANGED users
      BY <3>3 DEF Link
    <3> QED BY <1>1, <3>1, <3>2, <3>3, WhoChanges
  <2> QED BY <2>1 DEF Founded
<1>2. CASE members[<<o, o>>] = "owner"
  <2>1. UNCHANGED members => Founded(o)'
    BY <1>2 DEF Founded
  <2>2. ASSUME NEW t \in Tab, AddOwner(t) \/ Admit(t) PROVE Founded(o)'
    <3>1. \A m \in UserId \X UserId : members[m] # None => members'[m] = members[m]
      BY <1>0, <2>2 DEF AddOwner, Admit, TypeInv, TypeOK
    <3> QED BY <1>2, <3>1, TenancyAssumption DEF Founded
  <2>3. ASSUME NEW t \in Tab, Erase(t) PROVE Founded(o)'
    BY <1>0, <1>2, <2>3 DEF Erase, Founded, TypeInv, TypeOK
  <2>4. ASSUME NEW t \in Tab, NEW u \in UserId, RemoveMember(t, u) PROVE Founded(o)'
    <3> DEFINE p == OrgAt(t, tabs[t].header)
    <3>1. /\ AsOwner(t) /\ u # tabs[t].session
          /\ members' = [members EXCEPT ![<<p, u>>] = None]
      BY <2>4 DEF RemoveMember
    <3>2. p \in UserId /\ tabs[t].session \in UserId /\ members[<<p, tabs[t].session>>] = "owner"
      BY <1>0, <3>1, OwnerOK
    <3>3. p # u
      BY <1>0, <3>1, <3>2 DEF Owners
    <3> HIDE DEF p
    <3>4. members'[<<o, o>>] = "owner"
      BY <1>0, <1>2, <3>1, <3>3 DEF TypeInv, TypeOK
    <3> QED BY <3>4 DEF Founded
  <2> QED BY <2>1, <2>2, <2>3, <2>4, WhoChangesMembers
<1> QED BY <1>1, <1>2 DEF Founded

(* What a step does to an invite. *)
Invited(i) ==
  \E t \in Tab : /\ CreateInvite(t, i) /\ invites[i] = None /\ UNCHANGED calls /\ AsOwner(t)
                 /\ invites'[i] = [org |-> OrgAt(t, tabs[t].header), by |-> tabs[t].session,
                                   status |-> "pending", due |-> FALSE]
Marked(i) ==
  /\ invites[i] \in InviteRow /\ invites'[i] \in InviteRow /\ invites'[i].org = invites[i].org
  /\ \/ invites'[i].status = invites[i].status
     \/ invites'[i].status = "expired"
     \/ invites'[i].status = "accepted" /\ \E t \in Tab : Spend(t) /\ calls[t].inv = i

LEMMA StatusSet ==
  ASSUME TypeInv, NEW i \in Invite, invites[i] # None, NEW s \in {"accepted", "expired"}, SetStatus(i, s),
         NEW j \in Invite
  PROVE  \/ invites'[j] = invites[j]
         \/ /\ j = i /\ invites[i] \in InviteRow /\ invites'[i] \in InviteRow
            /\ invites'[i].org = invites[i].org /\ invites'[i].status = s
<1>1. CASE j = i /\ invites[i] # Gone
  <2>1. invites[i] \in InviteRow /\ invites'[i] \in InviteRow
        /\ invites'[i] = [invites[i] EXCEPT !.status = s]
    BY <1>1, SetStatusOK, Unfolded
  <2> QED BY <1>1, <2>1 DEF InviteRow
<1>2. CASE j = i /\ invites[i] = Gone
  BY <1>2, SetStatusOK
<1>3. CASE j # i
  BY <1>3, SetStatusOK
<1> QED BY <1>1, <1>2, <1>3

LEMMA InviteMoves ==
  ASSUME TypeInv, Next, NEW i \in Invite
  PROVE  \/ invites'[i] = invites[i]
         \/ \E t \in Tab : Erase(t) /\ invites'[i] = Gone /\ invites[i] # None
         \/ Invited(i)
         \/ Marked(i)
<1> DEFINE Goal == \/ invites'[i] = invites[i]
                   \/ \E t \in Tab : Erase(t) /\ invites'[i] = Gone /\ invites[i] # None
                   \/ Invited(i)
                   \/ Marked(i)
<1> SUFFICES Goal
  OBVIOUS
<1>1. ASSUME NEW t \in Tab, NEW j \in Invite, CreateInvite(t, j) PROVE Goal
  <2>1. /\ invites[j] = None /\ UNCHANGED calls /\ AsOwner(t)
        /\ invites' = [invites EXCEPT ![j] = [org |-> OrgAt(t, tabs[t].header), by |-> tabs[t].session,
                                              status |-> "pending", due |-> FALSE]]
    BY <1>1 DEF CreateInvite
  <2> QED BY <1>1, <2>1 DEF Invited, TypeInv, TypeOK
<1>2. ASSUME NEW t \in Tab, NEW j \in Invite, ExpireInvite(t, j) PROVE Goal
  <2>1. invites[j] # None /\ SetStatus(j, "expired")
    BY <1>2 DEF ExpireInvite
  <2> QED BY <2>1, StatusSet DEF Marked
<1>3. ASSUME NEW t \in Tab, NEW j \in Invite, Accept(t, j) PROVE Goal
  <2>1. invites[j] # None /\ (UNCHANGED invites \/ SetStatus(j, "expired"))
    BY <1>3 DEF Accept
  <2> QED BY <2>1, StatusSet DEF Marked
<1>4. ASSUME NEW t \in Tab, Spend(t) PROVE Goal
  <2>1. calls[t].inv \in Invite /\ invites[calls[t].inv] # None /\ SetStatus(calls[t].inv, "accepted")
    BY <1>4, Unfolded DEF Spend, At, Fit
  <2> QED BY <1>4, <2>1, StatusSet DEF Marked
<1>5. ASSUME NEW t \in Tab, Erase(t) PROVE Goal
  BY <1>5 DEF Erase
<1>6. ASSUME NEW j \in Invite, InviteLapses(j) PROVE Goal
  <2> DEFINE row == [invites[j] EXCEPT !.due = TRUE]
  <2>1. invites[j] \in InviteRow /\ invites' = [invites EXCEPT ![j] = row]
    BY <1>6, Unfolded DEF InviteLapses
  <2>2. row \in InviteRow /\ row.org = invites[j].org /\ row.status = invites[j].status
    BY <2>1 DEF InviteRow
  <2> HIDE DEF row
  <2> QED BY <2>1, <2>2 DEF Marked, TypeInv, TypeOK
<1>7. UNCHANGED invites => Goal
  OBVIOUS
<1> HIDE DEF Goal
<1>8. ASSUME NEW t \in Tab, SignIn(t) PROVE UNCHANGED invites
  BY <1>8 DEF SignIn, Register, OAuth, Login, Hashed, InsertUser, Link, AddOrg, AddOwner, FindBusiness,
     AddBusiness, SeedCategories, SeedRules, Seed, StartTrial, Enter, Logout, Tables
<1>9. ASSUME NEW t \in Tab, Page(t) PROVE UNCHANGED invites
  BY <1>9 DEF Page, Reload, Refresh, List, Switch, Tables
<1>10. ASSUME NEW t \in Tab, Manage(t) PROVE Goal
  <2>1. \/ UNCHANGED invites \/ Spend(t) \/ Erase(t)
        \/ \E j \in Invite : CreateInvite(t, j) \/ ExpireInvite(t, j) \/ Accept(t, j)
    BY <1>10 DEF Manage, CreateBusiness, DropBusiness, Tidy, Rename, DeleteBusiness, Admit, RemoveMember,
       DeleteAccount, Tables
  <2> QED BY <1>1, <1>2, <1>3, <1>4, <1>5, <1>7, <2>1
<1> QED BY <1>6, <1>7, <1>8, <1>9, <1>10 DEF Next, TrialEnds, Crash, Tables

LEMMA AcceptedCall ==
  ASSUME TypeInv, NEW t \in Tab, calls'[t].pc = "admit", NEW i \in Invite, Accept(t, i)
  PROVE  \/ calls'[t] = calls[t]
         \/ /\ invites[i] \in InviteRow /\ invites[i].status = "pending" /\ UNCHANGED <<invites, admitted>>
            /\ calls'[t].org = invites[i].org /\ calls'[t].inv = i
<1> DEFINE call == [IdleCall EXCEPT !.pc = "admit", !.op = "accept", !.user = tabs[t].session,
                                    !.org = invites[i].org, !.inv = i]
<1>1. invites[i] \in InviteRow /\ invites[i].status = "pending" /\ UNCHANGED admitted
  BY Unfolded DEF Accept
<1>2. UNCHANGED calls \/ (Become(t, call) /\ UNCHANGED invites)
  BY DEF Accept
<1>3. Become(t, call) => calls'[t] = call
  BY Became
<1>4. call.org = invites[i].org /\ call.inv = i
  BY DEF IdleCall
<1> HIDE DEF call
<1> QED BY <1>1, <1>2, <1>3, <1>4

LEMMA InvitingKept == ASSUME OwnInv, Next PROVE Inviting'
<1>0. TypeInv /\ Owners /\ Inviting
  BY DEF OwnInv
<1>1. ASSUME NEW i \in Invite, invites'[i] \notin {None, Gone} PROVE Founded(invites[i].org)'
  <2>1. ASSUME invites[i] \in InviteRow, invites'[i].org = invites[i].org PROVE Founded(invites[i].org)'
    <3>1. PICK o \in UserId : o = invites[i].org
      BY <2>1 DEF InviteRow
    <3>2. Founded(o)
      BY <1>0, <2>1, <3>1, Sentinels DEF Inviting
    <3>3. Founded(o)'
      BY <3>2, FoundedStays
    <3> QED BY <2>1, <3>1, <3>3 DEF Founded
  <2>2. CASE invites'[i] = invites[i]
    BY <1>0, <1>1, <2>1, <2>2, Unfolded
  <2>3. CASE Marked(i)
    BY <2>1, <2>3 DEF Marked
  <2>4. CASE Invited(i)
    <3>1. PICK t \in Tab : AsOwner(t) /\ invites'[i] = [org |-> OrgAt(t, tabs[t].header), by |-> tabs[t].session,
                                                         status |-> "pending", due |-> FALSE]
      BY <2>4 DEF Invited
    <3>2. PICK o \in UserId : o = OrgAt(t, tabs[t].header) /\ members[<<o, o>>] = "owner"
      BY <1>0, <3>1, OwnerOK DEF Owners
    <3>3. Founded(o)'
      BY <3>2, FoundedStays DEF Founded
    <3>4. invites'[i].org = o
      BY <3>1, <3>2
    <3> QED BY <3>3, <3>4 DEF Founded
  <2> QED BY <1>0, <1>1, <2>2, <2>3, <2>4, InviteMoves
<1>2. ASSUME NEW s \in Tab, calls'[s].pc = "admit" PROVE Founded(calls[s].org)'
  <2>1. CASE calls'[s] = calls[s]
    <3>1. PICK o \in UserId : o = calls[s].org
      BY <1>0, <1>2, <2>1, Unfolded DEF Fit
    <3>2. Founded(o)
      BY <1>0, <1>2, <2>1, <3>1 DEF Inviting
    <3>3. Founded(o)'
      BY <3>2, FoundedStays
    <3> QED BY <2>1, <3>1, <3>3 DEF Founded
  <2>2. ASSUME NEW i \in Invite, Accept(s, i), calls'[s] # calls[s] PROVE Founded(calls[s].org)'
    <3>1. PICK o \in UserId : o = invites[i].org /\ calls'[s].org = o
      BY <1>0, <1>2, <2>2, AcceptedCall DEF InviteRow
    <3>2. Founded(o)
      BY <1>0, <1>2, <2>2, <3>1, AcceptedCall, Sentinels DEF Inviting
    <3>3. Founded(o)'
      BY <3>2, FoundedStays
    <3> QED BY <3>1, <3>3 DEF Founded
  <2>3. calls'[s] # IdleCall
    BY <1>2 DEF IdleCall
  <2> QED BY <1>0, <1>2, <2>1, <2>2, <2>3, HowArrived DEF Arrives
<1> QED BY <1>1, <1>2 DEF Inviting

LEMMA OwnKept == OwnInv /\ [Next]_vars => OwnInv'
<1>1. OwnInv /\ Next => OwnInv'
  BY TypeStep, OwnersKept, InvitingKept DEF OwnInv
<1>2. OwnInv /\ UNCHANGED vars => OwnInv'
  <2>1. OwnInv /\ UNCHANGED vars => TypeInv'
    BY TypeKept DEF OwnInv
  <2> QED BY <2>1 DEF OwnInv, Owners, Inviting, Founded, vars, Tables
<1> QED BY <1>1, <1>2

LEMMA InitOwn == Init => OwnInv
<1> SUFFICES ASSUME Init PROVE Owners /\ Inviting
  BY InitTypes DEF OwnInv
<1>1. \A t \in Tab : calls[t].pc = "idle"
  BY DEF Init, IdleCall
<1>2. \A o, u \in UserId : members[<<o, u>>] = None
  BY DEF Init
<1>3. \A i \in Invite : invites[i] = None
  BY DEF Init
<1> QED BY <1>1, <1>2, <1>3, TenancyAssumption DEF Owners, Inviting

-----------------------------------------------------------------------------
(* Set-up. What provisionDefaults has done so far, statement by statement.  *)

Settling == SettingUp \ {"link", "org"}

SettledAt(c) ==
  /\ c.user \in orgs
  /\ c.pc # "member" => members[<<c.user, c.user>>] = "owner"
  /\ c.pc = "newBusiness" => Businesses(c.user) = {}
  /\ c.pc \in {"cats", "rules", "trial", "login"} =>
       Businesses(c.user) # {} /\ c.biz = Min(Businesses(c.user))
  /\ c.pc \in {"rules", "trial", "login"} => businesses[c.biz].cat # None
  /\ c.pc \in {"trial", "login"} => businesses[c.biz].rule # None
  /\ c.pc = "login" => trials[c.user] # None

Setting == \A t \in Tab : calls[t].pc \in Settling => SettledAt(calls[t])

SetUpInv == OwnInv /\ Turns /\ Setting

LEMMA OwnStepMoves ==
  ASSUME TypeInv, NEW s \in Tab, SignIn(s) \/ Page(s) \/ Manage(s), calls[s].pc \in Settling
  PROVE  calls'[s].pc # calls[s].pc \/ (calls'[s].pc = "rules" /\ SeedRules(s))
<1>0. calls[s] \in CallState /\ IdleCall.pc = "idle"
  BY Unfolded DEF IdleCall
<1>1. calls[s].pc \in {"member", "business", "newBusiness", "cats", "rules", "trial", "login"}
  BY DEF Settling, SettingUp
<1>2. CASE calls[s].pc = "member"
  BY <1>0, <1>2, Runs, WentTo, Finished DEF AddOwner, ServerPC
<1>3. CASE calls[s].pc = "business"
  <2> DEFINE call == [calls[s] EXCEPT !.pc = "cats", !.biz = Min(Businesses(calls[s].user))]
  <2>1. Goto(s, "newBusiness") \/ Become(s, call)
    BY <1>3, Runs DEF FindBusiness
  <2>2. Become(s, call) => calls'[s] = call
    BY Became
  <2>3. call.pc = "cats"
    BY <1>0 DEF CallState
  <2> HIDE DEF call
  <2> QED BY <1>3, <2>1, <2>2, <2>3, WentTo DEF ServerPC
<1>4. CASE calls[s].pc = "newBusiness"
  <2>1. calls'[s] = [calls[s] EXCEPT !.pc = "cats", !.biz = Min(NextBiz)]
    BY <1>4, Runs, Became DEF AddBusiness
  <2> QED BY <1>0, <1>4, <2>1 DEF CallState
<1>5. CASE calls[s].pc = "cats"
  <2>1. Goto(s, "rules") \/ Finish(s)
    BY <1>5, Runs DEF SeedCategories, Seed
  <2> QED BY <1>0, <1>5, <2>1, WentTo, Finished DEF ServerPC
<1>6. CASE calls[s].pc = "rules"
  <2>1. SeedRules(s) /\ (Goto(s, "rules") \/ Goto(s, "trial") \/ Finish(s))
    BY <1>6, Runs DEF SeedRules, Seed
  <2> QED BY <1>0, <1>6, <2>1, WentTo, Finished DEF ServerPC
<1>7. CASE calls[s].pc = "trial"
  BY <1>0, <1>7, Runs, WentTo DEF StartTrial, ServerPC
<1>8. CASE calls[s].pc = "login"
  BY <1>0, <1>8, Runs, Finished DEF Enter
<1> QED BY <1>1, <1>2, <1>3, <1>4, <1>5, <1>6, <1>7, <1>8

(* A business that stays within its organization, if only its row changes.  *)
LEMMA SameBusinesses ==
  ASSUME TypeInv, NEW b \in LiveBiz, NEW row, OneChanges(b, row), Kept(b, row), NEW o
  PROVE  Businesses(o)' = Businesses(o) /\ businesses'[b] = row
<1>1. b \in BizId /\ businesses' = [businesses EXCEPT ![b] = row] /\ row \in BizRow
      /\ row.org = businesses[b].org /\ businesses[b] \in BizRow
  BY DEF OneChanges, Kept
<1>2. businesses'[b] = row /\ \A c \in BizId \ {b} : businesses'[c] = businesses[c]
  BY <1>1 DEF TypeInv, TypeOK
<1>3. \A c \in BizId : c \in LiveBiz' <=> c \in LiveBiz
  BY <1>1, <1>2, Sentinels DEF LiveBiz
<1>4. \A c \in BizId : businesses'[c].org = businesses[c].org
  BY <1>1, <1>2
<1> QED BY <1>2, <1>3, <1>4 DEF Businesses, LiveBiz

LEMMA SettingKept == ASSUME SetUpInv, Serial, Next, NEW s \in Tab, calls'[s].pc \in Settling PROVE SettledAt(calls[s])'
<1>0. SerialInv /\ TypeInv /\ Owners /\ Setting /\ calls[s] \in CallState /\ Fit(calls[s], invites)
  BY Unfolded DEF SetUpInv, OwnInv, SerialInv
<1>1. IdleCall.pc = "idle" /\ calls'[s].pc \in {"member", "business", "newBusiness", "cats", "rules", "trial", "login"}
  BY DEF IdleCall, Settling, SettingUp
<1>2. CASE calls'[s] = calls[s] /\ ~(calls'[s].pc = "rules" /\ SeedRules(s))
  <2>1. calls[s].pc \notin Open /\ SettledAt(calls[s])
    BY <1>0, <1>1, <1>2 DEF Open, Setting
  <2>2. Elsewhere(s)
    BY <1>0, <1>1, <1>2, <2>1, WhoMoves, OwnStepMoves
  <2>3. UNCHANGED <<orgs, members, businesses>>
    BY <2>2 DEF Elsewhere, TrialEnds, InviteLapses
  <2>4. \A o \in UserId : trials[o] # None => trials'[o] # None
    BY <1>0, <2>2, TenancyAssumption DEF Elsewhere, TrialEnds, InviteLapses, TypeInv, TypeOK
  <2>5. calls[s].user \in UserId
    BY <1>0, <1>1, <1>2 DEF Fit, SettingUp
  <2>6. Businesses(calls[s].user)' = Businesses(calls[s].user)
    BY <1>2, <2>3 DEF Businesses, LiveBiz
  <2> QED BY <1>2, <2>1, <2>3, <2>4, <2>5, <2>6 DEF SettledAt
<1>3. CASE calls'[s].pc = "member" /\ AddOrg(s)
  BY <1>0, <1>3, WentTo DEF AddOrg, ServerPC, SettledAt
<1>4. CASE calls'[s].pc = "business" /\ AddOwner(s)
  <2> DEFINE u == calls[s].user
  <2>1. /\ u \in UserId /\ Goto(s, "business") /\ SettledAt(calls[s]) /\ UNCHANGED orgs
        /\ members' = [members EXCEPT ![<<u, u>>] = IF @ = None THEN "owner" ELSE @]
    BY <1>0, <1>1, <1>4, Finished DEF AddOwner, At, Fit, SettingUp, Settling, Setting
  <2>2. calls'[s].user = u
    BY <1>0, <2>1, WentTo DEF ServerPC
  <2>3. members[<<u, u>>] \in {"owner", None}
    BY <1>0, <2>1 DEF Owners, TypeInv, TypeOK
  <2>4. u \in orgs
    BY <2>1 DEF SettledAt
  <2> HIDE DEF u
  <2>5. members'[<<u, u>>] = "owner"
    BY <1>0, <2>1, <2>3 DEF TypeInv, TypeOK
  <2> QED BY <1>4, <2>1, <2>2, <2>4, <2>5 DEF SettledAt
<1>5. CASE FindBusiness(s)
  <2> DEFINE own == Businesses(calls[s].user)
             call == [calls[s] EXCEPT !.pc = "cats", !.biz = Min(own)]
  <2>1. SettledAt(calls[s]) /\ calls[s].pc = "business" /\ UNCHANGED <<orgs, members, businesses>>
    BY <1>0, <1>5 DEF FindBusiness, At, Settling, SettingUp, Setting, Tables
  <2>2. CASE own = {} /\ Goto(s, "newBusiness")
    <3>1. calls'[s].user = calls[s].user /\ calls'[s].pc = "newBusiness"
      BY <1>0, <2>2, WentTo DEF ServerPC
    <3>2. Businesses(calls[s].user)' = own
      BY <2>1, <3>1 DEF Businesses, LiveBiz
    <3> QED BY <2>1, <2>2, <3>1, <3>2 DEF SettledAt
  <2>3. CASE own # {} /\ Become(s, call)
    <3>1. calls'[s] = call
      BY <1>0, <2>3, Became
    <3>2. calls'[s].user = calls[s].user /\ calls'[s].pc = "cats" /\ calls'[s].biz = Min(own)
      BY <1>0, <3>1 DEF CallState
    <3>3. Businesses(calls[s].user)' = own
      BY <2>1, <3>2 DEF Businesses, LiveBiz
    <3> HIDE DEF own, call
    <3> QED BY <2>1, <2>3, <3>2, <3>3 DEF SettledAt
  <2> QED BY <1>5, <2>2, <2>3 DEF FindBusiness
<1>6. CASE AddBusiness(s)
  <2> DEFINE b == Min(NextBiz)  u == calls[s].user
             row == [org |-> u, name |-> Placeholder(calls[s].op), cat |-> None, rule |-> None]
             call == [calls[s] EXCEPT !.pc = "cats", !.biz = b]
  <2>1. /\ SettledAt(calls[s]) /\ calls[s].pc = "newBusiness" /\ UNCHANGED <<orgs, members>>
        /\ u \in UserId /\ Become(s, call) /\ businesses' = [businesses EXCEPT ![b] = row]
        /\ b \in BizId
    BY <1>0, <1>6, LeastBusiness DEF AddBusiness, At, Settling, SettingUp, Setting, Fit, NextBiz
  <2>2. calls'[s] = call
    BY <1>0, <2>1, Became
  <2>3. calls'[s].user = u /\ calls'[s].pc = "cats" /\ calls'[s].biz = b
    BY <1>0, <2>2 DEF CallState
  <2>4. row \in BizRow /\ row.org = u
    BY <2>1 DEF BizRow, Name, Placeholder
  <2> HIDE DEF row
  <2>5. businesses'[b] = row /\ \A c \in BizId \ {b} : businesses'[c] = businesses[c]
    BY <1>0, <2>1 DEF TypeInv, TypeOK
  <2>6. Businesses(u) = {}
    BY <2>1 DEF SettledAt
  <2> HIDE DEF b
  <2>7. Businesses(calls[s].user)' = {b}
    BY <2>1, <2>3, <2>4, <2>5, <2>6, Sentinels DEF Businesses, LiveBiz
  <2>8. Min({b}) = b
    BY <2>1, LeastBusiness
  <2> QED BY <2>1, <2>3, <2>7, <2>8 DEF SettledAt
<1>7. CASE calls'[s].pc \in {"rules", "trial"} /\ (SeedCategories(s) \/ SeedRules(s))
  <2> DEFINE b == calls[s].biz  u == calls[s].user
  <2>1. ~Finish(s)
    BY <1>0, <1>1, <1>7, Finished
  <2>2. PICK row : /\ b \in LiveBiz /\ OneChanges(b, row) /\ Kept(b, row) /\ u \in UserId
                   /\ \/ SeedCategories(s) /\ row = WithCategories(businesses[b], u)
                      \/ SeedRules(s) /\ row = WithRules(businesses[b], u)
    BY <1>0, <1>7, <2>1, SeededOne
  <2>3. /\ SettledAt(calls[s]) /\ calls[s].pc \in {"cats", "rules"} /\ UNCHANGED <<orgs, members>>
        /\ (SeedCategories(s) => calls[s].pc = "cats" /\ Goto(s, "rules"))
        /\ (SeedRules(s) => calls[s].pc = "rules" /\ (Goto(s, "rules") \/ Goto(s, "trial")))
    BY <1>0, <1>7, <2>1 DEF SeedCategories, SeedRules, Seed, At, Settling, SettingUp, Setting
  <2>4. /\ calls'[s].user = u /\ calls'[s].biz = b
        /\ (SeedCategories(s) => calls'[s].pc = "rules")
        /\ (SeedRules(s) => calls'[s].pc \in {"rules", "trial"})
    BY <1>0, <1>7, <2>3, WentTo DEF ServerPC
  <2>5. PICK o : o = u
    OBVIOUS
  <2>6. Businesses(o)' = Businesses(o) /\ businesses'[b] = row
    BY <1>0, <2>2, SameBusinesses
  <2>7. Businesses(calls[s].user)' = Businesses(u)
    BY <2>4, <2>5, <2>6 DEF Businesses, LiveBiz
  <2>8. u # None /\ businesses[b] \in BizRow
    BY <2>2, Sentinels DEF Kept
  <2>9. SeedCategories(s) => row.cat # None
    BY <2>2, <2>3, <2>8 DEF WithCategories, WithRules, BizRow, SettledAt
  <2>10. SeedRules(s) => row.cat # None /\ row.rule # None
    BY <2>2, <2>3, <2>8 DEF WithCategories, WithRules, BizRow, SettledAt
  <2>11. Businesses(u) # {} /\ b = Min(Businesses(u)) /\ u \in orgs /\ members[<<u, u>>] = "owner"
    BY <2>3 DEF SettledAt
  <2> HIDE DEF b, u
  <2>12. CASE SeedCategories(s)
    BY <2>3, <2>4, <2>6, <2>7, <2>9, <2>11, <2>12 DEF SettledAt
  <2>13. CASE SeedRules(s)
    BY <2>3, <2>4, <2>6, <2>7, <2>10, <2>11, <2>13 DEF SettledAt
  <2> QED BY <1>7, <2>12, <2>13
<1>8. CASE StartTrial(s)
  <2> DEFINE u == calls[s].user
  <2>1. /\ SettledAt(calls[s]) /\ calls[s].pc = "trial" /\ UNCHANGED <<orgs, members, businesses>>
        /\ u \in UserId /\ Goto(s, "login")
        /\ trials' = [trials EXCEPT ![u] = IF @ = None THEN "running" ELSE @]
    BY <1>0, <1>8 DEF StartTrial, At, Settling, SettingUp, Setting, Fit
  <2>2. calls'[s].user = u /\ calls'[s].pc = "login" /\ calls'[s].biz = calls[s].biz
    BY <1>0, <2>1, WentTo DEF ServerPC
  <2>3. trials'[u] # None
    BY <1>0, <2>1, TenancyAssumption DEF TypeInv, TypeOK
  <2>4. Businesses(calls[s].user)' = Businesses(u)
    BY <2>1, <2>2 DEF Businesses, LiveBiz
  <2> HIDE DEF u
  <2> QED BY <2>1, <2>2, <2>3, <2>4 DEF SettledAt, u
<1> QED BY <1>0, <1>1, <1>2, <1>3, <1>4, <1>5, <1>6, <1>7, <1>8, HowArrived DEF Arrives

(* On one event loop, a sign-up or OAuth sign-in that completes leaves a     *)
(* user who is set up, whatever crashes have left undone before and whatever *)
(* other users delete or tidy meanwhile.                                     *)
THEOREM SignInCompletes == ASSUME Serial PROVE Spec => SignInSetsUp
<1>1. Init => SetUpInv
  <2>1. Init => Turns
    BY DEF Init, Turns, IdleCall, Open
  <2>2. Init => Setting
    BY DEF Init, Setting, IdleCall, Settling, SettingUp
  <2> QED BY <2>1, <2>2, InitOwn DEF SetUpInv
<1>2. SetUpInv /\ [Next]_vars => SetUpInv'
  <2>1. SetUpInv /\ Next => SetUpInv'
    <3> SUFFICES ASSUME SetUpInv, Next PROVE SetUpInv'
      OBVIOUS
    <3>1. OwnInv' /\ Turns'
      BY OwnKept, TurnsKept DEF SetUpInv, OwnInv, SerialInv
    <3>2. ASSUME NEW s \in Tab, calls'[s].pc \in Settling PROVE SettledAt(calls[s])'
      BY <3>2, SettingKept
    <3> QED BY <3>1, <3>2 DEF SetUpInv, Setting
  <2>2. SetUpInv /\ UNCHANGED vars => SetUpInv'
    <3>1. SetUpInv /\ UNCHANGED vars => OwnInv'
      BY OwnKept DEF SetUpInv
    <3> QED BY <3>1 DEF SetUpInv, Turns, Setting, SettledAt, Businesses, LiveBiz, vars, Tables
  <2> QED BY <2>1, <2>2
<1>3. SetUpInv => \A t \in Tab : calls[t].pc = "login" => SetUp(calls[t].user)
  <2> SUFFICES ASSUME SetUpInv, NEW t \in Tab, calls[t].pc = "login" PROVE SetUp(calls[t].user)
    OBVIOUS
  <2>1. SettledAt(calls[t])
    BY DEF SetUpInv, Setting, Settling, SettingUp
  <2> QED BY <2>1 DEF SettledAt, SetUp
<1>4. SetUpInv /\ [Next]_vars
        => [\A t \in Tab : calls[t].pc = "login" /\ calls'[t].pc = "idle" /\ tabs'[t].session = calls[t].user
              => SetUp(calls[t].user)]_vars
  BY <1>3
<1> QED BY <1>1, <1>2, <1>4, PTL DEF Spec, SignInSetsUp

-----------------------------------------------------------------------------
(* Invites. An invite that is still pending has admitted at most one user    *)
(* per crash, unless the handler that has just admitted one will mark it.    *)

Spending(i) == \E t \in Tab : calls[t].pc = "spend" /\ calls[t].inv = i
Pending(i) == invites[i] \in InviteRow /\ invites[i].status = "pending"

SparinglyUsed(i) ==
  /\ IsFiniteSet(admitted[i])
  /\ Cardinality(admitted[i]) <= 1 + crashes
  /\ invites[i] = None => admitted[i] = {}
  /\ Pending(i) /\ ~Spending(i) => Cardinality(admitted[i]) <= crashes
  /\ invites[i] \in InviteRow /\ invites[i].status = "accepted" => admitted[i] # {}

Sparing == \A i \in Invite : SparinglyUsed(i)

Admitting ==
  \A t \in Tab :
    /\ calls[t].pc = "admit" => Pending(calls[t].inv)
    /\ calls[t].pc = "spend" => admitted[calls[t].inv] # {}

InviteInv == SerialInv /\ Sparing /\ Admitting

LEMMA WhoAdmits ==
  ASSUME Next
  PROVE  UNCHANGED admitted \/ \E t \in Tab : Admit(t)
<1>1. ASSUME NEW t \in Tab, SignIn(t) PROVE UNCHANGED admitted
  BY <1>1 DEF SignIn, Register, OAuth, Login, Hashed, InsertUser, Link, AddOrg, AddOwner, FindBusiness,
     AddBusiness, SeedCategories, SeedRules, Seed, StartTrial, Enter, Logout
<1>2. ASSUME NEW t \in Tab, Page(t) PROVE UNCHANGED admitted
  BY <1>2 DEF Page, Reload, Refresh, List, Switch
<1>3. ASSUME NEW t \in Tab, Manage(t) PROVE UNCHANGED admitted \/ Admit(t)
  BY <1>3 DEF Manage, CreateBusiness, DropBusiness, Tidy, Rename, DeleteBusiness, CreateInvite, ExpireInvite,
     Accept, Spend, RemoveMember, DeleteAccount, Erase
<1> QED BY <1>1, <1>2, <1>3 DEF Next, TrialEnds, InviteLapses, Crash

(* One user is admitted by a pending invite, whose handler will mark it.     *)
LEMMA Admitted ==
  ASSUME TypeInv, NEW t \in Tab, Admit(t)
  PROVE  /\ UNCHANGED <<invites, crashes>> /\ Alone(t) /\ calls[t].pc = "admit" /\ calls[t].inv \in Invite
         /\ \/ UNCHANGED admitted /\ calls'[t] = IdleCall
            \/ /\ calls'[t].pc = "spend" /\ calls'[t].inv = calls[t].inv
               /\ admitted'[calls[t].inv] = admitted[calls[t].inv] \cup {calls[t].user}
               /\ \A i \in Invite \ {calls[t].inv} : admitted'[i] = admitted[i]
<1>1. UNCHANGED <<invites, crashes>> /\ calls[t].pc = "admit" /\ calls[t].inv \in Invite
  BY Unfolded DEF Admit, At, Fit
<1>2. CASE UNCHANGED admitted /\ Finish(t)
  BY <1>1, <1>2, Finished
<1>3. CASE Goto(t, "spend") /\ admitted' = [admitted EXCEPT ![calls[t].inv] = @ \cup {calls[t].user}]
  BY <1>1, <1>3, WentTo DEF ServerPC, TypeInv, TypeOK
<1> QED BY <1>2, <1>3 DEF Admit

LEMMA AdmittingKept == ASSUME Serial, InviteInv, Next PROVE Admitting'
<1>0. TypeInv /\ SerialInv /\ Admitting
  BY DEF InviteInv, SerialInv
<1>1. ASSUME NEW s \in Tab, calls'[s].pc = "admit" PROVE Pending(calls[s].inv)'
  <2>1. CASE calls'[s] = calls[s]
    <3>1. calls[s].pc = "admit" /\ calls[s].inv \in Invite /\ Pending(calls[s].inv)
      BY <1>0, <1>1, <2>1, Unfolded DEF Fit, Admitting
    <3>2. ~(SignIn(s) \/ Page(s) \/ Manage(s))
      <4> SUFFICES ASSUME SignIn(s) \/ Page(s) \/ Manage(s) PROVE FALSE
        OBVIOUS
      <4>1. Admit(s)
        BY <3>1, Runs
      <4>2. calls'[s].pc # "admit"
        BY <1>0, <4>1, Admitted DEF IdleCall
      <4> QED BY <1>1, <4>2
    <3>3. Elsewhere(s)
      <4>1. calls[s].pc \notin Open /\ calls'[s] # IdleCall
        BY <1>1, <3>1 DEF Open, IdleCall
      <4> QED BY <1>0, <3>2, <4>1, WhoMoves
    <3>4. PICK i \in Invite : i = calls[s].inv
      BY <3>1
    <3>5. Pending(i)'
      <4>1. CASE UNCHANGED invites
        BY <3>1, <3>4, <4>1 DEF Pending
      <4>2. ASSUME NEW j \in Invite, InviteLapses(j) PROVE Pending(i)'
        <5> DEFINE row == [invites[j] EXCEPT !.due = TRUE]
        <5>1. invites[j] \in InviteRow /\ invites' = [invites EXCEPT ![j] = row]
          BY <1>0, <4>2, Unfolded DEF InviteLapses
        <5>2. row \in InviteRow /\ row.status = invites[j].status
          BY <5>1 DEF InviteRow
        <5> HIDE DEF row
        <5> QED BY <1>0, <3>1, <3>4, <5>1, <5>2 DEF Pending, TypeInv, TypeOK
      <4> QED BY <3>3, <4>1, <4>2 DEF Elsewhere, TrialEnds
    <3> QED BY <2>1, <3>4, <3>5 DEF Pending
  <2>2. ASSUME NEW i \in Invite, Accept(s, i), calls'[s] # calls[s] PROVE Pending(calls[s].inv)'
    BY <1>0, <1>1, <2>2, AcceptedCall DEF Pending
  <2>3. calls'[s] # IdleCall
    BY <1>1 DEF IdleCall
  <2> QED BY <1>0, <1>1, <2>1, <2>2, <2>3, HowArrived DEF Arrives
<1>2. ASSUME NEW s \in Tab, calls'[s].pc = "spend" PROVE admitted'[calls'[s].inv] # {}
  <2>1. CASE calls'[s] = calls[s]
    <3>1. admitted[calls[s].inv] # {} /\ calls[s].inv \in Invite
      BY <1>0, <1>2, <2>1, Unfolded DEF Fit, Admitting
    <3>2. CASE UNCHANGED admitted
      BY <2>1, <3>1, <3>2
    <3>3. ASSUME NEW t \in Tab, Admit(t) PROVE admitted[calls[s].inv] \subseteq admitted'[calls[s].inv]
      BY <1>0, <3>1, <3>3, Admitted
    <3> QED BY <2>1, <3>1, <3>2, <3>3, WhoAdmits
  <2>2. CASE Admit(s)
    BY <1>0, <1>2, <2>2, Admitted DEF IdleCall
  <2>3. calls'[s] # IdleCall
    BY <1>2 DEF IdleCall
  <2> QED BY <1>0, <1>2, <2>1, <2>2, <2>3, HowArrived DEF Arrives
<1> QED BY <1>1, <1>2 DEF Admitting

LEMMA CrashesGrow ==
  ASSUME TypeInv, Next
  PROVE  crashes \in Nat /\ crashes' \in Nat /\ (crashes' = crashes \/ (Crash /\ crashes' = crashes + 1))
<1>1. ASSUME NEW t \in Tab, SignIn(t) PROVE UNCHANGED crashes
  BY <1>1 DEF SignIn, Register, OAuth, Login, Hashed, InsertUser, Link, AddOrg, AddOwner, FindBusiness,
     AddBusiness, SeedCategories, SeedRules, Seed, StartTrial, Enter, Logout
<1>2. ASSUME NEW t \in Tab, Page(t) \/ Manage(t) PROVE UNCHANGED crashes
  BY <1>2 DEF Page, Reload, Refresh, List, Switch, Manage, CreateBusiness, DropBusiness, Tidy, Rename,
     DeleteBusiness, CreateInvite, ExpireInvite, Accept, Admit, Spend, RemoveMember, DeleteAccount, Erase
<1>3. crashes \in Nat
  BY TenancyAssumption DEF TypeInv, TypeOK
<1> QED BY <1>1, <1>2, <1>3 DEF Next, TrialEnds, InviteLapses, Crash

(* What a step that lets a user in does to the count of its invite. *)
LEMMA OneMore ==
  ASSUME InviteInv, Next, NEW t \in Tab, Admit(t), NEW i \in Invite, admitted'[i] # admitted[i]
  PROVE  SparinglyUsed(i)'
<1>0. TypeInv /\ SerialInv /\ SparinglyUsed(i) /\ Admitting
  BY DEF InviteInv, SerialInv, Sparing
<1>1. /\ UNCHANGED <<invites, crashes>> /\ calls[t].pc = "admit" /\ calls[t].inv = i
      /\ calls'[t].pc = "spend" /\ calls'[t].inv = i
      /\ admitted'[i] = admitted[i] \cup {calls[t].user}
  BY <1>0, Admitted
<1>2. Pending(i)
  BY <1>0, <1>1 DEF Admitting
<1>3. ~Spending(i)
  <2>1. Acts(t)
    BY TabActs DEF Manage
  <2>2. \A s \in Tab \ {t} : calls[s].pc # "spend"
    BY <1>0, <2>1, OnlyOne DEF Open
  <2> QED BY <1>1, <2>2 DEF Spending
<1>4. IsFiniteSet(admitted[i]) /\ Cardinality(admitted[i]) <= crashes /\ crashes \in Nat
  BY <1>0, <1>2, <1>3, CrashesGrow DEF SparinglyUsed
<1>5. IsFiniteSet(admitted'[i]) /\ Cardinality(admitted'[i]) <= Cardinality(admitted[i]) + 1
  <2> DEFINE A == admitted[i]  u == calls[t].user
  <2>1. IsFiniteSet(A) /\ Cardinality(A) \in Nat
    BY <1>4, FS_CardinalityType
  <2>2. admitted'[i] = A \cup {u}
    BY <1>1
  <2> HIDE DEF A, u
  <2>3. /\ IsFiniteSet(A \cup {u})
        /\ Cardinality(A \cup {u}) = IF u \in A THEN Cardinality(A) ELSE Cardinality(A) + 1
    BY <2>1, FS_AddElement
  <2>4. IsFiniteSet(A \cup {u}) /\ Cardinality(A \cup {u}) <= Cardinality(A) + 1
    BY <2>1, <2>3
  <2> QED BY <2>2, <2>4 DEF A
<1>6. Cardinality(admitted[i]) \in Nat /\ Cardinality(admitted'[i]) \in Nat
  BY <1>4, <1>5, FS_CardinalityType
<1>7. Cardinality(admitted'[i]) <= 1 + crashes'
  BY <1>1, <1>4, <1>5, <1>6
<1>8. Spending(i)'
  BY <1>1 DEF Spending
<1>9. invites'[i] # None /\ invites'[i].status = "pending"
  BY <1>1, <1>2, Sentinels DEF Pending
<1> QED BY <1>5, <1>7, <1>8, <1>9 DEF SparinglyUsed

LEMMA InvitedRow ==
  ASSUME TypeInv, NEW i \in Invite, Invited(i)
  PROVE  invites[i] = None /\ invites'[i].status = "pending" /\ invites'[i] # None
<1>1. PICK t \in Tab : /\ invites[i] = None /\ AsOwner(t)
                       /\ invites'[i] = [org |-> OrgAt(t, tabs[t].header), by |-> tabs[t].session,
                                         status |-> "pending", due |-> FALSE]
  BY DEF Invited
<1>2. OrgAt(t, tabs[t].header) \in UserId /\ tabs[t].session \in UserId
  BY <1>1, OwnerOK
<1>3. invites'[i].status = "pending"
  BY <1>1
<1>4. invites'[i] \in InviteRow
  BY <1>1, <1>2 DEF InviteRow
<1> QED BY <1>1, <1>3, <1>4, Sentinels

(* A step that lets nobody in by an invite. *)
LEMMA NoMore ==
  ASSUME InviteInv, Next, NEW i \in Invite, admitted'[i] = admitted[i]
  PROVE  SparinglyUsed(i)'
<1>0. TypeInv /\ SerialInv /\ SparinglyUsed(i) /\ Admitting
  BY DEF InviteInv, SerialInv, Sparing
<1>1. /\ IsFiniteSet(admitted[i]) /\ Cardinality(admitted[i]) \in Nat
      /\ crashes \in Nat /\ crashes' \in Nat /\ crashes <= crashes'
  BY <1>0, CrashesGrow, FS_CardinalityType DEF SparinglyUsed
<1>2. ASSUME invites'[i] = None PROVE admitted[i] = {}
  <2>1. ~Marked(i)
    BY <1>2, Sentinels DEF Marked
  <2>2. ~Invited(i)
    BY <1>0, <1>2, InvitedRow
  <2> QED BY <1>0, <1>2, <2>1, <2>2, InviteMoves, Sentinels DEF SparinglyUsed
<1>3. ASSUME Invited(i) PROVE admitted[i] = {} /\ Cardinality(admitted[i]) = 0
  BY <1>0, <1>3, InvitedRow, FS_EmptySet DEF SparinglyUsed
<1>4. ASSUME Pending(i)', ~Spending(i)' PROVE Cardinality(admitted[i]) <= crashes'
  <2>1. CASE Invited(i)
    BY <1>1, <1>3, <2>1
  <2>2. CASE Pending(i) /\ ~Spending(i)
    BY <1>0, <1>1, <2>2 DEF SparinglyUsed
  <2>3. ASSUME Pending(i), NEW t \in Tab, calls[t].pc = "spend", calls[t].inv = i
        PROVE  Cardinality(admitted[i]) <= crashes'
    <3>1. ~(SignIn(t) \/ Page(t) \/ Manage(t))
      <4> SUFFICES ASSUME SignIn(t) \/ Page(t) \/ Manage(t) PROVE FALSE
        OBVIOUS
      <4>1. SetStatus(i, "accepted")
        BY <2>3, Runs DEF Spend
      <4>2. invites[i] # None /\ invites[i] # Gone
        BY <2>3, Sentinels DEF Pending
      <4>3. invites'[i] = [invites[i] EXCEPT !.status = "accepted"]
        BY <1>0, <4>1, <4>2, SetStatusOK
      <4>4. invites'[i].status = "accepted"
        BY <2>3, <4>3 DEF Pending, InviteRow
      <4> QED BY <1>4, <4>4 DEF Pending
    <3>2. ~UNCHANGED calls
      BY <1>4, <2>3 DEF Spending
    <3>3. Crash
      BY <1>0, <2>3, <3>1, <3>2, WhoMoves DEF Open
    <3>4. crashes' = crashes + 1
      BY <3>3 DEF Crash
    <3> QED BY <1>0, <1>1, <3>4 DEF SparinglyUsed
  <2>4. Pending(i) \/ Invited(i)
    <3>1. CASE Marked(i)
      BY <1>4, <3>1 DEF Marked, Pending
    <3>2. invites'[i] # Gone
      BY <1>4, Sentinels DEF Pending
    <3> QED BY <1>0, <1>4, <3>1, <3>2, InviteMoves DEF Pending
  <2> QED BY <2>1, <2>2, <2>3, <2>4 DEF Spending
<1>5. ASSUME invites'[i] \in InviteRow, invites'[i].status = "accepted" PROVE admitted[i] # {}
  <2>1. ~Invited(i)
    BY <1>0, <1>5, InvitedRow
  <2>2. CASE Marked(i)
    <3>1. CASE invites[i] \in InviteRow /\ invites[i].status = "accepted"
      BY <1>0, <3>1 DEF SparinglyUsed
    <3>2. ASSUME NEW t \in Tab, Spend(t), calls[t].inv = i PROVE admitted[i] # {}
      BY <1>0, <3>2 DEF Spend, At, Admitting
    <3> QED BY <1>5, <2>2, <3>1, <3>2 DEF Marked
  <2>3. invites'[i] # Gone
    BY <1>5, Sentinels
  <2> QED BY <1>0, <1>5, <2>1, <2>2, <2>3, InviteMoves DEF SparinglyUsed
<1>6. Cardinality(admitted[i]) <= 1 + crashes'
  BY <1>0, <1>1 DEF SparinglyUsed
<1> QED BY <1>1, <1>2, <1>4, <1>5, <1>6 DEF SparinglyUsed

(* On one event loop, an invite lets in at most one user and one more per    *)
(* crash of the server, and it is never marked accepted without having let   *)
(* somebody in.                                                              *)
THEOREM InvitesAreUsedOnce == ASSUME Serial PROVE Spec => []InviteIsUsedOnce
<1>1. Init => InviteInv
  <2> SUFFICES ASSUME Init PROVE InviteInv
    OBVIOUS
  <2>1. \A t \in Tab : calls[t].pc = "idle"
    BY DEF Init, IdleCall
  <2>2. SerialInv
    BY <2>1, InitTypes DEF SerialInv, Turns, Open
  <2>3. \A i \in Invite : admitted[i] = {} /\ invites[i] = None /\ crashes = 0
    BY DEF Init
  <2>4. \A i \in Invite : ~Pending(i) /\ ~(invites[i] \in InviteRow)
    BY <2>3, Sentinels DEF Pending
  <2>5. IsFiniteSet({}) /\ Cardinality({}) = 0
    BY FS_EmptySet
  <2>6. ASSUME NEW i \in Invite PROVE SparinglyUsed(i)
    BY <2>3, <2>4, <2>5 DEF SparinglyUsed
  <2> QED BY <2>1, <2>2, <2>6 DEF InviteInv, Sparing, Admitting
<1>2. InviteInv /\ [Next]_vars => InviteInv'
  <2>1. ASSUME InviteInv, Next PROVE InviteInv'
    <3>1. SerialInv'
      BY <2>1, TypeStep, TurnsKept DEF InviteInv, SerialInv
    <3>2. ASSUME NEW i \in Invite PROVE SparinglyUsed(i)'
      BY <2>1, OneMore, NoMore, WhoAdmits
    <3> QED BY <2>1, <3>1, <3>2, AdmittingKept DEF InviteInv, Sparing
  <2>2. ASSUME InviteInv, UNCHANGED vars PROVE InviteInv'
    <3>1. SerialInv'
      BY <2>2, TypeKept DEF InviteInv, SerialInv, Turns, vars
    <3> QED BY <2>2, <3>1 DEF InviteInv, Sparing, SparinglyUsed, Spending, Pending, Admitting, vars, Tables
  <2> QED BY <2>1, <2>2
<1>3. InviteInv => InviteIsUsedOnce
  <2> SUFFICES ASSUME InviteInv, NEW i \in Invite
               PROVE  /\ Cardinality(admitted[i]) <= 1 + crashes
                      /\ invites[i] \notin {None, Gone} /\ invites[i].status = "accepted" => admitted[i] # {}
    BY DEF InviteIsUsedOnce
  <2> QED BY Unfolded DEF InviteInv, SerialInv, Sparing, SparinglyUsed
<1> QED BY <1>1, <1>2, <1>3, PTL DEF Spec
=============================================================================
