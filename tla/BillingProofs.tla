---------------------------- MODULE BillingProofs ----------------------------
(***************************************************************************)
(* Proofs about Billing, for every value of its constants.                 *)
(***************************************************************************)
EXTENDS Billing, SequenceTheorems, FiniteSetTheorems, TLAPS

(* What a handler has read and found out by the time it gets to a step. *)
Shape(q) ==
  /\ q.pc = "saveCustomer" => q.seen # None /\ q.customer \in Customer
  /\ q.pc \in {"list", "newSub", "saveSub"} =>
       q.seen # None /\ q.seen.customer \in Customer /\ q.tier \in Tier
  /\ q.pc = "saveSub" => q.sub \in Sub /\ q.status \in StripeStatus
  /\ q.pc = "grant" => q.tier \in Tier
  /\ q.pc = "revoke" => q.seen # None

(* A row that was seen stays: no handler deletes it. *)
SeenStays == \A r \in Request : req[r].seen # None => row # None

(* Only the user's pages run the handlers of a page, only administrators theirs. *)
Roles ==
  /\ \A r \in Tab : req[r].pc \notin {"grant", "revoke"}
  /\ \A r \in Admin : req[r].pc \in {"idle", "grant", "revoke"}

TypeInv == TypeOK /\ SeenStays /\ Roles /\ \A r \in Request : Shape(req[r])

(* TypeInv, variable by variable. *)
RowFits == row \in Row \cup {None} /\ SeenStays
StripeFits ==
  /\ customers \in SUBSET Customer
  /\ DOMAIN subs \in SUBSET Sub /\ subs \in [DOMAIN subs -> Subscription]
  /\ events \in Seq(Event)
ReqFits == /\ req \in [Request -> ReqState] /\ Roles /\ \A r \in Request : Shape(req[r])
           /\ turn \in Request \cup {None}

-----------------------------------------------------------------------------
(* Sequences of events, subscriptions and requests.                        *)

LEMMA Removed ==
  ASSUME NEW S, NEW s \in Seq(S), NEW i \in DOMAIN s
  PROVE  /\ RemoveAt(s, i) \in Seq(S) /\ Len(RemoveAt(s, i)) = Len(s) - 1
         /\ \A j \in 1..Len(s) - 1 : RemoveAt(s, i)[j] = IF j < i THEN s[j] ELSE s[j + 1]
<1>1. i \in 1..Len(s) /\ Len(s) \in Nat
  OBVIOUS
<1> DEFINE a == SubSeq(s, 1, i - 1)
           b == SubSeq(s, i + 1, Len(s))
<1>2. a \in Seq(S) /\ Len(a) = i - 1 /\ \A j \in 1..i - 1 : a[j] = s[j]
  <2>1. \A j \in 1..i - 1 : s[j] \in S
    BY <1>1
  <2>2. /\ SubSeq(s, 1, i - 1) \in Seq(S)
        /\ Len(SubSeq(s, 1, i - 1)) = IF 1 <= i - 1 THEN i - 1 - 1 + 1 ELSE 0
        /\ \A j \in 1..i - 1 - 1 + 1 : SubSeq(s, 1, i - 1)[j] = s[1 + j - 1]
    BY <1>1, <2>1, SubSeqProperties
  <2> QED BY <1>1, <2>2
<1>3. b \in Seq(S) /\ Len(b) = Len(s) - i /\ \A j \in 1..Len(s) - i : b[j] = s[i + j]
  <2>1. \A j \in i + 1..Len(s) : s[j] \in S
    BY <1>1
  <2>2. /\ SubSeq(s, i + 1, Len(s)) \in Seq(S)
        /\ Len(SubSeq(s, i + 1, Len(s))) = IF i + 1 <= Len(s) THEN Len(s) - (i + 1) + 1 ELSE 0
        /\ \A j \in 1..Len(s) - (i + 1) + 1 : SubSeq(s, i + 1, Len(s))[j] = s[i + 1 + j - 1]
    BY <1>1, <2>1, SubSeqProperties
  <2> QED BY <1>1, <2>2
<1>4. RemoveAt(s, i) = a \o b
  BY DEF RemoveAt
<1> HIDE DEF a, b
<1>5. /\ a \o b \in Seq(S) /\ Len(a \o b) = Len(a) + Len(b)
      /\ \A j \in 1..Len(a) + Len(b) : (a \o b)[j] = IF j <= Len(a) THEN a[j] ELSE b[j - Len(a)]
  BY <1>2, <1>3, ConcatProperties
<1>6. ASSUME NEW j \in 1..Len(s) - 1
      PROVE  (a \o b)[j] = IF j < i THEN s[j] ELSE s[j + 1]
  <2>1. CASE j < i
    BY <1>1, <1>2, <1>3, <1>5, <1>6, <2>1
  <2>2. CASE j >= i
    <3>1. j - (i - 1) \in 1..Len(s) - i /\ i + (j - (i - 1)) = j + 1
      BY <1>1, <1>6, <2>2
    <3>2. b[j - (i - 1)] = s[j + 1]
      BY <1>3, <3>1
    <3>3. (a \o b)[j] = b[j - (i - 1)]
      <4>1. Len(a) = i - 1 /\ Len(b) = Len(s) - i
        BY <1>2, <1>3
      <4>2. j \in 1..Len(a) + Len(b) /\ ~(j <= Len(a))
        BY <1>1, <1>6, <2>2, <4>1
      <4> QED BY <1>5, <4>1, <4>2
    <3> QED BY <1>1, <1>6, <2>2, <3>2, <3>3
  <2>3. j < i \/ j >= i
    BY <1>1
  <2> HIDE DEF a, b
  <2> QED BY <2>1, <2>2, <2>3
<1>7. Len(a \o b) = Len(s) - 1
  BY <1>1, <1>2, <1>3, <1>5
<1>8. RemoveAt(s, i) \in Seq(S) /\ Len(RemoveAt(s, i)) = Len(s) - 1
  BY <1>4, <1>5, <1>7
<1>9. \A j \in 1..Len(s) - 1 : RemoveAt(s, i)[j] = IF j < i THEN s[j] ELSE s[j + 1]
  <2> TAKE j \in 1..Len(s) - 1
  <2>1. (a \o b)[j] = IF j < i THEN s[j] ELSE s[j + 1]
    BY <1>6
  <2> QED BY <1>4, <2>1, Zenon
<1> QED BY <1>8, <1>9

EventType == {"created", "updated", "deleted", "paid", "failed"}

LEMMA BecomesOK ==
  ASSUME StripeFits, NEW s \in Sub, NEW sub \in Subscription, NEW types \in Seq(EventType),
         Becomes(s, sub, types)
  PROVE  /\ DOMAIN subs' \in SUBSET Sub /\ subs' \in [DOMAIN subs' -> Subscription]
         /\ DOMAIN subs' = DOMAIN subs \cup {s} /\ subs'[s] = sub
         /\ \A x \in DOMAIN subs : x # s => subs'[x] = subs[x]
         /\ events' \in Seq(Event) /\ Len(events') = Len(events) + Len(types)
         /\ \A j \in 1..Len(events) : events'[j] = events[j]
         /\ \A j \in 1..Len(types) : events'[Len(events) + j] = EventOf(types[j], s, sub)
<1>1. /\ DOMAIN subs' \in SUBSET Sub /\ subs' \in [DOMAIN subs' -> Subscription]
      /\ DOMAIN subs' = DOMAIN subs \cup {s} /\ subs'[s] = sub
      /\ \A x \in DOMAIN subs : x # s => subs'[x] = subs[x]
  BY DEF Becomes, StripeFits
<1> DEFINE new == [k \in DOMAIN types |-> EventOf(types[k], s, sub)]
<1>2. DOMAIN types = 1..Len(types) /\ Len(types) \in Nat
  OBVIOUS
<1>3. \A k \in DOMAIN types : EventOf(types[k], s, sub) \in Event
  BY DEF EventOf, Event, Subscription, EventType
<1>4. new \in Seq(Event) /\ Len(new) = Len(types)
  BY <1>2, <1>3
<1>5. \A j \in 1..Len(types) : new[j] = EventOf(types[j], s, sub)
  BY <1>2
<1>6. events \in Seq(Event) /\ events' = events \o new
  BY DEF Becomes, StripeFits
<1> HIDE DEF new
<1>7. /\ events \o new \in Seq(Event) /\ Len(events \o new) = Len(events) + Len(new)
      /\ \A j \in 1..Len(events) + Len(new) :
           (events \o new)[j] = IF j <= Len(events) THEN events[j] ELSE new[j - Len(events)]
  BY <1>4, <1>6, ConcatProperties
<1>8. \A j \in 1..Len(types) : events'[Len(events) + j] = EventOf(types[j], s, sub)
  <2> TAKE j \in 1..Len(types)
  <2>1. Len(events) + j \in 1..Len(events) + Len(new) /\ ~(Len(events) + j <= Len(events))
        /\ Len(events) + j - Len(events) = j
    BY <1>4, <1>6, <1>2
  <2> QED BY <1>5, <1>6, <1>7, <2>1
<1>9. \A j \in 1..Len(events) : events'[j] = events[j]
  BY <1>4, <1>6, <1>7
<1> QED BY <1>1, <1>4, <1>6, <1>7, <1>8, <1>9

LEMMA TypesOK ==
  /\ \A e \in EventType : <<e>> \in Seq(EventType) /\ Len(<<e>>) = 1 /\ <<e>>[1] = e
  /\ \A e, f \in EventType : /\ <<e, f>> \in Seq(EventType) /\ Len(<<e, f>>) = 2
                             /\ <<e, f>>[1] = e /\ <<e, f>>[2] = f
OBVIOUS

(* One request moves, the others stay. *)
MovesOnly(r) == \A q \in Request : q # r => req'[q] = req[q]

LEMMA GotoOK ==
  ASSUME req \in [Request -> ReqState], NEW r \in Request, NEW to \in PC,
         NEW locals \in ReqState, Goto(r, to, locals)
  PROVE  /\ req' \in [Request -> ReqState] /\ turn' = None /\ MovesOnly(r)
         /\ req'[r].pc = to
         /\ to = "idle" => req'[r] = IdleReq
         /\ to # "idle" => /\ req'[r].tier = locals.tier /\ req'[r].seen = locals.seen
                           /\ req'[r].customer = locals.customer /\ req'[r].sub = locals.sub
                           /\ req'[r].status = locals.status /\ req'[r].insync = locals.insync
<1>1. IdleReq \in ReqState
  BY DEF IdleReq, ReqState, PC, StripeCalls
<1>2. CASE to = "idle"
  <2>1. req' = [req EXCEPT ![r] = IdleReq] /\ turn' = None
    BY <1>2 DEF Goto
  <2> QED BY <1>1, <1>2, <2>1 DEF MovesOnly, IdleReq
<1>3. CASE to # "idle"
  <2> DEFINE q == [locals EXCEPT !.pc = to]
  <2>1. /\ q \in ReqState /\ q.pc = to
        /\ q.tier = locals.tier /\ q.seen = locals.seen /\ q.customer = locals.customer
        /\ q.sub = locals.sub /\ q.status = locals.status /\ q.insync = locals.insync
    BY DEF ReqState
  <2>2. req' = [req EXCEPT ![r] = q] /\ turn' = None
    BY <1>3 DEF Goto
  <2> HIDE DEF q
  <2> QED BY <1>3, <2>1, <2>2 DEF MovesOnly
<1> QED BY <1>2, <1>3

LEMMA BeginOK ==
  ASSUME req \in [Request -> ReqState], row \in Row \cup {None}, NEW r \in Request, NEW op,
         NEW to \in PC, NEW locals \in ReqState, Begin(r, op, to, locals)
  PROVE  /\ req' \in [Request -> ReqState] /\ MovesOnly(r) /\ req[r].pc = "idle"
         /\ req'[r].pc = to /\ req'[r].seen = row
         /\ req'[r].tier = locals.tier /\ req'[r].sub = locals.sub
         /\ req'[r].status = locals.status /\ req'[r].insync = locals.insync
         /\ turn = None
         /\ turn' = IF Backend = "sqlite" /\ to \in {"deleteUser", "grant", "revoke"}
                    THEN r ELSE None
         /\ UNCHANGED <<user, row, customers, subs, events>>
<1> DEFINE q == [locals EXCEPT !.pc = to, !.seen = row]
<1>1. /\ q \in ReqState /\ q.pc = to /\ q.seen = row /\ q.tier = locals.tier
      /\ q.sub = locals.sub /\ q.status = locals.status /\ q.insync = locals.insync
  BY DEF ReqState
<1>2. req' = [req EXCEPT ![r] = q] /\ req[r].pc = "idle"
  BY DEF Begin, Resting
<1> HIDE DEF q
<1> QED BY <1>1, <1>2 DEF Begin, MovesOnly, Stripe

LEMMA FitIsTypeInv ==
  TypeInv <=> user \in {"live", "deleted", "deletedInSync"} /\ RowFits /\ StripeFits /\ ReqFits
BY DEF TypeInv, TypeOK, RowFits, StripeFits, ReqFits

LEMMA FitIsTypeInvNext ==
  TypeInv' <=> user' \in {"live", "deleted", "deletedInSync"} /\ RowFits' /\ StripeFits' /\ ReqFits'
BY DEF TypeInv, TypeOK, RowFits, StripeFits, ReqFits

LEMMA Unfolded ==
  ASSUME TypeInv
  PROVE  /\ req \in [Request -> ReqState] /\ row \in Row \cup {None} /\ None \notin Row
         /\ \A r \in Request : req[r] \in ReqState /\ Shape(req[r])
         /\ \A r \in Request : req[r].seen # None => row # None
         /\ \A r \in Request : req[r].seen # None => req[r].seen \in Row
         /\ IdleReq \in ReqState
         /\ \A s \in DOMAIN subs : s \in Sub /\ subs[s] \in Subscription
         /\ \A i \in DOMAIN events : events[i] \in Event
         /\ None \notin Sub \cup Customer
<1>1. IdleReq \in ReqState
  BY DEF IdleReq, ReqState, PC, StripeCalls
<1>2. \A r \in Request : req[r].seen # None => req[r].seen \in Row
  BY DEF TypeInv, TypeOK, ReqState
<1>3. \A i \in DOMAIN events : events[i] \in Event
  BY DEF TypeInv, TypeOK
<1> QED BY <1>1, <1>2, <1>3, RowAssumption, BillingAssumption DEF TypeInv, TypeOK, SeenStays

LEMMA RequestRole ==
  /\ Tab \subseteq Request /\ Admin \subseteq Request /\ Request = Tab \cup Admin
  /\ \A r \in Tab : r \notin Admin
BY BillingAssumption DEF Request

(* What a step of the handler of r does, whichever it is. *)
Acts(r) ==
  \/ BeginSetup(r) \/ (\E t \in Tier : BeginSubscribe(r, t))
  \/ BeginEnding(r, "cancel", "setEnding") \/ BeginEnding(r, "reactivate", "unsetEnding")
  \/ BeginDelete(r) \/ (\E t \in Tier : BeginGrant(r, t)) \/ BeginRevoke(r)
  \/ Continue(r) \/ CallFails(r) \/ AnswerLost(r)

NoRequest ==
  \/ ExtendTrial \/ TrialEnds
  \/ \E s \in DOMAIN subs : StripeMoves(s)
  \/ Webhook

LEMMA NextActs ==
  ASSUME Next
  PROVE  \/ \E r \in Tab : FromTab(r)
         \/ \E r \in Admin : FromAdmin(r)
         \/ \E r \in Request : Continue(r) \/ CallFails(r) \/ AnswerLost(r)
         \/ NoRequest \/ Crash
BY DEF Next, NoRequest

LEMMA NoRequestQuiet ==
  ASSUME NoRequest
  PROVE  UNCHANGED <<req, turn, user, customers>>
BY DEF NoRequest, ExtendTrial, TrialEnds, StripeMoves, Webhook, Moves, PaymentSucceeds,
       PaymentFails, GivesUp, PeriodEnds, Deliver, Stripe

-----------------------------------------------------------------------------
(* Every step keeps TypeInv.                                               *)

(* After a step of r its request is well-shaped and of its role, and what it  *)
(* has seen is the row of now or of before.                                *)
MovedOK(r) ==
  /\ req' \in [Request -> ReqState] /\ MovesOnly(r)
  /\ Shape(req'[r])
  /\ r \in Tab => req'[r].pc \notin {"grant", "revoke"}
  /\ r \in Admin => req'[r].pc \in {"idle", "grant", "revoke"}
  /\ req'[r].seen # None => row # None
  /\ turn' \in Request \cup {None}

LEMMA FromTabMoves == ASSUME TypeInv, NEW r \in Tab, FromTab(r) PROVE MovedOK(r)
<1>1. r \in Request /\ r \notin Admin
  BY RequestRole
<1>2. req \in [Request -> ReqState] /\ row \in Row \cup {None} /\ IdleReq \in ReqState
  BY Unfolded
<1>3. CASE BeginSetup(r)
  <2>1. Begin(r, "setup", "newCustomer", IdleReq) /\ "newCustomer" \in PC
    BY <1>3 DEF BeginSetup, PC, StripeCalls
  <2> QED BY <1>1, <1>2, <2>1, BeginOK DEF MovedOK, Shape
<1>4. ASSUME NEW t \in Tier, BeginSubscribe(r, t) PROVE MovedOK(r)
  <2> DEFINE q == [IdleReq EXCEPT !.tier = t]
  <2>1. Begin(r, "subscribe", "list", q) /\ "list" \in PC /\ row # None /\ row.customer # None
    BY <1>4 DEF BeginSubscribe, PC, StripeCalls
  <2>2. q \in ReqState /\ q.tier = t
    BY DEF IdleReq, ReqState, PC, StripeCalls
  <2>3. row.customer \in Customer
    BY <1>2, <2>1 DEF Row
  <2> HIDE DEF q
  <2> QED BY <1>1, <1>2, <2>1, <2>2, <2>3, BeginOK DEF MovedOK, Shape
<1>5. ASSUME NEW op, NEW to \in {"setEnding", "unsetEnding"}, BeginEnding(r, op, to) PROVE MovedOK(r)
  <2> DEFINE q == [IdleReq EXCEPT !.sub = row.sub]
  <2>1. Begin(r, op, to, q) /\ to \in PC /\ row # None
    BY <1>5 DEF BeginEnding, PC, StripeCalls
  <2>2. q \in ReqState
    BY <1>2, <2>1 DEF IdleReq, ReqState, PC, StripeCalls, Row
  <2> HIDE DEF q
  <2> QED BY <1>1, <1>2, <2>1, <2>2, BeginOK DEF MovedOK, Shape
<1>6. CASE BeginDelete(r)
  <2> DEFINE x == IF row = None THEN None ELSE row.sub
             b == (events = <<>>)
             q == [IdleReq EXCEPT !.sub = x, !.insync = b]
             to == IF row # None /\ row.sub # None THEN "cancelNow" ELSE "deleteUser"
  <2>1. Begin(r, "delete", to, q)
    BY <1>6 DEF BeginDelete
  <2>2. q \in ReqState
    <3>1. x \in Sub \cup {None} /\ b \in BOOLEAN
      BY <1>2 DEF Row
    <3> HIDE DEF x, b
    <3> QED BY <3>1 DEF IdleReq, ReqState, PC, StripeCalls
  <2>3. to \in PC /\ to \in {"cancelNow", "deleteUser"}
    BY DEF PC, StripeCalls
  <2> HIDE DEF x, b, q, to
  <2> QED BY <1>1, <1>2, <2>1, <2>2, <2>3, BeginOK DEF MovedOK, Shape
<1> QED BY <1>3, <1>4, <1>5, <1>6 DEF FromTab

LEMMA FromAdminMoves == ASSUME TypeInv, NEW r \in Admin, FromAdmin(r) PROVE MovedOK(r)
<1>1. r \in Request /\ r \notin Tab
  BY RequestRole
<1>2. req \in [Request -> ReqState] /\ row \in Row \cup {None} /\ IdleReq \in ReqState
  BY Unfolded
<1>3. ASSUME NEW t \in Tier, BeginGrant(r, t) PROVE MovedOK(r)
  <2> DEFINE q == [IdleReq EXCEPT !.tier = t]
  <2>1. Begin(r, "grant", "grant", q) /\ "grant" \in PC
    BY <1>3 DEF BeginGrant, PC
  <2>2. q \in ReqState /\ q.tier = t
    BY DEF IdleReq, ReqState, PC, StripeCalls
  <2> HIDE DEF q
  <2> QED BY <1>1, <1>2, <2>1, <2>2, BeginOK DEF MovedOK, Shape
<1>4. CASE BeginRevoke(r)
  <2>1. Begin(r, "revoke", "revoke", IdleReq) /\ "revoke" \in PC /\ row # None
    BY <1>4 DEF BeginRevoke, PC
  <2> QED BY <1>1, <1>2, <2>1, BeginOK DEF MovedOK, Shape
<1> QED BY <1>3, <1>4 DEF FromAdmin

(* Goto with the locals that a handler had, a few of them changed. *)
LEMMA GotoMoves ==
  ASSUME TypeInv, NEW r \in Request, NEW to \in PC, NEW locals \in ReqState, Goto(r, to, locals),
         locals.seen = req[r].seen,
         to # "idle" => Shape([locals EXCEPT !.pc = to]),
         to \notin {"grant", "revoke"}, to = "idle" \/ r \in Tab
  PROVE  MovedOK(r)
<1>1. req \in [Request -> ReqState] /\ (req[r].seen # None => row # None) /\ IdleReq \in ReqState
  BY Unfolded
<1>2. /\ req' \in [Request -> ReqState] /\ turn' = None /\ MovesOnly(r) /\ req'[r].pc = to
      /\ to = "idle" => req'[r] = IdleReq
      /\ to # "idle" => /\ req'[r].tier = locals.tier /\ req'[r].seen = locals.seen
                        /\ req'[r].customer = locals.customer /\ req'[r].sub = locals.sub
                        /\ req'[r].status = locals.status /\ req'[r].insync = locals.insync
  BY <1>1, GotoOK
<1>3. Shape(req'[r])
  <2>1. CASE to = "idle"
    BY <1>2, <2>1 DEF Shape, IdleReq
  <2>2. CASE to # "idle"
    <3> DEFINE q == [locals EXCEPT !.pc = to]
    <3>1. /\ q.pc = to /\ q.tier = locals.tier /\ q.seen = locals.seen
          /\ q.customer = locals.customer /\ q.sub = locals.sub /\ q.status = locals.status
      BY DEF ReqState
    <3>2. Shape(q)
      BY <2>2
    <3> HIDE DEF q
    <3> QED BY <1>2, <2>2, <3>1, <3>2 DEF Shape
  <2> QED BY <2>1, <2>2
<1>4. req'[r].seen # None => row # None
  BY <1>1, <1>2 DEF IdleReq
<1>5. r \in Admin => req'[r].pc = "idle"
  BY <1>2, RequestRole
<1> QED BY <1>2, <1>3, <1>4, <1>5 DEF MovedOK

LEMMA GoIdle ==
  ASSUME TypeInv, NEW r \in Request, NEW locals, Goto(r, "idle", locals)
  PROVE  MovedOK(r) /\ req'[r] = IdleReq /\ turn' = None
<1>1. req \in [Request -> ReqState] /\ IdleReq \in ReqState
  BY Unfolded
<1>2. req' = [req EXCEPT ![r] = IdleReq] /\ turn' = None
  BY DEF Goto
<1> QED BY <1>1, <1>2 DEF MovedOK, MovesOnly, Shape, IdleReq

LEMMA PageRole ==
  ASSUME TypeInv, NEW r \in Request, req[r].pc \notin {"idle", "grant", "revoke"}
  PROVE  r \in Tab
BY RequestRole DEF TypeInv, Roles

LEMMA ContinueMoves == ASSUME TypeInv, NEW r \in Request, Continue(r) PROVE MovedOK(r)
<1>1. req[r] \in ReqState /\ Shape(req[r])
  BY Unfolded
<1> DEFINE c == req[r]
<1>2. CASE NewCustomer(r)
  <2>1. PICK k \in Customer :
          Goto(r, IF c.seen = None THEN "idle" ELSE "saveCustomer", [c EXCEPT !.customer = k])
    BY <1>2 DEF NewCustomer, AddCustomer
  <2>2. CASE c.seen = None
    BY <2>1, <2>2, GoIdle
  <2>3. CASE c.seen # None
    <3> DEFINE q == [c EXCEPT !.customer = k]
    <3>1. Goto(r, "saveCustomer", q) /\ "saveCustomer" \in PC /\ r \in Tab
      BY <1>2, <2>1, <2>3, PageRole DEF PC, NewCustomer, AddCustomer, At
    <3>2. q \in ReqState /\ q.seen = c.seen
      BY <1>1 DEF ReqState
    <3>3. Shape([q EXCEPT !.pc = "saveCustomer"])
      BY <1>1, <2>3 DEF Shape, ReqState
    <3> HIDE DEF q
    <3> QED BY <3>1, <3>2, <3>3, GotoMoves
  <2> QED BY <2>2, <2>3
<1>3. CASE ListSubs(r)
  <2>1. r \in Tab /\ c.pc = "list"
    BY <1>3, PageRole DEF ListSubs, At
  <2>2. CASE Goto(r, "newSub", c)
    <3>1. "newSub" \in PC
      BY DEF PC, StripeCalls
    <3>2. Shape([c EXCEPT !.pc = "newSub"])
      BY <1>1, <2>1 DEF Shape, ReqState
    <3> QED BY <1>1, <2>1, <2>2, <3>1, <3>2, GotoMoves
  <2>3. ASSUME NEW s \in DOMAIN subs,
               Goto(r, "saveSub", [c EXCEPT !.sub = s, !.status = subs[s].status])
        PROVE  MovedOK(r)
    <3> DEFINE q == [c EXCEPT !.sub = s, !.status = subs[s].status]
    <3>1. s \in Sub /\ subs[s].status \in StripeStatus /\ "saveSub" \in PC
      BY Unfolded DEF Subscription, PC
    <3>2. q \in ReqState /\ q.seen = c.seen
      BY <1>1, <3>1 DEF ReqState
    <3>3. Shape([q EXCEPT !.pc = "saveSub"])
      BY <1>1, <2>1, <3>1 DEF Shape, ReqState
    <3>4. Goto(r, "saveSub", q)
      BY <2>3
    <3> HIDE DEF q
    <3> QED BY <2>1, <3>1, <3>2, <3>3, <3>4, GotoMoves
  <2> QED BY <1>3, <2>2, <2>3 DEF ListSubs, Newest
<1>4. CASE NewSub(r)
  <2>1. PICK s \in Sub, st \in {"active", "incomplete"} :
          Goto(r, "saveSub", [c EXCEPT !.sub = s, !.status = st])
    BY <1>4 DEF NewSub, AddSub
  <2> DEFINE q == [c EXCEPT !.sub = s, !.status = st]
  <2>2. r \in Tab /\ c.pc = "newSub" /\ "saveSub" \in PC
    BY <1>4, PageRole DEF NewSub, AddSub, At, PC
  <2>3. q \in ReqState /\ q.seen = c.seen
    BY <1>1 DEF ReqState, StripeStatus
  <2>4. Shape([q EXCEPT !.pc = "saveSub"])
    BY <1>1, <2>2 DEF Shape, ReqState, StripeStatus
  <2> HIDE DEF q
  <2> QED BY <2>1, <2>2, <2>3, <2>4, GotoMoves DEF q
<1>5. CASE CancelNow(r)
  <2>1. r \in Tab /\ Goto(r, "deleteUser", c) /\ "deleteUser" \in PC
    BY <1>5, PageRole DEF CancelNow, At, PC
  <2>2. Shape([c EXCEPT !.pc = "deleteUser"])
    BY <1>1 DEF Shape, ReqState
  <2> QED BY <1>1, <2>1, <2>2, GotoMoves
<1>6. ASSUME \E locals : Goto(r, "idle", locals) PROVE MovedOK(r)
  BY <1>6, GoIdle
<1>7. CASE SaveCustomer(r) \/ SaveSub(r) \/ SetEnding(r, "setEnding", TRUE)
           \/ SetEnding(r, "unsetEnding", FALSE) \/ DeleteUser(r) \/ Grant(r) \/ Revoke(r)
  BY <1>6, <1>7 DEF SaveCustomer, SaveSub, SetEnding, DeleteUser, Grant, Revoke
<1> QED BY <1>2, <1>3, <1>4, <1>5, <1>7 DEF Continue

LEMMA CallFailsMoves == ASSUME TypeInv, NEW r \in Request, CallFails(r) PROVE MovedOK(r)
<1>1. req[r] \in ReqState /\ Shape(req[r])
  BY Unfolded
<1>2. CASE req[r].pc = "cancelNow"
  <2>1. r \in Tab /\ Goto(r, "deleteUser", req[r]) /\ "deleteUser" \in PC
    BY <1>2, PageRole DEF CallFails, PC
  <2>2. Shape([req[r] EXCEPT !.pc = "deleteUser"])
    BY <1>1 DEF Shape, ReqState
  <2> QED BY <1>1, <2>1, <2>2, GotoMoves
<1>3. CASE req[r].pc # "cancelNow"
  BY <1>3, GoIdle DEF CallFails
<1> QED BY <1>2, <1>3

LEMMA AnswerLostMoves ==
  ASSUME TypeInv, NEW r \in Request, AnswerLost(r)
  PROVE  MovedOK(r) /\ req'[r].pc = "idle" /\ req'[r] = IdleReq /\ "stripe" \in Faults
<1>1. Goto(r, "idle", req[r]) /\ "stripe" \in Faults
  BY DEF AnswerLost
<1>2. MovedOK(r) /\ req'[r] = IdleReq
  BY <1>1, GoIdle
<1>3. IdleReq.pc = "idle"
  BY DEF IdleReq
<1> QED BY <1>1, <1>2, <1>3

(* The row, where a handler or an event writes it.                         *)
LEMMA HandledOK ==
  ASSUME row \in Row, NEW e \in Event
  PROVE  /\ Handled(e) \in Row
         /\ Handled(e).customer = row.customer /\ Handled(e).plan = row.plan
         /\ Handled(e).trial = row.trial
         /\ Handled(e).sub = IF e.type \in {"created", "updated"} /\ e.status \in RowStatus
                             THEN e.sub ELSE row.sub
         /\ Handled(e).tier \in {row.tier, e.tier}
         /\ Handled(e).sub # row.sub => Handled(e).tier = e.tier
         /\ e.type = "deleted" => Handled(e).status = "canceled"
<1>1. /\ e.type \in {"created", "updated", "deleted", "paid", "failed"} /\ e.sub \in Sub
      /\ e.tier \in Tier
  BY DEF Event
<1>2. CASE e.type \in {"created", "updated"}
  <2>1. Handled(e) = Upsert(e)
    BY <1>2 DEF Handled
  <2>2. CASE e.status \in RowStatus
    <3>1. Upsert(e) = [row EXCEPT !.status = e.status, !.tier = e.tier, !.sub = e.sub,
                                  !.late = FALSE]
      BY <2>2 DEF Upsert
    <3>2. /\ Upsert(e) \in Row /\ Upsert(e).customer = row.customer
          /\ Upsert(e).plan = row.plan /\ Upsert(e).trial = row.trial
          /\ Upsert(e).tier = e.tier /\ Upsert(e).sub = e.sub
      BY <1>1, <2>2, <3>1 DEF Row, Tier
    <3> QED BY <1>2, <2>1, <2>2, <3>2
  <2>3. CASE e.status \notin RowStatus
    BY <1>2, <2>1, <2>3 DEF Upsert
  <2> QED BY <2>2, <2>3
<1>3. CASE e.type \in {"deleted", "paid", "failed"}
  <2>1. PICK st \in RowStatus : /\ Handled(e) = [row EXCEPT !.status = st, !.late = FALSE]
                                /\ e.type = "deleted" => st = "canceled"
    BY <1>3 DEF Handled, RowStatus
  <2> QED BY <1>3, <2>1 DEF Row
<1> QED BY <1>1, <1>2, <1>3

LEMMA DeliverOK ==
  ASSUME TypeInv, NEW i \in DOMAIN events, NEW again \in BOOLEAN, Deliver(i, again)
  PROVE  /\ row' \in Row \cup {None} /\ (row # None => row' \in Row)
         /\ row = None => row' = None
         /\ events[i] \in Event
         /\ row' = row \/ (row # None /\ row.customer = events[i].customer /\ row' = Handled(events[i]))
         /\ events' \in Seq(Event)
<1>1. events[i] \in Event /\ row \in Row \cup {None} /\ events \in Seq(Event)
  BY Unfolded DEF TypeInv, TypeOK
<1>2. events' \in Seq(Event)
  BY <1>1, Removed DEF Deliver
<1>3. row' = IF row # None /\ row.customer = events[i].customer THEN Handled(events[i]) ELSE row
  BY DEF Deliver
<1>4. row # None => Handled(events[i]) \in Row
  BY <1>1, HandledOK
<1> QED BY <1>1, <1>2, <1>3, <1>4

LEMMA RowStep ==
  ASSUME TypeInv, Next
  PROVE  row' \in Row \cup {None} /\ (row # None => row' # None)
<1>1. row \in Row \cup {None} /\ None \notin Row
  BY Unfolded
<1>2. ASSUME NEW r \in Request, Continue(r) PROVE row' = row \/ row' \in Row
  <2>1. req[r] \in ReqState /\ Shape(req[r]) /\ (req[r].seen # None => row # None)
        /\ (req[r].seen # None => req[r].seen \in Row)
    BY Unfolded
  <2>2. CASE SaveCustomer(r)
    BY <1>1, <2>1, <2>2 DEF SaveCustomer, At, Shape, Row
  <2>3. CASE SaveSub(r)
    <3> DEFINE moved == MovedOn(r)
    <3>1. req[r].pc = "saveSub" /\ row \in Row /\ req[r].sub \in Sub /\ req[r].tier \in Tier
      BY <1>1, <2>1, <2>3 DEF SaveSub, At, Shape
    <3>2. moved \in BOOLEAN
      BY DEF MovedOn
    <3>3. row' = IF req[r].status \in RowStatus
                   THEN [row EXCEPT !.status = req[r].status, !.sub = req[r].sub,
                                    !.plan = "paid", !.tier = req[r].tier, !.late = moved]
                   ELSE row
      BY <2>3 DEF SaveSub
    <3> HIDE DEF moved
    <3> QED BY <3>1, <3>2, <3>3 DEF Row
  <2>4. CASE Grant(r)
    <3>1. req[r].tier \in Tier
      BY <2>1, <2>4 DEF Grant, At, Shape
    <3>2. CASE req[r].seen # None
      BY <1>1, <2>1, <2>4, <3>1, <3>2 DEF Grant, Row, RowStatus
    <3>3. CASE req[r].seen = None /\ row = None
      BY <2>4, <3>1, <3>3 DEF Grant, Row, RowStatus, TrialRow
    <3> QED BY <2>4, <3>2, <3>3 DEF Grant
  <2>5. CASE Revoke(r)
    <3>1. row \in Row
      BY <1>1, <2>1, <2>5 DEF Revoke, At, Shape
    <3> DEFINE st == IF req[r].seen.trial THEN "trialing" ELSE "canceled"
    <3>2. st \in RowStatus
      BY DEF RowStatus
    <3>3. row' = [row EXCEPT !.status = st, !.plan = "revoked", !.tier = "free"]
      BY <2>5 DEF Revoke
    <3> HIDE DEF st
    <3> QED BY <3>1, <3>2, <3>3 DEF Row
  <2>6. CASE NewCustomer(r) \/ ListSubs(r) \/ NewSub(r) \/ SetEnding(r, "setEnding", TRUE)
             \/ SetEnding(r, "unsetEnding", FALSE) \/ CancelNow(r) \/ DeleteUser(r)
    BY <2>6 DEF NewCustomer, AddCustomer, ListSubs, NewSub, AddSub, SetEnding, CancelNow, DeleteUser
  <2> QED BY <1>2, <2>2, <2>3, <2>4, <2>5, <2>6 DEF Continue
<1>3. ASSUME NEW r, FromTab(r) \/ FromAdmin(r) \/ CallFails(r) \/ AnswerLost(r) \/ Crash
      PROVE  row' = row
  BY <1>3 DEF FromTab, FromAdmin, BeginSetup, BeginSubscribe, BeginEnding, BeginDelete, BeginGrant,
              BeginRevoke, Begin, CallFails, AnswerLost, AddCustomer,
              AddSub, Crash
<1>4. CASE ExtendTrial \/ TrialEnds
  <2>1. TrialRow \in Row
    BY DEF TrialRow, Row, RowStatus
  <2>2. row # None => [row EXCEPT !.status = "trialing", !.trial = TRUE] \in Row
                      /\ [row EXCEPT !.trial = FALSE] \in Row
    BY <1>1 DEF Row, RowStatus
  <2> QED BY <1>1, <1>4, <2>1, <2>2 DEF ExtendTrial, TrialEnds
<1>5. ASSUME NEW s, StripeMoves(s) PROVE row' = row
  BY <1>5 DEF StripeMoves, PaymentSucceeds, PaymentFails, GivesUp, PeriodEnds, Moves
<1>6. CASE Webhook
  BY <1>1, <1>6, DeliverOK DEF Webhook
<1> QED BY <1>1, <1>2, <1>3, <1>4, <1>5, <1>6, NextActs DEF NoRequest

LEMMA MovesOK ==
  ASSUME TypeInv, NEW s \in DOMAIN subs, StripeMoves(s)
  PROVE  \E to \in StripeStatus, types \in Seq(EventType) :
           /\ subs[s].status # "canceled" /\ Len(types) \in {1, 2}
           /\ Becomes(s, [subs[s] EXCEPT !.status = to], types)
           /\ to = "canceled" => types = <<"deleted">>
<1>1. PICK from \in SUBSET (StripeStatus \ {"canceled"}), to \in StripeStatus, types \in Seq(EventType) :
        /\ Moves(s, from, to, types) /\ Len(types) \in {1, 2}
        /\ to = "canceled" => types = <<"deleted">>
  <2>1. CASE PaymentSucceeds(s)
    BY <2>1, TypesOK DEF PaymentSucceeds, StripeStatus, EventType
  <2>2. CASE PaymentFails(s)
    BY <2>2, TypesOK DEF PaymentFails, StripeStatus, EventType
  <2>3. CASE GivesUp(s)
    BY <2>3, TypesOK DEF GivesUp, StripeStatus, EventType
  <2>4. CASE PeriodEnds(s)
    BY <2>4, TypesOK DEF PeriodEnds, StripeStatus, EventType
  <2> QED BY <2>1, <2>2, <2>3, <2>4 DEF StripeMoves
<1> QED BY <1>1 DEF Moves

(* What Stripe's subscriptions go through: a new one, whether the server hears *)
(* of it or not, or one more event of a subscription that is not canceled. *)
Created(r, s, st, lost, types) ==
  /\ s \in Sub \ DOMAIN subs /\ st \in {"active", "incomplete"} /\ types \in Seq(EventType)
  /\ lost \in BOOLEAN
  /\ req[r].pc = "newSub" /\ req[r].seen.customer \in Customer /\ req[r].tier \in Tier
  /\ IF lost THEN Goto(r, "idle", req[r])
             ELSE Goto(r, "saveSub", [req[r] EXCEPT !.sub = s, !.status = st])
  /\ Becomes(s, [customer |-> req[r].seen.customer, status |-> st, tier |-> req[r].tier,
                 ending |-> FALSE, lost |-> lost], types)
  /\ Len(types) \in {1, 2} /\ types[1] = "created"

Adds(r) == \E s, st, lost, types : Created(r, s, st, lost, types)

Changed(s, sub, types) ==
  /\ s \in DOMAIN subs /\ Live(s) /\ sub \in Subscription /\ types \in Seq(EventType)
  /\ sub.customer = subs[s].customer /\ sub.lost = subs[s].lost /\ Becomes(s, sub, types)
  /\ Len(types) \in {1, 2}
  /\ sub.status = "canceled" => types = <<"deleted">>

LEMMA AddSubOK ==
  ASSUME TypeInv, NEW r \in Request, NEW s \in Sub, NEW st \in {"active", "incomplete"},
         NEW lost \in BOOLEAN, AddSub(r, s, st, lost),
         IF lost THEN Goto(r, "idle", req[r])
                 ELSE Goto(r, "saveSub", [req[r] EXCEPT !.sub = s, !.status = st])
  PROVE  r \in Tab /\ \E types : Created(r, s, st, lost, types)
<1>1. r \in Tab /\ req[r].pc = "newSub" /\ req[r].seen.customer \in Customer /\ req[r].tier \in Tier
  BY PageRole, Unfolded DEF AddSub, At, Shape
<1>2. /\ Becomes(s, [customer |-> req[r].seen.customer, status |-> st, tier |-> req[r].tier,
                     ending |-> FALSE, lost |-> lost],
                 IF st = "active" THEN <<"created", "paid">> ELSE <<"created">>)
      /\ s \in Sub \ DOMAIN subs
  BY DEF AddSub
<1>3. CASE st = "active"
  <2>1. <<"created", "paid">> \in Seq(EventType) /\ Len(<<"created", "paid">>) = 2
        /\ <<"created", "paid">>[1] = "created"
    BY DEF EventType
  <2> QED BY <1>1, <1>2, <1>3, <2>1 DEF Created
<1>4. CASE st # "active"
  <2>1. <<"created">> \in Seq(EventType) /\ Len(<<"created">>) = 1 /\ <<"created">>[1] = "created"
    BY DEF EventType
  <2> QED BY <1>1, <1>2, <1>4, <2>1 DEF Created
<1> QED BY <1>1, <1>3, <1>4

LEMMA NewSubOK ==
  ASSUME TypeInv, NEW r \in Request, NewSub(r)
  PROVE  r \in Tab /\ \E s, st, types : Created(r, s, st, FALSE, types)
<1>1. PICK s \in Sub, st \in {"active", "incomplete"} :
        AddSub(r, s, st, FALSE) /\ Goto(r, "saveSub", [req[r] EXCEPT !.sub = s, !.status = st])
  BY DEF NewSub
<1> QED BY <1>1, AddSubOK

(* A lost answer leaves a new customer or a new subscription at Stripe.    *)
LEMMA AnswerLostOK ==
  ASSUME TypeInv, NEW r \in Request, AnswerLost(r)
  PROVE  \/ UNCHANGED <<subs, events>>
         \/ r \in Tab /\ Adds(r)
<1>1. CASE \E c \in Customer : AddCustomer(r, c)
  BY <1>1 DEF AddCustomer
<1>2. ASSUME NEW s \in Sub, NEW st \in {"active", "incomplete"}, AddSub(r, s, st, TRUE)
      PROVE  r \in Tab /\ Adds(r)
  <2>1. Goto(r, "idle", req[r])
    BY DEF AnswerLost
  <2>2. r \in Tab /\ \E types : Created(r, s, st, TRUE, types)
    BY <1>2, <2>1, AddSubOK
  <2> QED BY <2>2 DEF Adds
<1> QED BY <1>1, <1>2 DEF AnswerLost

(* A request that creates a subscription writes the row next, or ends.     *)
LEMMA HeardGoes ==
  ASSUME TypeInv, NEW r \in Request, NEW s, NEW st, NEW types, Created(r, s, st, FALSE, types)
  PROVE  /\ req'[r].pc = "saveSub" /\ req'[r].seen = req[r].seen
         /\ req'[r].sub = s /\ req'[r].status = st
<1>1. req[r] \in ReqState /\ req \in [Request -> ReqState]
  BY Unfolded
<1> DEFINE q == [req[r] EXCEPT !.sub = s, !.status = st]
<1>2. q \in ReqState /\ q.seen = req[r].seen /\ q.sub = s /\ q.status = st
  <2>1. s \in Sub /\ st \in StripeStatus
    BY DEF Created, StripeStatus
  <2> QED BY <1>1, <2>1 DEF ReqState
<1>3. Goto(r, "saveSub", q) /\ "saveSub" \in PC
  BY DEF Created, PC
<1> HIDE DEF q
<1> QED BY <1>1, <1>2, <1>3, GotoOK

LEMMA CreatedGoes ==
  ASSUME TypeInv, NEW r \in Request, Adds(r)
  PROVE  req[r].pc = "newSub" /\ req'[r].pc \in {"idle", "saveSub"}
<1>1. PICK s, st, lost, types : Created(r, s, st, lost, types)
  BY DEF Adds
<1>2. CASE lost
  <2>1. Goto(r, "idle", req[r])
    BY <1>1, <1>2 DEF Created
  <2> QED BY <1>1, <2>1, GoIdle DEF Created, IdleReq
<1>3. CASE ~lost
  <2>1. lost = FALSE
    BY <1>1, <1>3 DEF Created
  <2>2. Created(r, s, st, FALSE, types)
    BY <1>1, <2>1
  <2> QED BY <1>1, <2>2, HeardGoes DEF Created
<1> QED BY <1>2, <1>3

LEMMA MovesChange ==
  ASSUME TypeInv, NEW s \in DOMAIN subs, StripeMoves(s)
  PROVE  \E sub, types : Changed(s, sub, types)
<1>1. PICK to \in StripeStatus, types \in Seq(EventType) :
           /\ subs[s].status # "canceled" /\ Len(types) \in {1, 2}
           /\ Becomes(s, [subs[s] EXCEPT !.status = to], types)
           /\ to = "canceled" => types = <<"deleted">>
  BY MovesOK
<1>2. subs[s] \in Subscription /\ Live(s)
  BY <1>1, Unfolded DEF Live
<1> DEFINE sub == [subs[s] EXCEPT !.status = to]
<1>3. sub \in Subscription /\ sub.customer = subs[s].customer /\ sub.lost = subs[s].lost
      /\ sub.status = to
  BY <1>2 DEF Subscription
<1> HIDE DEF sub
<1> QED BY <1>1, <1>2, <1>3 DEF Changed, sub

LEMMA EndingChange ==
  ASSUME TypeInv, NEW r \in Request, NEW pc, NEW b \in BOOLEAN, SetEnding(r, pc, b)
  PROVE  \/ UNCHANGED <<subs, events>>
         \/ \E s, sub, types : Changed(s, sub, types)
<1> DEFINE s == req[r].sub
           sub == [subs[s] EXCEPT !.ending = b]
           types == <<"updated">>
<1>1. CASE Live(s)
  <2>1. s \in DOMAIN subs /\ subs[s] \in Subscription /\ subs[s].status # "canceled"
    BY <1>1, Unfolded DEF Live
  <2>2. sub \in Subscription /\ sub.customer = subs[s].customer /\ sub.lost = subs[s].lost
        /\ sub.status = subs[s].status
    BY <2>1 DEF Subscription
  <2>3. types \in Seq(EventType) /\ Len(types) = 1
    BY DEF EventType
  <2>4. Becomes(s, sub, types)
    BY <1>1 DEF SetEnding
  <2> HIDE DEF s, sub, types
  <2> QED BY <1>1, <2>1, <2>2, <2>3, <2>4 DEF Changed
<1>2. CASE ~Live(s)
  BY <1>2 DEF SetEnding
<1> QED BY <1>1, <1>2

LEMMA CancelChange ==
  ASSUME TypeInv, NEW r \in Request, CancelNow(r)
  PROVE  \/ ~Live(req[r].sub) /\ UNCHANGED <<subs, events>>
         \/ \E sub, types : Changed(req[r].sub, sub, types) /\ sub.status = "canceled"
<1> DEFINE s == req[r].sub
           sub == [subs[s] EXCEPT !.status = "canceled"]
           types == <<"deleted">>
<1>1. CASE Live(s)
  <2>1. s \in DOMAIN subs /\ subs[s] \in Subscription
    BY <1>1, Unfolded DEF Live
  <2>2. sub \in Subscription /\ sub.status = "canceled" /\ sub.customer = subs[s].customer
        /\ sub.lost = subs[s].lost
    BY <2>1 DEF Subscription, StripeStatus
  <2>3. types \in Seq(EventType) /\ Len(types) = 1 /\ types = <<"deleted">>
    BY DEF EventType
  <2>4. Becomes(s, sub, types)
    BY <1>1 DEF CancelNow
  <2> HIDE DEF s, sub, types
  <2> QED BY <1>1, <2>1, <2>2, <2>3, <2>4 DEF Changed, s
<1>2. CASE ~Live(s)
  BY <1>2 DEF CancelNow
<1> QED BY <1>1, <1>2

(* The four ways a step leaves Stripe's subscriptions and events.          *)
LEMMA StripeActs ==
  ASSUME TypeInv, Next
  PROVE  \/ UNCHANGED <<subs, events>>
         \/ \E i \in DOMAIN events, again \in BOOLEAN : Deliver(i, again)
         \/ \E r \in Tab : Adds(r)
         \/ \E s, sub, types : Changed(s, sub, types)
<1>1. ASSUME NEW r \in Request, Continue(r)
      PROVE  \/ UNCHANGED <<subs, events>>
             \/ r \in Tab /\ Adds(r)
             \/ \E s, sub, types : Changed(s, sub, types)
  <2>1. CASE NewSub(r)
    BY <2>1, NewSubOK DEF Adds
  <2>2. CASE SetEnding(r, "setEnding", TRUE) \/ SetEnding(r, "unsetEnding", FALSE)
    BY <2>2, EndingChange
  <2>3. CASE CancelNow(r)
    BY <2>3, CancelChange
  <2>4. CASE NewCustomer(r) \/ SaveCustomer(r) \/ ListSubs(r) \/ SaveSub(r) \/ DeleteUser(r)
             \/ Grant(r) \/ Revoke(r)
    BY <2>4 DEF NewCustomer, AddCustomer, SaveCustomer, ListSubs, SaveSub, DeleteUser, Grant,
                Revoke, Stripe
  <2> QED BY <1>1, <2>1, <2>2, <2>3, <2>4 DEF Continue
<1>2. ASSUME NEW r, FromTab(r) \/ FromAdmin(r) \/ CallFails(r) \/ Crash
      PROVE  UNCHANGED <<subs, events>>
  BY <1>2 DEF FromTab, FromAdmin, BeginSetup, BeginSubscribe, BeginEnding, BeginDelete, BeginGrant,
              BeginRevoke, Begin, CallFails, Crash, Stripe
<1>3. CASE ExtendTrial \/ TrialEnds
  BY <1>3 DEF ExtendTrial, TrialEnds, Stripe
<1>4. ASSUME NEW s \in DOMAIN subs, StripeMoves(s) PROVE \E sub, types : Changed(s, sub, types)
  BY <1>4, MovesChange
<1>5. ASSUME Webhook PROVE \E i \in DOMAIN events, again \in BOOLEAN : Deliver(i, again)
  BY <1>5 DEF Webhook
<1> QED BY <1>1, <1>2, <1>3, <1>4, <1>5, AnswerLostOK, NextActs DEF NoRequest

LEMMA SubsOK ==
  ASSUME TypeInv
  PROVE  /\ \A r, s, st, lost, types : Created(r, s, st, lost, types) =>
              [customer |-> req[r].seen.customer, status |-> st, tier |-> req[r].tier,
               ending |-> FALSE, lost |-> lost] \in Subscription /\ s \in Sub /\ types \in Seq(EventType)
         /\ \A s, sub, types : Changed(s, sub, types) => s \in Sub
<1>1. ASSUME NEW r, NEW s, NEW st, NEW lost, NEW types, Created(r, s, st, lost, types)
      PROVE  /\ [customer |-> req[r].seen.customer, status |-> st, tier |-> req[r].tier,
                 ending |-> FALSE, lost |-> lost] \in Subscription
             /\ s \in Sub /\ types \in Seq(EventType)
  <2>1. /\ s \in Sub /\ types \in Seq(EventType) /\ lost \in BOOLEAN /\ st \in StripeStatus
        /\ req[r].seen.customer \in Customer /\ req[r].tier \in Tier
    BY <1>1 DEF Created, StripeStatus
  <2> QED BY <2>1 DEF Subscription
<1>2. \A s, sub, types : Changed(s, sub, types) => s \in Sub
  BY Unfolded DEF Changed
<1> QED BY <1>1, <1>2

LEMMA StripeStep ==
  ASSUME TypeInv, Next
  PROVE  StripeFits'
<1>1. StripeFits
  BY FitIsTypeInv
<1>2. customers' \in SUBSET Customer
  <2>1. ASSUME NEW r \in Request, NewCustomer(r) PROVE customers' \in SUBSET Customer
    BY <1>1, <2>1 DEF NewCustomer, AddCustomer, StripeFits
  <2>4. ASSUME NEW r \in Request, AnswerLost(r) PROVE customers' \in SUBSET Customer
    BY <1>1, <2>4 DEF AnswerLost, AddCustomer, AddSub, StripeFits
  <2>2. ASSUME NEW r \in Request, Continue(r) PROVE customers' \in SUBSET Customer
    BY <1>1, <2>1, <2>2 DEF Continue, SaveCustomer, ListSubs, NewSub, AddSub, SaveSub,
                            SetEnding, CancelNow, DeleteUser, Grant, Revoke, Stripe, StripeFits
  <2>3. ASSUME NEW r, FromTab(r) \/ FromAdmin(r) \/ CallFails(r) \/ Crash
        PROVE  UNCHANGED customers
    BY <2>3 DEF FromTab, FromAdmin, BeginSetup, BeginSubscribe, BeginEnding, BeginDelete,
                BeginGrant, BeginRevoke, Begin, CallFails, Crash, Stripe
  <2> QED BY <1>1, <2>2, <2>3, <2>4, NextActs, NoRequestQuiet DEF StripeFits
<1>3. /\ DOMAIN subs' \in SUBSET Sub /\ subs' \in [DOMAIN subs' -> Subscription]
      /\ events' \in Seq(Event)
  <2>1. CASE UNCHANGED <<subs, events>>
    BY <1>1, <2>1 DEF StripeFits
  <2>2. ASSUME NEW i \in DOMAIN events, NEW again \in BOOLEAN, Deliver(i, again)
        PROVE  UNCHANGED subs /\ events' \in Seq(Event)
    BY <2>2, DeliverOK DEF Deliver
  <2>3. ASSUME NEW r, NEW s, NEW st, NEW lost, NEW types,
             Created(r, s, st, lost, types)
        PROVE  /\ DOMAIN subs' \in SUBSET Sub /\ subs' \in [DOMAIN subs' -> Subscription]
               /\ events' \in Seq(Event)
    <3> DEFINE sub == [customer |-> req[r].seen.customer, status |-> st, tier |-> req[r].tier,
                       ending |-> FALSE, lost |-> lost]
    <3>1. sub \in Subscription /\ s \in Sub /\ types \in Seq(EventType) /\ Becomes(s, sub, types)
      BY <2>3, SubsOK DEF Created
    <3> HIDE DEF sub
    <3> QED BY <1>1, <3>1, BecomesOK
  <2>4. ASSUME NEW s, NEW sub, NEW types, Changed(s, sub, types)
        PROVE  /\ DOMAIN subs' \in SUBSET Sub /\ subs' \in [DOMAIN subs' -> Subscription]
               /\ events' \in Seq(Event)
    BY <1>1, <2>4, SubsOK, BecomesOK DEF Changed
  <2> QED BY <1>1, <2>1, <2>2, <2>3, <2>4, StripeActs DEF Adds, StripeFits
<1> QED BY <1>2, <1>3 DEF StripeFits

LEMMA ReqStep ==
  ASSUME TypeInv, Next
  PROVE  ReqFits' /\ \A r \in Request : req'[r].seen # None => row # None
<1>1. ReqFits /\ \A r \in Request : req[r].seen # None => row # None
  BY FitIsTypeInv DEF RowFits, SeenStays
<1>2. ASSUME NEW r \in Request, MovedOK(r)
      PROVE  ReqFits' /\ \A q \in Request : req'[q].seen # None => row # None
  BY <1>1, <1>2, RequestRole DEF MovedOK, MovesOnly, ReqFits, Roles
<1>3. CASE Crash
  BY <1>3, Unfolded, RequestRole DEF Crash, ReqFits, Roles, Shape, IdleReq
<1>4. CASE UNCHANGED <<req, turn>>
  BY <1>1, <1>4 DEF ReqFits, Roles
<1> QED BY <1>2, <1>3, <1>4, NextActs, NoRequestQuiet, FromTabMoves, FromAdminMoves, ContinueMoves,
           CallFailsMoves, AnswerLostMoves, RequestRole

LEMMA UserStep ==
  ASSUME Next
  PROVE  UNCHANGED user \/ \E r \in Request : DeleteUser(r)
<1>1. ASSUME NEW r \in Request, Continue(r) PROVE UNCHANGED user \/ DeleteUser(r)
  BY <1>1 DEF Continue, NewCustomer, AddCustomer, SaveCustomer, ListSubs, NewSub, AddSub,
              SaveSub, SetEnding, CancelNow, Grant, Revoke
<1>2. ASSUME NEW r, FromTab(r) \/ FromAdmin(r) \/ CallFails(r) \/ AnswerLost(r) \/ Crash
      PROVE  UNCHANGED user
  BY <1>2 DEF FromTab, FromAdmin, BeginSetup, BeginSubscribe, BeginEnding, BeginDelete, BeginGrant,
              BeginRevoke, Begin, CallFails, AnswerLost, AddCustomer,
              AddSub, Crash
<1> QED BY <1>1, <1>2, NextActs, NoRequestQuiet

LEMMA TypeStep == ASSUME TypeInv, Next PROVE TypeInv'
<1>1. user' \in {"live", "deleted", "deletedInSync"}
  BY UserStep, FitIsTypeInv DEF DeleteUser
<1>2. RowFits'
  BY RowStep, ReqStep DEF RowFits, SeenStays
<1> QED BY <1>1, <1>2, StripeStep, ReqStep, FitIsTypeInvNext

LEMMA InitType == ASSUME Init PROVE TypeInv
<1>1. IdleReq \in ReqState /\ Shape(IdleReq) /\ IdleReq.pc = "idle" /\ IdleReq.seen = None
  BY DEF IdleReq, ReqState, PC, StripeCalls, Shape
<1>2. TrialRow \in Row
  BY DEF TrialRow, Row, RowStatus
<1>3. \A r \in Request : req[r] = IdleReq
  BY DEF Init
<1>4. req \in [Request -> ReqState]
  BY <1>1 DEF Init
<1>5. DOMAIN subs \in SUBSET Sub /\ subs \in [DOMAIN subs -> Subscription] /\ events \in Seq(Event)
  BY DEF Init
<1> QED BY <1>1, <1>2, <1>3, <1>4, <1>5, RequestRole DEF Init, TypeInv, TypeOK, SeenStays, Roles

LEMMA StutterType == ASSUME TypeInv, UNCHANGED vars PROVE TypeInv'
BY DEF TypeInv, TypeOK, SeenStays, Roles, vars

LEMMA Typed == Spec => []TypeInv
<1>1. TypeInv /\ [Next]_vars => TypeInv'
  BY TypeStep, StutterType
<1> QED BY <1>1, InitType, PTL DEF Spec

(* Every variable keeps its type: the row never holds a status that the    *)
(* CHECK of the table rejects, whatever Stripe sends and in which order.   *)
THEOREM TypeCorrect == Spec => []TypeOK
<1>1. TypeInv => TypeOK
  BY DEF TypeInv
<1> QED BY <1>1, Typed, PTL

-----------------------------------------------------------------------------
(* One page at Stripe: one customer, and one subscription at a time.       *)

OnePage == \A a, b \in Tab : a = b

OneCustomer ==
  /\ \A r \in Tab : req[r].pc \in {"newCustomer", "saveCustomer"} /\ row # None =>
       row.customer = None
  /\ \A r \in Tab : req[r].pc \in {"list", "newSub", "saveSub"} =>
       row.customer = req[r].seen.customer
  /\ \A s \in DOMAIN subs : row # None /\ subs[s].customer = row.customer
  /\ \A i \in DOMAIN events : row # None /\ events[i].customer = row.customer

OneLive ==
  /\ \A s, t \in DOMAIN subs : Live(s) /\ Live(t) => s = t
  /\ \A r \in Tab : req[r].pc = "newSub" => \A s \in DOMAIN subs : ~Live(s)
  /\ \A r \in Tab : req[r].pc = "saveSub" =>
       /\ req[r].sub \in DOMAIN subs /\ req[r].status # "canceled"
       /\ \A s \in DOMAIN subs : Live(s) => s = req[r].sub

PageInv == TypeInv /\ OneCustomer /\ OneLive

(* One request moves at a time, or none, or all of them end.               *)
LEMMA Steps ==
  ASSUME TypeInv, Next
  PROVE  \/ \E r \in Tab : FromTab(r) /\ MovesOnly(r) /\ r \in Request
         \/ \E r \in Admin : FromAdmin(r) /\ MovesOnly(r) /\ r \in Request
         \/ \E r \in Request : Continue(r) /\ MovesOnly(r)
         \/ \E r \in Request : (CallFails(r) \/ AnswerLost(r)) /\ MovesOnly(r)
         \/ NoRequest /\ UNCHANGED req
         \/ Crash
BY NextActs, FromTabMoves, FromAdminMoves, ContinueMoves, CallFailsMoves, AnswerLostMoves,
   NoRequestQuiet, RequestRole DEF MovedOK

(* What the steps that start a handler of a page leave in its request.     *)
LEMMA FromTabStarts ==
  ASSUME TypeInv, NEW r \in Tab, FromTab(r)
  PROVE  /\ req[r].pc = "idle" /\ user = "live" /\ turn = None
         /\ req'[r].seen = row /\ MovesOnly(r) /\ UNCHANGED <<user, row, customers, subs, events>>
         /\ \/ req'[r].pc = "newCustomer" /\ (row # None => row.customer = None)
            \/ req'[r].pc = "list" /\ row # None /\ row.customer # None
            \/ req'[r].pc \in {"setEnding", "unsetEnding"}
            \/ /\ req'[r].pc \in {"cancelNow", "deleteUser"}
               /\ req'[r].insync = (events = <<>>)
               /\ req'[r].pc = "cancelNow" => row # None /\ req'[r].sub = row.sub
               /\ req'[r].pc = "deleteUser" => row = None \/ row.sub = None
<1>1. r \in Request
  BY RequestRole
<1>2. req \in [Request -> ReqState] /\ row \in Row \cup {None} /\ IdleReq \in ReqState
  BY Unfolded
<1>3. CASE BeginSetup(r)
  <2>1. Begin(r, "setup", "newCustomer", IdleReq) /\ "newCustomer" \in PC
    BY <1>3 DEF BeginSetup, PC, StripeCalls
  <2> QED BY <1>1, <1>2, <1>3, <2>1, BeginOK DEF BeginSetup
<1>4. ASSUME NEW t \in Tier, BeginSubscribe(r, t)
      PROVE  /\ req'[r].pc = "list" /\ row # None /\ row.customer # None
             /\ req[r].pc = "idle" /\ user = "live" /\ turn = None
             /\ req'[r].seen = row /\ MovesOnly(r)
             /\ UNCHANGED <<user, row, customers, subs, events>>
  <2> DEFINE q == [IdleReq EXCEPT !.tier = t]
  <2>1. /\ Begin(r, "subscribe", "list", q) /\ "list" \in PC /\ row # None /\ row.customer # None
        /\ user = "live"
    BY <1>4 DEF BeginSubscribe, PC, StripeCalls
  <2>2. q \in ReqState
    BY DEF IdleReq, ReqState, PC, StripeCalls
  <2> HIDE DEF q
  <2> QED BY <1>1, <1>2, <2>1, <2>2, BeginOK
<1>5. ASSUME NEW op, NEW to \in {"setEnding", "unsetEnding"}, BeginEnding(r, op, to)
      PROVE  /\ req'[r].pc = to
             /\ req[r].pc = "idle" /\ user = "live" /\ turn = None
             /\ req'[r].seen = row /\ MovesOnly(r)
             /\ UNCHANGED <<user, row, customers, subs, events>>
  <2> DEFINE q == [IdleReq EXCEPT !.sub = row.sub]
  <2>1. Begin(r, op, to, q) /\ to \in PC /\ row # None /\ user = "live"
    BY <1>5 DEF BeginEnding, PC, StripeCalls
  <2>2. q \in ReqState
    BY <1>2, <2>1 DEF IdleReq, ReqState, PC, StripeCalls, Row
  <2> HIDE DEF q
  <2> QED BY <1>1, <1>2, <2>1, <2>2, BeginOK
<1>6. CASE BeginDelete(r)
  <2> DEFINE x == IF row = None THEN None ELSE row.sub
             b == (events = <<>>)
             q == [IdleReq EXCEPT !.sub = x, !.insync = b]
             to == IF row # None /\ row.sub # None THEN "cancelNow" ELSE "deleteUser"
  <2>1. Begin(r, "delete", to, q) /\ user = "live"
    BY <1>6 DEF BeginDelete
  <2>2. q \in ReqState /\ q.sub = x /\ q.insync = b
    <3>1. x \in Sub \cup {None} /\ b \in BOOLEAN
      BY <1>2 DEF Row
    <3> HIDE DEF x, b
    <3> QED BY <3>1 DEF IdleReq, ReqState, PC, StripeCalls
  <2>3. to \in PC /\ to \in {"cancelNow", "deleteUser"}
    BY DEF PC, StripeCalls
  <2>4. (to = "cancelNow" => row # None /\ x = row.sub) /\ (to = "deleteUser" => row = None \/ row.sub = None)
    OBVIOUS
  <2>5. b = (events = <<>>)
    OBVIOUS
  <2> HIDE DEF x, b, q, to
  <2>6. /\ req'[r].pc = to /\ req'[r].insync = b /\ req'[r].sub = x
        /\ req[r].pc = "idle" /\ turn = None /\ req'[r].seen = row /\ MovesOnly(r)
        /\ UNCHANGED <<user, row, customers, subs, events>>
    BY <1>1, <1>2, <2>1, <2>2, <2>3, BeginOK
  <2> QED BY <2>1, <2>3, <2>4, <2>5, <2>6
<1> QED BY <1>3, <1>4, <1>5, <1>6 DEF FromTab

(* Where a handler goes on.                                                *)
Goes(r) ==
  \/ /\ NewCustomer(r) /\ req[r].pc = "newCustomer" /\ req'[r].pc \in {"idle", "saveCustomer"}
  \/ /\ ListSubs(r) /\ req[r].pc = "list" /\ req'[r].pc = "newSub"
     /\ Newest(req[r].seen.customer) = {} /\ req'[r].seen = req[r].seen
  \/ /\ ListSubs(r) /\ req[r].pc = "list" /\ req'[r].pc = "saveSub"
     /\ req'[r].sub \in Newest(req[r].seen.customer)
     /\ req'[r].status = subs[req'[r].sub].status
     /\ req'[r].seen = req[r].seen
  \/ /\ NewSub(r) /\ req[r].pc = "newSub" /\ req'[r].pc = "saveSub"
     /\ req'[r].seen = req[r].seen
     /\ \E types : Created(r, req'[r].sub, req'[r].status, FALSE, types)
  \/ /\ CancelNow(r) /\ req[r].pc = "cancelNow" /\ req'[r].pc = "deleteUser"
     /\ req'[r].insync = req[r].insync
  \/ /\ req'[r].pc = "idle"
     /\ \/ SaveCustomer(r) \/ SaveSub(r) \/ SetEnding(r, "setEnding", TRUE)
        \/ SetEnding(r, "unsetEnding", FALSE) \/ DeleteUser(r) \/ Grant(r) \/ Revoke(r)

LEMMA ContinueGoes ==
  ASSUME TypeInv, NEW r \in Request, Continue(r)
  PROVE  Goes(r)
<1>1. req[r] \in ReqState /\ req \in [Request -> ReqState]
  BY Unfolded
<1> DEFINE c == req[r]
<1>2. CASE NewCustomer(r)
  <2>1. PICK k \in Customer :
          Goto(r, IF c.seen = None THEN "idle" ELSE "saveCustomer", [c EXCEPT !.customer = k])
    BY <1>2 DEF NewCustomer, AddCustomer
  <2>2. [c EXCEPT !.customer = k] \in ReqState
    BY <1>1 DEF ReqState
  <2>3. "idle" \in PC /\ "saveCustomer" \in PC
    BY DEF PC
  <2> QED BY <1>1, <1>2, <2>1, <2>2, <2>3, GotoOK DEF Goes, NewCustomer, AddCustomer, At
<1>3. CASE ListSubs(r)
  <2>1. "newSub" \in PC /\ "saveSub" \in PC /\ c.pc = "list"
    BY <1>3 DEF PC, StripeCalls, ListSubs, At
  <2>2. CASE Newest(c.seen.customer) = {} /\ Goto(r, "newSub", c)
    BY <1>1, <1>3, <2>1, <2>2, GotoOK DEF Goes
  <2>3. ASSUME NEW s \in Newest(c.seen.customer),
               Goto(r, "saveSub", [c EXCEPT !.sub = s, !.status = subs[s].status])
        PROVE  Goes(r)
    <3> DEFINE q == [c EXCEPT !.sub = s, !.status = subs[s].status]
    <3>1. s \in Sub /\ subs[s].status \in StripeStatus
      BY Unfolded DEF Newest, Subscription
    <3>2. q \in ReqState /\ q.seen = c.seen /\ q.sub = s /\ q.status = subs[s].status
      BY <1>1, <3>1 DEF ReqState
    <3>3. Goto(r, "saveSub", q)
      BY <2>3
    <3> HIDE DEF q
    <3>4. req'[r].pc = "saveSub" /\ req'[r].sub = s /\ req'[r].status = subs[s].status
          /\ req'[r].seen = c.seen
      BY <1>1, <2>1, <3>2, <3>3, GotoOK
    <3> QED BY <1>3, <2>1, <3>4 DEF Goes
  <2> QED BY <1>3, <2>2, <2>3 DEF ListSubs
<1>4. CASE NewSub(r)
  <2>1. PICK s, st, types : Created(r, s, st, FALSE, types)
    BY <1>4, NewSubOK
  <2>2. /\ req'[r].pc = "saveSub" /\ req'[r].seen = req[r].seen
        /\ req'[r].sub = s /\ req'[r].status = st
    BY <2>1, HeardGoes
  <2>3. req[r].pc = "newSub"
    BY <2>1 DEF Created
  <2> QED BY <1>4, <2>1, <2>2, <2>3 DEF Goes
<1>5. CASE CancelNow(r)
  <2>1. Goto(r, "deleteUser", c) /\ "deleteUser" \in PC /\ c.pc = "cancelNow"
    BY <1>5 DEF CancelNow, At, PC
  <2> QED BY <1>1, <1>5, <2>1, GotoOK DEF Goes
<1>6. CASE SaveCustomer(r) \/ SaveSub(r) \/ SetEnding(r, "setEnding", TRUE)
           \/ SetEnding(r, "unsetEnding", FALSE) \/ DeleteUser(r) \/ Grant(r) \/ Revoke(r)
  <2>1. \E locals : Goto(r, "idle", locals)
    BY <1>6 DEF SaveCustomer, SaveSub, SetEnding, DeleteUser, Grant, Revoke
  <2>2. req'[r].pc = "idle"
    BY <2>1, GoIdle DEF IdleReq
  <2> QED BY <1>6, <2>2 DEF Goes
<1> QED BY <1>2, <1>3, <1>4, <1>5, <1>6 DEF Continue

LEMMA FailGoes ==
  ASSUME TypeInv, NEW r \in Request, CallFails(r)
  PROVE  /\ UNCHANGED <<user, row, customers, subs, events>> /\ "stripe" \in Faults
         /\ \/ req'[r].pc = "idle"
            \/ req[r].pc = "cancelNow" /\ req'[r].pc = "deleteUser"
<1>1. req[r] \in ReqState /\ req \in [Request -> ReqState] /\ {"idle", "deleteUser"} \subseteq PC
  BY Unfolded DEF PC
<1> QED BY <1>1, GotoOK DEF CallFails, Stripe

(* The customer of the row changes only where a new one is saved.          *)
LEMMA CustomerStays ==
  ASSUME TypeInv, Next
  PROVE  \/ (row # None => row'.customer = row.customer) /\ (row = None => row' = None \/ row'.customer = None)
         \/ \E r \in Request : SaveCustomer(r)
<1>1. row \in Row \cup {None} /\ None \notin Row
  BY Unfolded
<1>2. ASSUME NEW r \in Request, Continue(r), ~SaveCustomer(r)
      PROVE  (row # None => row'.customer = row.customer) /\ (row = None => row' = None \/ row'.customer = None)
  <2>1. req[r] \in ReqState /\ Shape(req[r]) /\ (req[r].seen # None => row # None)
    BY Unfolded
  <2>2. CASE SaveSub(r)
    BY <1>1, <2>1, <2>2 DEF SaveSub, At, Shape, Row
  <2>3. CASE Grant(r)
    BY <1>1, <2>1, <2>3 DEF Grant, Row, TrialRow
  <2>4. CASE Revoke(r)
    BY <1>1, <2>1, <2>4 DEF Revoke, At, Shape, Row
  <2>5. CASE NewCustomer(r) \/ ListSubs(r) \/ NewSub(r) \/ SetEnding(r, "setEnding", TRUE)
             \/ SetEnding(r, "unsetEnding", FALSE) \/ CancelNow(r) \/ DeleteUser(r)
    BY <2>5 DEF NewCustomer, AddCustomer, ListSubs, NewSub, AddSub, SetEnding, CancelNow, DeleteUser
  <2> QED BY <1>2, <2>2, <2>3, <2>4, <2>5 DEF Continue
<1>3. ASSUME NEW r, FromTab(r) \/ FromAdmin(r) \/ CallFails(r) \/ AnswerLost(r) \/ Crash
      PROVE  row' = row
  BY <1>3 DEF FromTab, FromAdmin, BeginSetup, BeginSubscribe, BeginEnding, BeginDelete, BeginGrant,
              BeginRevoke, Begin, CallFails, AnswerLost, AddCustomer,
              AddSub, Crash
<1>4. ASSUME ExtendTrial \/ TrialEnds
      PROVE  (row # None => row'.customer = row.customer) /\ (row = None => row' = None \/ row'.customer = None)
  <2>1. row # None => [row EXCEPT !.status = "trialing", !.trial = TRUE].customer = row.customer
                      /\ [row EXCEPT !.trial = FALSE].customer = row.customer
    BY <1>1 DEF Row
  <2>2. TrialRow.customer = None
    BY DEF TrialRow
  <2> QED BY <1>4, <2>1, <2>2 DEF ExtendTrial, TrialEnds
<1>5. ASSUME NEW s, StripeMoves(s) PROVE row' = row
  BY <1>5 DEF StripeMoves, PaymentSucceeds, PaymentFails, GivesUp, PeriodEnds, Moves
<1>6. ASSUME Webhook
      PROVE  (row # None => row'.customer = row.customer) /\ (row = None => row' = None)
  BY <1>1, <1>6, DeliverOK, HandledOK DEF Webhook
<1> QED BY <1>1, <1>2, <1>3, <1>4, <1>5, <1>6, NextActs DEF NoRequest

(* A page's request is at a place in the middle of a handler because it has  *)
(* just got there, or because it was there before and did not move.        *)
LEMMA Reaches ==
  ASSUME TypeInv, Next, NEW r \in Tab, req'[r].pc # "idle"
  PROVE  \/ req'[r] = req[r]
         \/ FromTab(r) /\ r \in Request
         \/ Continue(r) /\ Goes(r) /\ r \in Request
         \/ CallFails(r) /\ req'[r].pc = "deleteUser" /\ req[r].pc = "cancelNow"
<1>1. r \in Request /\ r \notin Admin
  BY RequestRole
<1>2. CASE Crash
  BY <1>1, <1>2 DEF Crash, IdleReq
<1> QED BY <1>1, <1>2, Steps, ContinueGoes, FailGoes, AnswerLostMoves DEF MovesOnly

LEMMA EventsFrom ==
  ASSUME TypeInv, Next, NEW i \in DOMAIN events'
  PROVE  \/ \E j \in DOMAIN events : events'[i] = events[j]
         \/ \E r \in Tab : Adds(r) /\ events'[i].customer = req[r].seen.customer
         \/ \E s, sub, types :
              Changed(s, sub, types) /\ events'[i].customer = subs[s].customer
<1>1. StripeFits /\ events \in Seq(Event)
  BY FitIsTypeInv DEF StripeFits
<1>2. CASE UNCHANGED <<subs, events>>
  BY <1>2
<1>3. ASSUME NEW k \in DOMAIN events, NEW again \in BOOLEAN, Deliver(k, again)
      PROVE  \E j \in DOMAIN events : events'[i] = events[j]
  <2>1. CASE again
    BY <1>3, <2>1 DEF Deliver
  <2>2. CASE ~again
    <3>1. events' = RemoveAt(events, k)
      BY <1>3, <2>2 DEF Deliver
    <3>2. events' \in Seq(Event) /\ Len(events') = Len(events) - 1
          /\ \A j \in 1..Len(events) - 1 : events'[j] = IF j < k THEN events[j] ELSE events[j + 1]
      BY <1>1, <3>1, Removed
    <3>3. i \in 1..Len(events) - 1 /\ DOMAIN events = 1..Len(events) /\ Len(events) \in Nat
      BY <1>1, <3>2
    <3>4. i \in DOMAIN events /\ i + 1 \in DOMAIN events
      BY <3>3
    <3> QED BY <3>2, <3>3, <3>4
  <2> QED BY <2>1, <2>2
<1>4. ASSUME NEW s \in Sub, NEW sub \in Subscription, NEW types \in Seq(EventType),
             Becomes(s, sub, types)
      PROVE  (\E j \in DOMAIN events : events'[i] = events[j]) \/ events'[i].customer = sub.customer
  <2>1. /\ events' \in Seq(Event) /\ Len(events') = Len(events) + Len(types)
        /\ \A j \in 1..Len(events) : events'[j] = events[j]
        /\ \A j \in 1..Len(types) : events'[Len(events) + j] = EventOf(types[j], s, sub)
    BY <1>1, <1>4, BecomesOK
  <2>2. i \in 1..Len(events) + Len(types) /\ Len(events) \in Nat /\ Len(types) \in Nat
        /\ DOMAIN events = 1..Len(events)
    BY <1>1, <2>1
  <2>3. CASE i \in 1..Len(events)
    BY <2>1, <2>2, <2>3
  <2>4. CASE i \notin 1..Len(events)
    <3>1. i - Len(events) \in 1..Len(types) /\ i = Len(events) + (i - Len(events))
      BY <2>2, <2>4
    <3>2. events'[i] = EventOf(types[i - Len(events)], s, sub)
      BY <2>1, <3>1
    <3> QED BY <3>2 DEF EventOf
  <2> QED BY <2>3, <2>4
<1>5. ASSUME NEW r, NEW s, NEW st, NEW lost, NEW types,
             Created(r, s, st, lost, types)
      PROVE  \/ \E j \in DOMAIN events : events'[i] = events[j]
             \/ events'[i].customer = req[r].seen.customer
  <2> DEFINE sub == [customer |-> req[r].seen.customer, status |-> st, tier |-> req[r].tier,
                     ending |-> FALSE, lost |-> lost]
  <2>1. sub \in Subscription /\ s \in Sub /\ types \in Seq(EventType) /\ Becomes(s, sub, types)
    BY <1>5, SubsOK DEF Created
  <2>2. sub.customer = req[r].seen.customer
    OBVIOUS
  <2> HIDE DEF sub
  <2> QED BY <1>4, <2>1, <2>2
<1>6. ASSUME NEW s, NEW sub, NEW types, Changed(s, sub, types)
      PROVE  \/ \E j \in DOMAIN events : events'[i] = events[j]
             \/ events'[i].customer = subs[s].customer
  BY <1>4, <1>6, SubsOK DEF Changed
<1> QED BY <1>2, <1>3, <1>5, <1>6, StripeActs DEF Adds

LEMMA SubsFrom ==
  ASSUME TypeInv, Next, NEW x \in DOMAIN subs'
  PROVE  \/ x \in DOMAIN subs /\ subs'[x].customer = subs[x].customer /\ (Live(x)' => Live(x))
         \/ x \notin DOMAIN subs /\ \E r \in Tab : Adds(r) /\ subs'[x].customer = req[r].seen.customer
<1>1. StripeFits
  BY FitIsTypeInv
<1>2. CASE UNCHANGED subs
  BY <1>2 DEF Live
<1>3. ASSUME NEW r \in Tab, NEW s, NEW st, NEW lost, NEW types,
             Created(r, s, st, lost, types)
      PROVE  \/ x \in DOMAIN subs /\ subs'[x] = subs[x]
             \/ x \notin DOMAIN subs /\ Adds(r) /\ subs'[x].customer = req[r].seen.customer
  <2> DEFINE sub == [customer |-> req[r].seen.customer, status |-> st, tier |-> req[r].tier,
                     ending |-> FALSE, lost |-> lost]
  <2>1. sub \in Subscription /\ s \in Sub /\ types \in Seq(EventType) /\ Becomes(s, sub, types)
    BY <1>3, SubsOK DEF Created
  <2>2. sub.customer = req[r].seen.customer /\ s \notin DOMAIN subs
    BY <1>3 DEF Created
  <2> HIDE DEF sub
  <2>3. /\ DOMAIN subs' = DOMAIN subs \cup {s} /\ subs'[s] = sub
        /\ \A y \in DOMAIN subs : y # s => subs'[y] = subs[y]
    BY <1>1, <2>1, BecomesOK
  <2> QED BY <1>3, <2>2, <2>3 DEF Adds
<1>4. ASSUME NEW s, NEW sub, NEW types, Changed(s, sub, types)
      PROVE  x \in DOMAIN subs /\ subs'[x].customer = subs[x].customer /\ (Live(x)' => Live(x))
  <2>1. /\ DOMAIN subs' = DOMAIN subs \cup {s} /\ subs'[s] = sub
        /\ \A y \in DOMAIN subs : y # s => subs'[y] = subs[y]
    <3>1. s \in Sub /\ sub \in Subscription /\ types \in Seq(EventType) /\ Becomes(s, sub, types)
      BY <1>4, SubsOK DEF Changed
    <3> QED BY <1>1, <3>1, BecomesOK
  <2>2. s \in DOMAIN subs /\ sub.customer = subs[s].customer /\ Live(s)
    BY <1>4 DEF Changed
  <2>3. x \in DOMAIN subs
    BY <2>1, <2>2
  <2>4. CASE x = s
    BY <2>1, <2>2, <2>3, <2>4
  <2>5. CASE x # s
    BY <2>1, <2>3, <2>5 DEF Live
  <2> QED BY <2>4, <2>5
<1> QED BY <1>2, <1>3, <1>4, StripeActs DEF Adds, Deliver, Live

LEMMA OneCustomerStep ==
  ASSUME OnePage, TypeInv, OneCustomer, Next
  PROVE  OneCustomer'
<1>1. row \in Row \cup {None} /\ None \notin Row /\ row' \in Row \cup {None} /\ (row # None => row' # None)
  BY Unfolded, RowStep
<1>2. \A r \in Request : SaveCustomer(r) =>
        /\ r \in Tab /\ row # None /\ row.customer = None
        /\ DOMAIN subs = {} /\ DOMAIN events = {} /\ UNCHANGED <<subs, events>>
        /\ req'[r].pc = "idle"
  <2> SUFFICES ASSUME NEW r \in Request, SaveCustomer(r)
               PROVE  /\ r \in Tab /\ row # None /\ row.customer = None
                      /\ DOMAIN subs = {} /\ DOMAIN events = {} /\ UNCHANGED <<subs, events>>
                      /\ req'[r].pc = "idle"
    OBVIOUS
  <2>1. r \in Tab /\ row # None /\ req[r].pc = "saveCustomer"
    BY PageRole, Unfolded DEF SaveCustomer, At, Shape
  <2>2. row.customer = None
    BY <2>1 DEF OneCustomer
  <2>3. DOMAIN subs = {} /\ DOMAIN events = {}
    BY <2>2, Unfolded DEF OneCustomer, Subscription, Event
  <2>4. req'[r].pc = "idle"
    BY GoIdle DEF SaveCustomer, IdleReq
  <2> QED BY <2>1, <2>2, <2>3, <2>4 DEF SaveCustomer, Stripe
<1>3. \A r \in Tab : req'[r].pc \in {"newCustomer", "saveCustomer"} /\ row' # None => row'.customer = None
  <2> SUFFICES ASSUME NEW r \in Tab, req'[r].pc \in {"newCustomer", "saveCustomer"}, row' # None
               PROVE  row'.customer = None
    OBVIOUS
  <2>1. row # None => row.customer = None
    <3>1. CASE FromTab(r)
      BY <3>1, FromTabStarts
    <3>2. CASE req'[r] = req[r]
      BY <3>2 DEF OneCustomer
    <3>3. CASE Goes(r)
      BY <3>3 DEF Goes, OneCustomer
    <3> QED BY <3>1, <3>2, <3>3, Reaches
  <2>2. \A q \in Request : ~SaveCustomer(q)
    BY <1>2 DEF OnePage
  <2> QED BY <1>1, <2>1, <2>2, CustomerStays
<1>4. \A r \in Tab : req'[r].pc \in {"list", "newSub", "saveSub"} => row'.customer = req'[r].seen.customer
  <2> SUFFICES ASSUME NEW r \in Tab, req'[r].pc \in {"list", "newSub", "saveSub"}
               PROVE  row'.customer = req'[r].seen.customer
    OBVIOUS
  <2>1. row # None /\ row.customer = req'[r].seen.customer
    <3>0. r \in Request /\ \A q \in Request : Shape(req[q]) /\ (req[q].seen # None => row # None)
      BY Unfolded, RequestRole
    <3>1. CASE FromTab(r)
      BY <3>1, FromTabStarts
    <3>2. CASE req'[r] = req[r]
      BY <3>0, <3>2 DEF OneCustomer, Shape
    <3>3. CASE Goes(r)
      BY <3>0, <3>3 DEF Goes, OneCustomer, Shape
    <3> QED BY <3>1, <3>2, <3>3, Reaches
  <2>2. \A q \in Request : ~SaveCustomer(q)
    BY <1>2 DEF OnePage
  <2> QED BY <1>1, <2>1, <2>2, CustomerStays
<1>5. \A r \in Tab : Adds(r) => row # None /\ row.customer = req[r].seen.customer
  BY Unfolded, RequestRole DEF Adds, Created, OneCustomer, Shape
<1>6. ASSUME NEW s \in DOMAIN subs' PROVE row' # None /\ subs'[s].customer = row'.customer
  <2>1. row # None /\ subs'[s].customer = row.customer
    BY <1>5, <1>6, SubsFrom DEF OneCustomer
  <2>2. \A q \in Request : ~SaveCustomer(q)
    BY <1>2, <1>6
  <2> QED BY <1>1, <2>1, <2>2, CustomerStays
<1>7. ASSUME NEW i \in DOMAIN events' PROVE row' # None /\ events'[i].customer = row'.customer
  <2>1. row # None /\ events'[i].customer = row.customer
    BY <1>5, <1>7, EventsFrom DEF OneCustomer, Changed
  <2>2. \A q \in Request : ~SaveCustomer(q)
    BY <1>2, <1>7
  <2> QED BY <1>1, <2>1, <2>2, CustomerStays
<1> QED BY <1>3, <1>4, <1>6, <1>7 DEF OneCustomer

(* The new subscription, and the events that follow it.                    *)
Appears(s, st, n) ==
  /\ DOMAIN subs' = DOMAIN subs \cup {s} /\ s \notin DOMAIN subs
  /\ subs'[s].status = st /\ Live(s)'
  /\ \A x \in DOMAIN subs : subs'[x] = subs[x]
  /\ events' \in Seq(Event) /\ Len(events') = Len(events) + n /\ n \in {1, 2}
  /\ \A j \in 1..Len(events) : events'[j] = events[j]
  /\ events'[Len(events) + 1].type = "created" /\ events'[Len(events) + 1].status = st
  /\ \A j \in 1..n : events'[Len(events) + j].sub = s

LEMMA CreatedOK ==
  ASSUME TypeInv, NEW r, NEW s, NEW st, NEW lost, NEW types,
             Created(r, s, st, lost, types)
  PROVE  subs'[s].lost = lost /\ Appears(s, st, Len(types))
<1>1. StripeFits
  BY FitIsTypeInv
<1> DEFINE sub == [customer |-> req[r].seen.customer, status |-> st, tier |-> req[r].tier,
                   ending |-> FALSE, lost |-> lost]
<1>2. sub \in Subscription /\ s \in Sub /\ types \in Seq(EventType) /\ Becomes(s, sub, types)
  BY SubsOK DEF Created
<1>3. sub.status = st /\ sub.lost = lost /\ st # "canceled" /\ s \notin DOMAIN subs /\ Len(types) \in {1, 2}
      /\ types[1] = "created"
  BY DEF Created
<1> HIDE DEF sub
<1>4. /\ DOMAIN subs' = DOMAIN subs \cup {s} /\ subs'[s] = sub
      /\ \A y \in DOMAIN subs : y # s => subs'[y] = subs[y]
      /\ events' \in Seq(Event) /\ Len(events') = Len(events) + Len(types)
      /\ \A j \in 1..Len(events) : events'[j] = events[j]
      /\ \A j \in 1..Len(types) : events'[Len(events) + j] = EventOf(types[j], s, sub)
  BY <1>1, <1>2, BecomesOK
<1>5. events'[Len(events) + 1] = EventOf(types[1], s, sub)
  BY <1>3, <1>4
<1>6. ASSUME NEW j \in 1..Len(types) PROVE events'[Len(events) + j].sub = s
  <2>1. events'[Len(events) + j] = EventOf(types[j], s, sub)
    BY <1>4
  <2>2. EventOf(types[j], s, sub).sub = s
    BY DEF EventOf
  <2> QED BY <2>1, <2>2
<1>7. /\ events'[Len(events) + 1].type = "created"
      /\ events'[Len(events) + 1].status = st
  BY <1>3, <1>5 DEF EventOf
<1>8. subs'[s].status = st /\ Live(s)'
  BY <1>3, <1>4 DEF Live
<1>9. \A x \in DOMAIN subs : subs'[x] = subs[x]
  BY <1>3, <1>4
<1> QED BY <1>3, <1>4, <1>6, <1>7, <1>8, <1>9 DEF Appears

LEMMA ChangedOK ==
  ASSUME TypeInv, NEW s, NEW sub, NEW types, Changed(s, sub, types)
  PROVE  /\ DOMAIN subs' = DOMAIN subs /\ s \in DOMAIN subs /\ Live(s)
         /\ subs'[s] = sub /\ sub.lost = subs[s].lost
         /\ \A x \in DOMAIN subs : x # s => subs'[x] = subs[x]
         /\ events' \in Seq(Event) /\ Len(events') = Len(events) + Len(types)
         /\ Len(types) \in {1, 2}
         /\ \A j \in 1..Len(events) : events'[j] = events[j]
         /\ \A j \in 1..Len(types) : events'[Len(events) + j].sub = s
         /\ Live(s)' <=> sub.status # "canceled"
         /\ sub.status = "canceled" => events'[Len(events')].type = "deleted"
<1>1. StripeFits
  BY FitIsTypeInv
<1>2. sub \in Subscription /\ s \in Sub /\ types \in Seq(EventType) /\ Becomes(s, sub, types)
  BY SubsOK DEF Changed
<1>3. Len(types) \in {1, 2} /\ s \in DOMAIN subs /\ Live(s) /\ sub.lost = subs[s].lost
      /\ (sub.status = "canceled" => types = <<"deleted">>)
  BY DEF Changed
<1>4. /\ DOMAIN subs' = DOMAIN subs \cup {s} /\ subs'[s] = sub
      /\ \A y \in DOMAIN subs : y # s => subs'[y] = subs[y]
      /\ events' \in Seq(Event) /\ Len(events') = Len(events) + Len(types)
      /\ \A j \in 1..Len(events) : events'[j] = events[j]
      /\ \A j \in 1..Len(types) : events'[Len(events) + j] = EventOf(types[j], s, sub)
  BY <1>1, <1>2, BecomesOK
<1>5. ASSUME NEW j \in 1..Len(types) PROVE events'[Len(events) + j].sub = s
  <2>1. events'[Len(events) + j] = EventOf(types[j], s, sub)
    BY <1>4
  <2>2. EventOf(types[j], s, sub).sub = s
    BY DEF EventOf
  <2> QED BY <2>1, <2>2
<1>6. ASSUME sub.status = "canceled" PROVE events'[Len(events')].type = "deleted"
  <2>1. types = <<"deleted">> /\ Len(types) = 1 /\ types[1] = "deleted"
    BY <1>3, <1>6
  <2>2. events'[Len(events) + 1] = EventOf(types[1], s, sub)
    BY <1>4, <2>1
  <2>3. Len(events') = Len(events) + 1
    BY <1>4, <2>1
  <2>4. events'[Len(events')] = EventOf(types[1], s, sub)
    BY <2>2, <2>3
  <2> QED BY <2>1, <2>4 DEF EventOf
<1>7. DOMAIN subs' = DOMAIN subs
  BY <1>3, <1>4
<1>8. Live(s)' <=> sub.status # "canceled"
  BY <1>3, <1>4, <1>7 DEF Live
<1> QED BY <1>3, <1>4, <1>5, <1>6, <1>7, <1>8

LEMMA SubsGrow == ASSUME TypeInv, Next PROVE DOMAIN subs \subseteq DOMAIN subs'
<1>1. ASSUME NEW r, NEW s, NEW st, NEW lost, NEW types,
             Created(r, s, st, lost, types)
      PROVE  DOMAIN subs \subseteq DOMAIN subs'
  <2> DEFINE n == Len(types)
  <2>1. Appears(s, st, n)
    BY <1>1, CreatedOK
  <2> QED BY <2>1 DEF Appears
<1>2. ASSUME NEW s, NEW sub, NEW types, Changed(s, sub, types)
      PROVE  DOMAIN subs \subseteq DOMAIN subs'
  BY <1>2, ChangedOK
<1> QED BY <1>1, <1>2, StripeActs DEF Adds, Deliver

LEMMA NoneFound ==
  ASSUME TypeInv, OneLive, NEW c, Newest(c) = {}, NEW s \in DOMAIN subs, subs[s].customer = c
  PROVE  ~Live(s)
<1> SUFFICES ASSUME Live(s) PROVE FALSE
  OBVIOUS
<1>1. \A t \in DOMAIN subs : Live(t) /\ subs[t].customer = c => t <= s
  <2>1. s \in Nat
    BY Unfolded, BillingAssumption
  <2> QED BY <2>1 DEF OneLive
<1> QED BY <1>1 DEF Newest

LEMMA OneLiveStep ==
  ASSUME OnePage, PageInv, Next
  PROVE  OneLive'
<1>1. TypeInv /\ OneCustomer /\ OneLive
  BY DEF PageInv
<1>2. ASSUME NEW s \in DOMAIN subs', NEW t \in DOMAIN subs', Live(s)', Live(t)'
      PROVE  s = t
  <2>1. CASE s \in DOMAIN subs /\ t \in DOMAIN subs
    BY <1>1, <1>2, <2>1, SubsFrom DEF OneLive
  <2>2. ASSUME NEW x \in DOMAIN subs', x \notin DOMAIN subs
        PROVE  DOMAIN subs' = DOMAIN subs \cup {x} /\ \A y \in DOMAIN subs : ~Live(y)
    <3>1. CASE UNCHANGED subs \/ \E y, sub, types : Changed(y, sub, types)
      BY <1>1, <2>2, <3>1, ChangedOK
    <3>2. ASSUME NEW r \in Tab, NEW y, NEW st, NEW lost, NEW types,
                 Created(r, y, st, lost, types)
          PROVE  DOMAIN subs' = DOMAIN subs \cup {x} /\ \A z \in DOMAIN subs : ~Live(z)
      <4>1. DOMAIN subs' = DOMAIN subs \cup {y}
        BY <1>1, <3>2, CreatedOK DEF Appears
      <4>2. x = y
        BY <2>2, <4>1
      <4> QED BY <1>1, <3>2, <4>1, <4>2 DEF OneLive, Created
    <3> QED BY <1>1, <3>1, <3>2, StripeActs DEF Adds, Deliver
  <2>3. CASE s \notin DOMAIN subs
    BY <1>1, <1>2, <2>2, <2>3, SubsFrom
  <2>4. CASE t \notin DOMAIN subs
    BY <1>1, <1>2, <2>2, <2>4, SubsFrom
  <2> QED BY <2>1, <2>3, <2>4
<1>3. ASSUME NEW r \in Tab, req'[r].pc = "newSub", NEW s \in DOMAIN subs' PROVE ~Live(s)'
  <2>0. \A q \in Tab : ~Adds(q)
    <3> SUFFICES ASSUME NEW q \in Tab, Adds(q) PROVE FALSE
      OBVIOUS
    <3>1. q = r /\ r \in Request
      BY RequestRole DEF OnePage
    <3> QED BY <1>1, <1>3, <3>1, CreatedGoes
  <2>1. s \in DOMAIN subs /\ subs'[s].customer = subs[s].customer /\ (Live(s)' => Live(s))
    BY <1>1, <1>3, <2>0, SubsFrom
  <2>2. ~Live(s)
    <3>1. CASE req'[r] = req[r]
      BY <1>1, <1>3, <2>1, <3>1 DEF OneLive
    <3>2. CASE Goes(r)
      <4>1. Newest(req[r].seen.customer) = {} /\ req[r].pc = "list"
        BY <1>3, <3>2 DEF Goes
      <4>2. subs[s].customer = req[r].seen.customer
        BY <1>1, <2>1, <4>1 DEF OneCustomer
      <4> QED BY <1>1, <2>1, <4>1, <4>2, NoneFound
    <3>3. CASE FromTab(r)
      BY <1>1, <1>3, <3>3, FromTabStarts
    <3> QED BY <1>1, <1>3, <3>1, <3>2, <3>3, Reaches
  <2> QED BY <2>1, <2>2
<1>4. ASSUME NEW r \in Tab, req'[r].pc = "saveSub"
      PROVE  /\ req'[r].sub \in DOMAIN subs' /\ req'[r].status # "canceled"
             /\ \A x \in DOMAIN subs' : Live(x)' => x = req'[r].sub
  <2>1. CASE req'[r] = req[r]
    <3>1. \A q \in Tab : ~Adds(q)
      BY <1>4, <2>1 DEF OnePage, Adds, Created
    <3>2. \A x \in DOMAIN subs' : x \in DOMAIN subs /\ (Live(x)' => Live(x))
      BY <1>1, <3>1, SubsFrom
    <3>3. DOMAIN subs \subseteq DOMAIN subs'
      BY <1>1, SubsGrow
    <3> QED BY <1>1, <1>4, <2>1, <3>2, <3>3 DEF OneLive
  <2>2. CASE Goes(r)
    <3>1. CASE /\ ListSubs(r) /\ req'[r].sub \in Newest(req[r].seen.customer)
               /\ req'[r].status = subs[req'[r].sub].status
      <4>1. UNCHANGED subs
        BY <3>1 DEF ListSubs, Stripe
      <4>2. Live(req'[r].sub) /\ req'[r].sub \in DOMAIN subs
        BY <3>1 DEF Newest
      <4> QED BY <1>1, <3>1, <4>1, <4>2 DEF OneLive, Live
    <3>2. ASSUME NEW s, s = req'[r].sub, NEW st, st = req'[r].status, NEW types,
                 Created(r, s, st, FALSE, types)
          PROVE  /\ s \in DOMAIN subs' /\ st # "canceled"
                 /\ \A x \in DOMAIN subs' : Live(x)' => x = s
      <4> DEFINE n == Len(types)
      <4>1. Appears(s, st, n)
        BY <1>1, <3>2, CreatedOK
      <4> HIDE DEF n
      <4>2. \A x \in DOMAIN subs : ~Live(x)
        BY <1>1, <3>2 DEF OneLive, Created
      <4>3. \A x \in DOMAIN subs : ~Live(x)'
        BY <4>1, <4>2 DEF Appears, Live
      <4> QED BY <3>2, <4>1, <4>3 DEF Appears, Created
    <3>3. \/ /\ ListSubs(r) /\ req'[r].sub \in Newest(req[r].seen.customer)
             /\ req'[r].status = subs[req'[r].sub].status
          \/ \E types : Created(r, req'[r].sub, req'[r].status, FALSE, types)
      BY <1>4, <2>2 DEF Goes
    <3> QED BY <3>1, <3>2, <3>3
  <2>3. CASE FromTab(r)
    BY <1>1, <1>4, <2>3, FromTabStarts
  <2> QED BY <1>1, <1>4, <2>1, <2>2, <2>3, Reaches
<1>5. \A r \in Tab : req'[r].pc = "saveSub" =>
        /\ req'[r].sub \in DOMAIN subs' /\ req'[r].status # "canceled"
        /\ \A s \in DOMAIN subs' : Live(s)' => s = req'[r].sub
  BY <1>4
<1>6. \A s, t \in DOMAIN subs' : Live(s)' /\ Live(t)' => s = t
  BY <1>2
<1>7. \A r \in Tab : req'[r].pc = "newSub" => \A s \in DOMAIN subs' : ~Live(s)'
  BY <1>3
<1> QED BY <1>5, <1>6, <1>7 DEF OneLive

LEMMA PageCorrect == ASSUME OnePage PROVE Spec => []PageInv
<1>1. Init => PageInv
  <2> SUFFICES ASSUME Init PROVE PageInv
    OBVIOUS
  <2>1. \A r \in Tab : req[r].pc = "idle"
    BY RequestRole DEF Init, IdleReq
  <2>2. DOMAIN subs = {} /\ DOMAIN events = {}
    BY DEF Init
  <2> QED BY InitType, <2>1, <2>2 DEF PageInv, OneCustomer, OneLive
<1>2. PageInv /\ [Next]_vars => PageInv'
  <2>1. PageInv /\ Next => PageInv'
    BY TypeStep, OneCustomerStep, OneLiveStep DEF PageInv
  <2>2. PageInv /\ UNCHANGED vars => PageInv'
    BY StutterType DEF PageInv, OneCustomer, OneLive, Live, vars
  <2> QED BY <2>1, <2>2
<1> QED BY <1>1, <1>2, PTL DEF Spec

(* Whatever the user does with one page, however events are ordered and    *)
(* repeated and whatever fails, Stripe never bills two subscriptions.      *)
THEOREM NeverTwoSubscriptions == ASSUME OnePage PROVE Spec => []OneLiveSubscription
<1>1. PageInv => OneLiveSubscription
  <2> SUFFICES ASSUME PageInv PROVE OneLiveSubscription
    OBVIOUS
  <2> DEFINE S == {s \in DOMAIN subs : Live(s)}
  <2>1. \A s, t \in S : s = t
    BY DEF PageInv, OneLive
  <2>2. S = {} \/ \E s : S = {s}
    BY <2>1
  <2>3. Cardinality(S) <= 1
    BY <2>2, FS_EmptySet, FS_Singleton
  <2> QED BY <2>3 DEF OneLiveSubscription
<1> QED BY <1>1, PageCorrect, PTL

-----------------------------------------------------------------------------
(* What the row has learnt, when Stripe's events arrive in order.          *)

(* The subscription that is billed is announced by an event that will be    *)
(* stored, or the row names it already; later events do not hide it.       *)
Learns ==
  \A s \in DOMAIN subs : Live(s) =>
    \/ \E i \in DOMAIN events :
         /\ events[i].type = "created" /\ events[i].status \in RowStatus
         /\ \A j \in DOMAIN events : j >= i => events[j].sub = s
    \/ row.sub = s /\ \A j \in DOMAIN events : events[j].sub = s

(* When nothing is billed, the last event under way says so, or the row does. *)
Ended ==
  (\A s \in DOMAIN subs : ~Live(s)) =>
    IF events = <<>>
      THEN row # None /\ row.sub # None /\ row.plan # "admin_grant" /\ ~row.late =>
             row.status # "active"
      ELSE events[Len(events)].type = "deleted"

LearnInv == PageInv /\ Learns /\ Ended

(* What the steps other than a webhook do to the row.                      *)
LEMMA RowActs ==
  ASSUME TypeInv, Next, ~Webhook
  PROVE  \/ \E r \in Tab : /\ SaveSub(r) /\ req[r].pc = "saveSub"
                           /\ row # None /\ row'.sub \in {row.sub, req[r].sub}
                           /\ row' = row \/ row'.late = MovedOn(r)
         \/ /\ row # None => row'.sub = row.sub
            /\ \/ row' = None \/ row'.plan = "admin_grant" \/ row'.status # "active"
               \/ /\ row # None /\ row'.status = row.status /\ row'.plan = row.plan
                  /\ row'.late = row.late
<1>1. row \in Row \cup {None} /\ None \notin Row
  BY Unfolded
<1> DEFINE Kept == /\ row # None => row'.sub = row.sub
                   /\ \/ row' = None \/ row'.plan = "admin_grant" \/ row'.status # "active"
                      \/ /\ row # None /\ row'.status = row.status /\ row'.plan = row.plan
                         /\ row'.late = row.late
<1>2. row' = row => Kept
  OBVIOUS
<1>3. ASSUME NEW r \in Request, Continue(r), ~SaveSub(r) PROVE Kept
  <2>1. req[r] \in ReqState /\ Shape(req[r]) /\ (req[r].seen # None => row # None)
    BY Unfolded
  <2>2. CASE SaveCustomer(r)
    BY <1>1, <2>1, <2>2 DEF SaveCustomer, At, Shape, Row
  <2>3. CASE Grant(r)
    <3>1. CASE req[r].seen # None
      BY <1>1, <2>1, <2>3, <3>1 DEF Grant, Row
    <3>2. CASE req[r].seen = None /\ row # None
      BY <1>2, <2>3, <3>2 DEF Grant
    <3>3. CASE req[r].seen = None /\ row = None
      <4>1. row'.plan = "admin_grant"
        BY <2>3, <3>3 DEF Grant, TrialRow
      <4> QED BY <3>3, <4>1
    <3> QED BY <3>1, <3>2, <3>3
  <2>4. CASE Revoke(r)
    <3>1. row \in Row
      BY <1>1, <2>1, <2>4 DEF Revoke, At, Shape
    <3> DEFINE st == IF req[r].seen.trial THEN "trialing" ELSE "canceled"
    <3>2. st # "active"
      OBVIOUS
    <3>3. row' = [row EXCEPT !.status = st, !.plan = "revoked", !.tier = "free"]
      BY <2>4 DEF Revoke
    <3> HIDE DEF st
    <3> QED BY <3>1, <3>2, <3>3 DEF Row
  <2>5. CASE NewCustomer(r) \/ ListSubs(r) \/ NewSub(r) \/ SetEnding(r, "setEnding", TRUE)
             \/ SetEnding(r, "unsetEnding", FALSE) \/ CancelNow(r) \/ DeleteUser(r)
    <3>1. row' = row
      BY <2>5 DEF NewCustomer, AddCustomer, ListSubs, NewSub, AddSub, SetEnding, CancelNow,
                  DeleteUser
    <3> QED BY <1>2, <3>1
  <2> HIDE DEF Kept
  <2> QED BY <1>3, <2>2, <2>3, <2>4, <2>5 DEF Continue
<1>4. ASSUME NEW r \in Request, SaveSub(r)
      PROVE  /\ r \in Tab /\ req[r].pc = "saveSub" /\ row # None
             /\ row'.sub \in {row.sub, req[r].sub}
             /\ row' = row \/ row'.late = MovedOn(r)
  <2>1. r \in Tab /\ req[r].pc = "saveSub" /\ row # None
    BY <1>4, PageRole, Unfolded DEF SaveSub, At, Shape
  <2> DEFINE moved == MovedOn(r)
  <2>2. row'.sub \in {row.sub, req[r].sub} /\ (row' = row \/ row'.late = moved)
    <3>1. row' = row \/ row' = [row EXCEPT !.status = req[r].status, !.sub = req[r].sub,
                                          !.plan = "paid", !.tier = req[r].tier, !.late = moved]
      BY <1>4 DEF SaveSub
    <3> HIDE DEF moved
    <3> QED BY <1>1, <2>1, <3>1 DEF Row
  <2> QED BY <2>1, <2>2
<1>5. ASSUME NEW r, FromTab(r) \/ FromAdmin(r) \/ CallFails(r) \/ AnswerLost(r) \/ Crash
      PROVE  row' = row
  BY <1>5 DEF FromTab, FromAdmin, BeginSetup, BeginSubscribe, BeginEnding, BeginDelete, BeginGrant,
              BeginRevoke, Begin, CallFails, AnswerLost, AddCustomer,
              AddSub, Crash
<1>6. ASSUME ExtendTrial PROVE Kept
  <2>1. CASE row = None
    <3>1. row'.status = "trialing"
      BY <1>6, <2>1 DEF ExtendTrial, TrialRow
    <3> QED BY <2>1, <3>1
  <2>2. CASE row # None
    BY <1>1, <1>6, <2>2 DEF ExtendTrial, Row
  <2> QED BY <2>1, <2>2
<1>7. ASSUME TrialEnds PROVE Kept
  BY <1>1, <1>7 DEF TrialEnds, Row
<1>8. ASSUME NEW s, StripeMoves(s) PROVE row' = row
  BY <1>8 DEF StripeMoves, PaymentSucceeds, PaymentFails, GivesUp, PeriodEnds, Moves
<1> HIDE DEF Kept
<1>9. Kept \/ \E r \in Tab : /\ SaveSub(r) /\ req[r].pc = "saveSub"
                             /\ row # None /\ row'.sub \in {row.sub, req[r].sub}
                             /\ row' = row \/ row'.late = MovedOn(r)
  BY <1>2, <1>3, <1>4, <1>5, <1>6, <1>7, <1>8, NextActs DEF NoRequest
<1> QED BY <1>9 DEF Kept

(* The oldest event is stored and leaves the queue.                        *)
LEMMA DeliveredOK ==
  ASSUME PageInv, Delivery = "ordered", Webhook
  PROVE  /\ UNCHANGED subs /\ Len(events) \in Nat \ {0} /\ events[1] \in Event
         /\ row # None /\ row' = Handled(events[1])
         /\ events' \in Seq(Event) /\ Len(events') = Len(events) - 1
         /\ \A j \in 1..Len(events) - 1 : events'[j] = events[j + 1]
<1>1. PICK i \in DOMAIN events, again \in BOOLEAN : Deliver(i, again)
  BY DEF Webhook
<1>2. i = 1 /\ ~again
  BY <1>1 DEF Deliver
<1>3. TypeInv /\ OneCustomer /\ events \in Seq(Event) /\ events[1] \in Event
  BY <1>1, <1>2, Unfolded DEF PageInv, TypeInv, TypeOK
<1>4. Len(events) \in Nat \ {0}
  BY <1>1, <1>2, <1>3
<1>5. row # None /\ row.customer = events[1].customer
  BY <1>1, <1>2, <1>3 DEF OneCustomer
<1>6. row' = Handled(events[1]) /\ UNCHANGED subs /\ events' = RemoveAt(events, 1)
  BY <1>1, <1>2, <1>5 DEF Deliver
<1>7. /\ RemoveAt(events, 1) \in Seq(Event) /\ Len(RemoveAt(events, 1)) = Len(events) - 1
      /\ \A j \in 1..Len(events) - 1 :
           RemoveAt(events, 1)[j] = IF j < 1 THEN events[j] ELSE events[j + 1]
  BY <1>1, <1>2, <1>3, Removed
<1>8. ASSUME NEW j \in 1..Len(events) - 1 PROVE events'[j] = events[j + 1]
  <2>1. ~(j < 1)
    BY <1>4
  <2>2. RemoveAt(events, 1)[j] = events[j + 1]
    BY <1>7, <2>1
  <2> QED BY <1>6, <2>2
<1> QED BY <1>3, <1>4, <1>5, <1>6, <1>7, <1>8

LEMMA LearnsStep ==
  ASSUME OnePage, Delivery = "ordered", LearnInv, Next
  PROVE  Learns'
<1>1. PageInv /\ TypeInv /\ OneCustomer /\ OneLive /\ Learns
  BY DEF LearnInv, PageInv
<1>0. events \in Seq(Event) /\ DOMAIN events = 1..Len(events) /\ Len(events) \in Nat
  BY <1>1 DEF TypeInv, TypeOK
<1> SUFFICES ASSUME NEW s \in DOMAIN subs', Live(s)'
             PROVE  \/ \E i \in DOMAIN events' :
                         /\ events'[i].type = "created" /\ events'[i].status \in RowStatus
                         /\ \A j \in DOMAIN events' : j >= i => events'[j].sub = s
                    \/ row'.sub = s /\ \A j \in DOMAIN events' : events'[j].sub = s
  BY DEF Learns
<1>2. CASE Webhook
  <2>1. /\ UNCHANGED subs /\ Len(events) \in Nat \ {0} /\ events[1] \in Event
        /\ row # None /\ row' = Handled(events[1])
        /\ events' \in Seq(Event) /\ Len(events') = Len(events) - 1
        /\ \A j \in 1..Len(events) - 1 : events'[j] = events[j + 1]
    BY <1>1, <1>2, DeliveredOK
  <2>2. DOMAIN events' = 1..Len(events) - 1
    BY <2>1
  <2>3. Live(s) /\ s \in DOMAIN subs
    BY <2>1 DEF Live
  <2>4. row \in Row
    BY <1>1, <2>1, Unfolded
  <2>5. row'.sub = IF events[1].type \in {"created", "updated"} /\ events[1].status \in RowStatus
                     THEN events[1].sub ELSE row.sub
    BY <2>1, <2>4, HandledOK
  <2>6. ASSUME NEW i \in DOMAIN events, events[i].type = "created", events[i].status \in RowStatus,
               \A j \in DOMAIN events : j >= i => events[j].sub = s
        PROVE  \/ \E k \in DOMAIN events' :
                    /\ events'[k].type = "created" /\ events'[k].status \in RowStatus
                    /\ \A j \in DOMAIN events' : j >= k => events'[j].sub = s
               \/ row'.sub = s /\ \A j \in DOMAIN events' : events'[j].sub = s
    <3>1. CASE i = 1
      <4>1. row'.sub = s
        BY <1>0, <2>1, <2>5, <2>6, <3>1
      <4>2. ASSUME NEW j \in DOMAIN events' PROVE events'[j].sub = s
        <5>1. j + 1 \in DOMAIN events /\ j + 1 >= i /\ events'[j] = events[j + 1]
          BY <1>0, <2>1, <2>2, <3>1
        <5> QED BY <2>6, <5>1
      <4> QED BY <4>1, <4>2
    <3>2. CASE i # 1
      <4> DEFINE k == i - 1
      <4>1. k \in DOMAIN events' /\ k + 1 = i /\ events'[k] = events[i]
        BY <1>0, <2>1, <2>2, <2>6, <3>2
      <4>2. ASSUME NEW j \in DOMAIN events', j >= k PROVE events'[j].sub = s
        <5>1. j + 1 \in DOMAIN events /\ j + 1 >= i /\ events'[j] = events[j + 1]
          BY <1>0, <2>1, <2>2, <3>2, <4>2
        <5> QED BY <2>6, <5>1
      <4> HIDE DEF k
      <4> QED BY <2>6, <4>1, <4>2
    <3> QED BY <3>1, <3>2
  <2>7. ASSUME row.sub = s, \A j \in DOMAIN events : events[j].sub = s
        PROVE  row'.sub = s /\ \A j \in DOMAIN events' : events'[j].sub = s
    <3>1. row'.sub = s
      BY <1>0, <2>1, <2>5, <2>7
    <3>2. ASSUME NEW j \in DOMAIN events' PROVE events'[j].sub = s
      <4>1. j + 1 \in DOMAIN events /\ events'[j] = events[j + 1]
        BY <1>0, <2>1, <2>2
      <4> QED BY <2>7, <4>1
    <3> QED BY <3>1, <3>2
  <2> QED BY <1>1, <2>3, <2>6, <2>7 DEF Learns
<1>3. ASSUME ~Webhook, Live(s), row # None PROVE row.sub = s => row'.sub = s
  <2>1. \A r \in Tab : req[r].pc = "saveSub" => req[r].sub = s
    BY <1>1, <1>3 DEF OneLive, Live
  <2> QED BY <1>1, <1>3, <2>1, RowActs
<1>4. ASSUME NEW types, NEW sub, Changed(s, sub, types), ~Webhook
      PROVE  \/ \E i \in DOMAIN events' :
                  /\ events'[i].type = "created" /\ events'[i].status \in RowStatus
                  /\ \A j \in DOMAIN events' : j >= i => events'[j].sub = s
             \/ row'.sub = s /\ \A j \in DOMAIN events' : events'[j].sub = s
  <2>1. /\ s \in DOMAIN subs /\ Live(s)
        /\ events' \in Seq(Event) /\ Len(events') = Len(events) + Len(types)
        /\ Len(types) \in {1, 2}
        /\ \A j \in 1..Len(events) : events'[j] = events[j]
        /\ \A j \in 1..Len(types) : events'[Len(events) + j].sub = s
    BY <1>1, <1>4, ChangedOK
  <2>2. DOMAIN events' = 1..Len(events) + Len(types)
    BY <2>1
  <2>3. ASSUME NEW j \in DOMAIN events', j \notin DOMAIN events PROVE events'[j].sub = s
    <3>1. j - Len(events) \in 1..Len(types) /\ Len(events) + (j - Len(events)) = j
      BY <1>0, <2>1, <2>2, <2>3
    <3> QED BY <2>1, <3>1
  <2>4. \A j \in DOMAIN events : j \in DOMAIN events' /\ events'[j] = events[j]
    BY <1>0, <2>1, <2>2
  <2>5. row.sub = s => row'.sub = s
    BY <1>1, <1>3, <1>4, <2>1 DEF OneCustomer
  <2> QED BY <1>1, <2>1, <2>3, <2>4, <2>5 DEF Learns
<1>5. ASSUME NEW r \in Tab, NEW x, NEW st, NEW lost, NEW types, Created(r, x, st, lost, types)
      PROVE  \E i \in DOMAIN events' :
                  /\ events'[i].type = "created" /\ events'[i].status \in RowStatus
                  /\ \A j \in DOMAIN events' : j >= i => events'[j].sub = s
  <2> DEFINE n == Len(types)
  <2>1. Appears(x, st, n)
    BY <1>1, <1>5, CreatedOK
  <2> HIDE DEF n
  <2>0. DOMAIN events' = 1..Len(events') /\ Len(events') = Len(events) + n /\ n \in {1, 2}
    BY <2>1 DEF Appears
  <2>2. \A y \in DOMAIN subs : ~Live(y)
    BY <1>1, <1>5 DEF OneLive, Created
  <2>3. s = x
    <3>1. s # x => s \in DOMAIN subs /\ subs'[s] = subs[s]
      BY <2>1 DEF Appears
    <3>2. s # x => Live(s)
      BY <3>1 DEF Live
    <3> QED BY <2>2, <3>1, <3>2
  <2>4. st \in RowStatus
    BY <1>5 DEF Created, RowStatus
  <2> DEFINE i == Len(events) + 1
  <2>5. i \in DOMAIN events'
    BY <1>0, <2>0
  <2>6. ASSUME NEW j \in DOMAIN events', j >= i PROVE events'[j].sub = s
    <3>1. j - Len(events) \in 1..n /\ Len(events) + (j - Len(events)) = j
      BY <1>0, <2>0, <2>6
    <3> QED BY <2>1, <2>3, <3>1 DEF Appears
  <2>7. events'[i].type = "created" /\ events'[i].status \in RowStatus
    BY <2>1, <2>4 DEF Appears
  <2> HIDE DEF i
  <2> QED BY <2>5, <2>6, <2>7
<1>6. CASE UNCHANGED <<subs, events>> /\ ~Webhook
  <2>1. Live(s) /\ s \in DOMAIN subs
    BY <1>6 DEF Live
  <2>2. row # None
    BY <1>1, <2>1 DEF OneCustomer
  <2> QED BY <1>1, <1>3, <1>6, <2>1, <2>2 DEF Learns
<1>7. ASSUME NEW x, NEW types, NEW sub, Changed(x, sub, types), ~Webhook PROVE s = x
  <2>1. DOMAIN subs' = DOMAIN subs /\ x \in DOMAIN subs /\ Live(x)
        /\ \A y \in DOMAIN subs : y # x => subs'[y] = subs[y]
    BY <1>1, <1>7, ChangedOK
  <2>2. s # x => Live(s)
    BY <2>1 DEF Live
  <2> QED BY <1>1, <2>1, <2>2 DEF OneLive
<1> QED BY <1>1, <1>2, <1>4, <1>5, <1>6, <1>7, StripeActs DEF Adds, Webhook

LEMMA EndedStep ==
  ASSUME Delivery = "ordered", LearnInv, Next
  PROVE  Ended'
<1>1. PageInv /\ TypeInv /\ OneLive /\ Ended
  BY DEF LearnInv, PageInv
<1>0. events \in Seq(Event) /\ DOMAIN events = 1..Len(events) /\ Len(events) \in Nat
  BY <1>1 DEF TypeInv, TypeOK
<1> SUFFICES ASSUME \A s \in DOMAIN subs' : ~Live(s)'
             PROVE  IF events' = <<>>
                      THEN row' # None /\ row'.sub # None /\ row'.plan # "admin_grant"
                             /\ ~row'.late => row'.status # "active"
                      ELSE events'[Len(events')].type = "deleted"
  BY DEF Ended
<1>2. CASE Webhook
  <2>1. /\ UNCHANGED subs /\ Len(events) \in Nat \ {0} /\ events[1] \in Event
        /\ row # None /\ row' = Handled(events[1])
        /\ events' \in Seq(Event) /\ Len(events') = Len(events) - 1
        /\ \A j \in 1..Len(events) - 1 : events'[j] = events[j + 1]
    BY <1>1, <1>2, DeliveredOK
  <2>2. \A s \in DOMAIN subs : ~Live(s)
    BY <2>1 DEF Live
  <2>3. events[Len(events)].type = "deleted"
    BY <1>0, <1>1, <2>1, <2>2 DEF Ended
  <2>4. CASE Len(events) = 1
    <3>1. row'.status = "canceled"
      BY <1>1, <2>1, <2>3, <2>4, HandledOK, Unfolded
    <3>2. events' = <<>>
      BY <2>1, <2>4
    <3> QED BY <3>1, <3>2
  <2>5. CASE Len(events) # 1
    <3>1. Len(events) - 1 \in 1..Len(events) - 1
      BY <2>1, <2>5
    <3>2. events'[Len(events')] = events[Len(events) - 1 + 1]
      BY <2>1, <3>1
    <3>3. events' # <<>> /\ Len(events) - 1 + 1 = Len(events)
      BY <2>1, <2>5
    <3> QED BY <2>3, <3>2, <3>3
  <2> QED BY <2>4, <2>5
<1>3. CASE UNCHANGED <<subs, events>> /\ ~Webhook
  <2>1. \A s \in DOMAIN subs : ~Live(s)
    BY <1>3 DEF Live
  <2>2. CASE events # <<>>
    BY <1>1, <1>3, <2>1, <2>2 DEF Ended
  <2>3. CASE events = <<>>
    <3>1. row # None /\ row.sub # None /\ row.plan # "admin_grant" /\ ~row.late =>
            row.status # "active"
      BY <1>1, <2>1, <2>3 DEF Ended
    <3>2. \A r \in Tab : req[r].pc = "saveSub" => MovedOn(r)
      <4> SUFFICES ASSUME NEW r \in Tab, req[r].pc = "saveSub" PROVE MovedOn(r)
        OBVIOUS
      <4>1. req[r].sub \in DOMAIN subs /\ req[r].status # "canceled"
        BY <1>1 DEF OneLive
      <4>2. subs[req[r].sub].status = "canceled"
        BY <2>1, <4>1 DEF Live
      <4> QED BY <4>1, <4>2 DEF MovedOn
    <3>3. row' # None /\ row'.sub # None /\ row'.plan # "admin_grant" /\ ~row'.late =>
            row'.status # "active"
      BY <1>1, <1>3, <3>1, <3>2, RowActs
    <3> QED BY <1>3, <2>3, <3>3
  <2> QED BY <2>2, <2>3
<1>4. ASSUME NEW r, NEW x, NEW st, NEW lost, NEW types, Created(r, x, st, lost, types)
      PROVE  FALSE
  <2> DEFINE n == Len(types)
  <2>1. Appears(x, st, n)
    BY <1>1, <1>4, CreatedOK
  <2> QED BY <2>1 DEF Appears
<1>5. ASSUME NEW x, NEW types, NEW sub, Changed(x, sub, types)
      PROVE  events' # <<>> /\ events'[Len(events')].type = "deleted"
  <2>1. /\ DOMAIN subs' = DOMAIN subs /\ x \in DOMAIN subs
        /\ events' \in Seq(Event) /\ Len(events') = Len(events) + Len(types)
        /\ Len(types) \in {1, 2}
        /\ Live(x)' <=> sub.status # "canceled"
        /\ sub.status = "canceled" => events'[Len(events')].type = "deleted"
    BY <1>1, <1>5, ChangedOK
  <2>2. sub.status = "canceled"
    BY <2>1
  <2>3. events' # <<>>
    BY <1>0, <2>1
  <2> QED BY <2>1, <2>2, <2>3
<1> QED BY <1>1, <1>2, <1>3, <1>4, <1>5, StripeActs DEF Adds, Webhook

LEMMA LearnCorrect == ASSUME OnePage, Delivery = "ordered" PROVE Spec => []LearnInv
<1>1. Init => Learns /\ Ended
  BY DEF Init, Learns, Ended, TrialRow
<1>2. LearnInv /\ PageInv' /\ [Next]_vars => LearnInv'
  <2>1. LearnInv /\ PageInv' /\ Next => LearnInv'
    BY LearnsStep, EndedStep DEF LearnInv
  <2>2. LearnInv /\ PageInv' /\ UNCHANGED vars => LearnInv'
    BY DEF LearnInv, Learns, Ended, Live, vars
  <2> QED BY <2>1, <2>2
<1>3. Init /\ PageInv => LearnInv
  BY <1>1 DEF LearnInv
<1> QED BY <1>2, <1>3, PageCorrect, PTL DEF Spec

(* Once Stripe has told everything, in order, the row of a user with one    *)
(* page names the subscription that is billed, also after a crash or a call *)
(* that failed or whose answer was lost, and is not "active" when all have  *)
(* ended, unless a subscribe has written a status that was out of date.    *)
THEOREM RowIsTold == ASSUME OnePage, Delivery = "ordered" PROVE Spec => []RowTellsBilling
<1>1. LearnInv => RowTellsBilling
  BY DEF LearnInv, Learns, Ended, RowTellsBilling, Quiet
<1> QED BY <1>1, LearnCorrect, PTL

-----------------------------------------------------------------------------
(* Deleting an account while no event is under way.                        *)

NoneLive == \A s \in DOMAIN subs : ~Live(s)

(* The deletion is about to cancel whatever is billed, or has done it, and   *)
(* no page of a deleted user is left to subscribe again.                   *)
Leaving ==
  /\ \A r \in Tab : req[r].pc # "idle" => user = "live"
  /\ \A r \in Tab : req[r].pc = "cancelNow" /\ req[r].insync =>
       \A s \in DOMAIN subs : Live(s) => req[r].sub = s
  /\ \A r \in Tab : req[r].pc = "deleteUser" /\ req[r].insync => NoneLive
  /\ user = "deletedInSync" => NoneLive

LeaveInv == LearnInv /\ Leaving

(* The users row changes in one step only.                                 *)
LEMMA UserActs ==
  ASSUME TypeInv, Next
  PROVE  \/ user' = user
         \/ \E r \in Tab : /\ DeleteUser(r) /\ req[r].pc = "deleteUser" /\ req'[r].pc = "idle"
                           /\ UNCHANGED subs /\ (user' = "deletedInSync" => req[r].insync)
<1>1. ASSUME NEW r \in Request, DeleteUser(r)
      PROVE  /\ r \in Tab /\ req[r].pc = "deleteUser" /\ req'[r].pc = "idle"
             /\ UNCHANGED subs /\ (user' = "deletedInSync" => req[r].insync)
  <2>1. r \in Tab /\ req[r].pc = "deleteUser"
    BY <1>1, PageRole DEF DeleteUser, At
  <2>2. req'[r].pc = "idle"
    BY <1>1, GoIdle DEF DeleteUser, IdleReq
  <2>3. UNCHANGED subs /\ (user' = "deletedInSync" => req[r].insync)
    BY <1>1 DEF DeleteUser, Stripe
  <2> QED BY <2>1, <2>2, <2>3
<1> QED BY <1>1, UserStep

(* Without a call of subscribe nothing new is billed.                      *)
LEMMA NothingNew ==
  ASSUME TypeInv, Next, \A r \in Tab : ~Adds(r)
  PROVE  /\ \A s \in DOMAIN subs' : Live(s)' => s \in DOMAIN subs /\ Live(s)
         /\ NoneLive => NoneLive'
<1>1. ASSUME NEW s \in DOMAIN subs', Live(s)' PROVE s \in DOMAIN subs /\ Live(s)
  BY <1>1, SubsFrom
<1> QED BY <1>1 DEF NoneLive

(* After the cancellation nothing is billed.                               *)
LEMMA CancelsAll ==
  ASSUME TypeInv, Next, NEW r \in Tab, CancelNow(r),
         \A s \in DOMAIN subs : Live(s) => req[r].sub = s
  PROVE  NoneLive'
<1>1. r \in Request
  BY RequestRole
<1>2. CASE ~Live(req[r].sub) /\ UNCHANGED <<subs, events>>
  BY <1>2 DEF NoneLive, Live
<1>3. ASSUME NEW x, x = req[r].sub, NEW sub, NEW types, Changed(x, sub, types), sub.status = "canceled"
      PROVE  NoneLive'
  <2>1. /\ DOMAIN subs' = DOMAIN subs /\ x \in DOMAIN subs
        /\ \A y \in DOMAIN subs : y # x => subs'[y] = subs[y]
        /\ ~Live(x)'
    BY <1>3, ChangedOK
  <2>2. ASSUME NEW s \in DOMAIN subs', Live(s)' PROVE FALSE
    <3>1. s # x
      BY <2>1, <2>2
    <3>2. s \in DOMAIN subs /\ subs'[s] = subs[s]
      BY <2>1, <2>2, <3>1
    <3>3. Live(s)
      BY <2>2, <3>2 DEF Live
    <3> QED BY <1>3, <3>1, <3>2, <3>3
  <2> QED BY <2>2 DEF NoneLive
<1> QED BY <1>1, <1>2, <1>3, CancelChange

LEMMA LeavingStep ==
  ASSUME OnePage, Delivery = "ordered", "stripe" \notin Faults, LeaveInv, Next
  PROVE  Leaving'
<1>1. PageInv /\ TypeInv /\ OneCustomer /\ Learns /\ Leaving
  BY DEF LeaveInv, LearnInv, PageInv
<1>2. ASSUME NEW r \in Tab, req'[r].pc # "idle" PROVE user = "live" /\ user' = "live"
  <2>1. user = "live"
    <3>1. CASE req'[r] = req[r]
      BY <1>1, <1>2, <3>1 DEF Leaving
    <3>2. CASE FromTab(r)
      BY <1>1, <3>2, FromTabStarts
    <3>3. CASE Goes(r) \/ CallFails(r)
      BY <1>1, <1>2, <3>3 DEF Goes, CallFails, StripeCalls, Leaving
    <3> QED BY <1>1, <1>2, <3>1, <3>2, <3>3, Reaches
  <2> QED BY <1>1, <1>2, <2>1, UserActs DEF OnePage
<1>3. ASSUME NEW r \in Tab, req'[r].pc \in {"cancelNow", "deleteUser"}
      PROVE  \A q \in Tab : ~Adds(q)
  <2> SUFFICES ASSUME NEW q \in Tab, Adds(q) PROVE FALSE
    OBVIOUS
  <2>1. q = r /\ r \in Request
    BY RequestRole DEF OnePage
  <2> QED BY <1>1, <1>3, <2>1, CreatedGoes
<1>4. ASSUME NEW r \in Tab, req'[r].pc = "cancelNow", req'[r].insync,
             NEW s \in DOMAIN subs', Live(s)'
      PROVE  req'[r].sub = s
  <2>1. s \in DOMAIN subs /\ Live(s)
    BY <1>1, <1>3, <1>4, NothingNew
  <2>2. CASE req'[r] = req[r]
    BY <1>1, <1>4, <2>1, <2>2 DEF Leaving
  <2>3. CASE FromTab(r)
    <3>1. events = <<>> /\ row # None /\ req'[r].sub = row.sub
      BY <1>1, <1>4, <2>3, FromTabStarts
    <3> QED BY <1>1, <2>1, <3>1 DEF Learns
  <2>4. CASE Goes(r)
    BY <1>4, <2>4 DEF Goes
  <2> QED BY <1>1, <1>4, <2>2, <2>3, <2>4, Reaches
<1>5. ASSUME NEW r \in Tab, req'[r].pc = "deleteUser", req'[r].insync PROVE NoneLive'
  <2>1. NoneLive => NoneLive'
    BY <1>1, <1>3, <1>5, NothingNew
  <2>2. CASE req'[r] = req[r]
    BY <1>1, <1>5, <2>1, <2>2 DEF Leaving
  <2>3. CASE FromTab(r)
    <3>1. events = <<>> /\ (row = None \/ row.sub = None)
      BY <1>1, <1>5, <2>3, FromTabStarts
    <3>2. NoneLive
      <4> SUFFICES ASSUME NEW s \in DOMAIN subs, Live(s) PROVE FALSE
        BY DEF NoneLive
      <4>1. row # None /\ row.sub = s
        BY <1>1, <3>1 DEF OneCustomer, Learns
      <4>2. s # None
        BY <1>1, Unfolded
      <4> QED BY <3>1, <4>1, <4>2
    <3> QED BY <2>1, <3>2
  <2>4. CASE Goes(r)
    <3>1. CancelNow(r) /\ req[r].pc = "cancelNow" /\ req[r].insync
      BY <1>5, <2>4 DEF Goes
    <3>2. \A s \in DOMAIN subs : Live(s) => req[r].sub = s
      BY <1>1, <3>1 DEF Leaving
    <3> QED BY <1>1, <3>1, <3>2, CancelsAll
  <2>5. ~CallFails(r)
    BY DEF CallFails
  <2> QED BY <1>1, <1>5, <2>2, <2>3, <2>4, <2>5, Reaches
<1>6. ASSUME user' = "deletedInSync" PROVE NoneLive'
  <2>1. CASE user' = user
    <3>1. \A r \in Tab : ~Adds(r)
      BY <1>1, <1>6, <2>1 DEF Leaving, Adds, Created
    <3> QED BY <1>1, <1>6, <2>1, <3>1, NothingNew DEF Leaving
  <2>2. ASSUME NEW r \in Tab, req[r].pc = "deleteUser", UNCHANGED subs, req[r].insync PROVE NoneLive'
    BY <1>1, <2>2 DEF Leaving, NoneLive, Live
  <2> QED BY <1>1, <1>6, <2>1, <2>2, UserActs
<1> QED BY <1>2, <1>4, <1>5, <1>6 DEF Leaving

(* An account deleted while no event was under way is not billed any more,  *)
(* if the calls to Stripe succeed: what DELETE /account cancels is what the *)
(* row names, and that is all there is.                                    *)
THEOREM DeletedIsNotBilled ==
  ASSUME OnePage, Delivery = "ordered", "stripe" \notin Faults
  PROVE  Spec => []DeletedInSyncIsNotBilled
<1>1. Init => Leaving
  <2> SUFFICES ASSUME Init PROVE Leaving
    OBVIOUS
  <2>1. \A r \in Tab : req[r].pc = "idle"
    BY RequestRole DEF Init, IdleReq
  <2> QED BY <2>1 DEF Init, Leaving
<1>2. LeaveInv /\ LearnInv' /\ [Next]_vars => LeaveInv'
  <2>1. LeaveInv /\ LearnInv' /\ Next => LeaveInv'
    BY LeavingStep DEF LeaveInv
  <2>2. LeaveInv /\ LearnInv' /\ UNCHANGED vars => LeaveInv'
    BY DEF LeaveInv, Leaving, NoneLive, Live, vars
  <2> QED BY <2>1, <2>2
<1>3. Init /\ LearnInv => LeaveInv
  BY <1>1 DEF LeaveInv
<1>4. LeaveInv => DeletedInSyncIsNotBilled
  BY DEF LeaveInv, Leaving, NoneLive, DeletedInSyncIsNotBilled
<1> QED BY <1>2, <1>3, <1>4, LearnCorrect, PTL DEF Spec

-----------------------------------------------------------------------------
(* Grants and subscriptions on one event loop, with any number of pages and *)
(* administrators, and events in any order.                                *)

OneLoop == Backend = "sqlite" /\ "crash" \notin Faults

(* What an administrator's handler has checked still holds when it writes. *)
Granting ==
  /\ \A r \in Request : req[r].pc \in {"grant", "revoke"} => turn = r
  /\ \A r \in Request : req[r].pc = "grant" /\ row # None => row.sub = None
  /\ \A r \in Request : req[r].pc = "revoke" => row # None /\ row.plan = "admin_grant"

Saving == \E r \in Request : req[r].pc = "saveSub" /\ req[r].status \in RowStatus

RowIsPaid == row # None /\ row.sub # None /\ row.tier # "free" /\ row.plan # "admin_grant"

(* A subscription of which the server has heard is in the row, or about to be. *)
Known == (\E s \in DOMAIN subs : ~subs[s].lost) => Saving \/ RowIsPaid

(* Only a revoke takes the tier from a row that names a subscription.      *)
TierKept == row # None /\ row.sub # None => row.tier # "free" \/ row.plan = "revoked"

GrantInv == TypeInv /\ Granting /\ Known /\ TierKept

LEMMA AdminPC ==
  ASSUME TypeInv, NEW r \in Request, req[r].pc \in {"grant", "revoke"}
  PROVE  r \in Admin /\ r \notin Tab
BY RequestRole DEF TypeInv, Roles

LEMMA AdminContinues ==
  ASSUME TypeInv, NEW r \in Admin, Continue(r)
  PROVE  r \in Request /\ (Grant(r) \/ Revoke(r)) /\ req'[r].pc = "idle"
<1>1. r \in Request /\ req[r].pc \in {"idle", "grant", "revoke"}
  BY RequestRole DEF TypeInv, Roles
<1>2. Grant(r) \/ Revoke(r)
  BY <1>1 DEF Continue, NewCustomer, AddCustomer, SaveCustomer, ListSubs, NewSub, AddSub,
              SaveSub, SetEnding, CancelNow, DeleteUser, At
<1>3. Goto(r, "idle", IdleReq)
  BY <1>2 DEF Grant, Revoke
<1> QED BY <1>1, <1>2, <1>3, GoIdle DEF IdleReq

(* While a handler holds the event loop, nothing but the clock and Stripe   *)
(* goes on beside it.                                                      *)
LEMMA LoopHeld ==
  ASSUME TypeInv, Next, "crash" \notin Faults, turn # None
  PROVE  \/ turn \in Request /\ (Continue(turn) \/ AnswerLost(turn))
         \/ TrialEnds /\ UNCHANGED <<req, turn>>
         \/ UNCHANGED <<row, req, turn>>
<1>1. ASSUME NEW r \in Request, Continue(r) PROVE turn = r
  BY <1>1 DEF Continue, NewCustomer, AddCustomer, SaveCustomer, ListSubs, NewSub, AddSub,
              SaveSub, SetEnding, CancelNow, DeleteUser, Grant, Revoke, At
<1>5. ASSUME NEW r \in Request, AnswerLost(r) PROVE turn = r
  BY <1>5 DEF AnswerLost, AddCustomer, AddSub, At
<1>2. ASSUME NEW r, FromTab(r) \/ FromAdmin(r) \/ CallFails(r) PROVE FALSE
  BY <1>2 DEF FromTab, FromAdmin, BeginSetup, BeginSubscribe, BeginEnding, BeginDelete, BeginGrant,
              BeginRevoke, Begin, CallFails
<1>3. ~ExtendTrial /\ ~Webhook /\ ~Crash
  BY DEF ExtendTrial, Webhook, Deliver, Crash
<1>4. ASSUME NEW s, StripeMoves(s) PROVE row' = row
  BY <1>4 DEF StripeMoves, PaymentSucceeds, PaymentFails, GivesUp, PeriodEnds, Moves
<1> QED BY <1>1, <1>2, <1>3, <1>4, <1>5, NextActs, NoRequestQuiet DEF NoRequest

LEMMA AdminBegins ==
  ASSUME TypeInv, Backend = "sqlite", NEW r \in Admin, FromAdmin(r)
  PROVE  /\ turn' = r /\ row' = row
         /\ \/ req'[r].pc = "grant" /\ (row # None => row.sub = None)
            \/ req'[r].pc = "revoke" /\ row # None /\ row.plan = "admin_grant"
<1>1. r \in Request /\ IdleReq \in ReqState /\ row \in Row \cup {None} /\ req \in [Request -> ReqState]
  BY Unfolded, RequestRole
<1>2. CASE BeginRevoke(r)
  <2>1. Begin(r, "revoke", "revoke", IdleReq) /\ "revoke" \in PC /\ row # None /\ row.plan = "admin_grant"
    BY <1>2 DEF BeginRevoke, PC
  <2>2. req'[r].pc = "revoke"
    BY <1>1, <2>1 DEF Begin, IdleReq
  <2> QED BY <2>1, <2>2 DEF Begin
<1>3. ASSUME NEW t \in Tier, BeginGrant(r, t)
      PROVE  turn' = r /\ row' = row /\ req'[r].pc = "grant" /\ (row # None => row.sub = None)
  <2> DEFINE q == [IdleReq EXCEPT !.tier = t]
  <2>1. Begin(r, "grant", "grant", q) /\ (row # None => row.sub = None)
    BY <1>3 DEF BeginGrant
  <2>2. q \in ReqState
    BY <1>1 DEF ReqState
  <2> HIDE DEF q
  <2>3. req' = [req EXCEPT ![r] = [q EXCEPT !.pc = "grant", !.seen = row]]
    BY <2>1 DEF Begin
  <2>4. [q EXCEPT !.pc = "grant", !.seen = row].pc = "grant"
    BY <2>2 DEF ReqState
  <2>5. req'[r].pc = "grant"
    BY <1>1, <2>3, <2>4
  <2> QED BY <2>1, <2>5 DEF Begin
<1> QED BY <1>2, <1>3 DEF FromAdmin

LEMMA GrantingStep ==
  ASSUME OneLoop, GrantInv, Next
  PROVE  Granting'
<1>1. TypeInv /\ TypeInv' /\ Granting /\ Backend = "sqlite" /\ "crash" \notin Faults
  BY TypeStep DEF GrantInv, OneLoop
<1>2. ASSUME NEW r \in Request, req'[r].pc \in {"grant", "revoke"}
      PROVE  \/ FromAdmin(r) /\ r \in Admin
             \/ /\ req'[r] = req[r] /\ turn = r /\ turn' = r
                /\ row' = row \/ TrialEnds
  <2>1. r \in Admin
    BY <1>1, <1>2, RequestRole DEF TypeInv, Roles
  <2>2. ~CallFails(r)
    BY <1>1, <2>1 DEF TypeInv, Roles, CallFails, StripeCalls
  <2>3. ~Continue(r) /\ ~Crash /\ ~AnswerLost(r)
    BY <1>1, <1>2, <2>1, AdminContinues, AnswerLostMoves, RequestRole DEF Crash
  <2>4. FromAdmin(r) \/ req'[r] = req[r]
    BY <1>1, <1>2, <2>1, <2>2, <2>3, Steps, RequestRole DEF MovesOnly
  <2>5. ASSUME req'[r] = req[r] PROVE turn = r /\ turn' = r /\ (row' = row \/ TrialEnds)
    <3>1. turn = r /\ turn # None
      BY <1>1, <1>2, <2>5, BillingAssumption DEF Granting, Request
    <3> QED BY <1>1, <2>3, <3>1, LoopHeld
  <2> QED BY <2>1, <2>4, <2>5
<1>3. TrialEnds => row # None /\ row'.sub = row.sub /\ row'.plan = row.plan
  BY <1>1, Unfolded DEF TrialEnds, Row
<1>4. ASSUME NEW r \in Request, req'[r].pc \in {"grant", "revoke"} PROVE turn' = r
  BY <1>1, <1>2, <1>4, AdminBegins
<1>5. ASSUME NEW r \in Request, req'[r].pc = "grant", row' # None PROVE row'.sub = None
  BY <1>1, <1>2, <1>3, <1>5, AdminBegins DEF Granting
<1>6. ASSUME NEW r \in Request, req'[r].pc = "revoke"
      PROVE  row' # None /\ row'.plan = "admin_grant"
  BY <1>1, <1>2, <1>3, <1>6, AdminBegins, RowStep DEF Granting
<1> QED BY <1>4, <1>5, <1>6 DEF Granting

(* What a step does to the row, told by what it leaves in sub and plan.    *)
LEMMA RowCases ==
  ASSUME GrantInv, Next
  PROVE  \/ row' = row
         \/ \E r \in Request :
              /\ SaveSub(r) /\ req[r].pc = "saveSub" /\ req[r].status \in RowStatus
              /\ row' # None /\ row'.sub = req[r].sub /\ row'.sub # None
              /\ row'.plan = "paid" /\ row'.tier # "free"
         \/ row' # None /\ row'.sub = None /\ (row # None => row.sub = None)
         \/ /\ row # None /\ row' # None /\ row.plan = "admin_grant"
            /\ row'.sub = row.sub /\ row'.plan = "revoked"
         \/ row # None /\ row' # None /\ row'.sub = row.sub /\ row'.plan = row.plan /\ row'.tier = row.tier
         \/ /\ row # None /\ row' # None /\ row'.plan = row.plan
            /\ row.sub # None => row'.sub # None
            /\ row.tier # "free" => row'.tier # "free"
            /\ row'.sub = row.sub \/ row'.tier # "free"
<1>1. TypeInv /\ Granting /\ row \in Row \cup {None} /\ None \notin Row
  BY Unfolded DEF GrantInv
<1> DEFINE SamePlan == row # None /\ row' # None /\ row'.sub = row.sub /\ row'.plan = row.plan
                       /\ row'.tier = row.tier
           WasFree == row' # None /\ row'.sub = None /\ (row # None => row.sub = None)
           WasGrant == row # None /\ row' # None /\ row.plan = "admin_grant"
                       /\ row'.sub = row.sub /\ row'.plan = "revoked"
           Saved == \E r \in Request :
              /\ SaveSub(r) /\ req[r].pc = "saveSub" /\ req[r].status \in RowStatus
              /\ row' # None /\ row'.sub = req[r].sub /\ row'.sub # None
              /\ row'.plan = "paid" /\ row'.tier # "free"
           Stored == /\ row # None /\ row' # None /\ row'.plan = row.plan
                     /\ row.sub # None => row'.sub # None
                     /\ row.tier # "free" => row'.tier # "free"
                     /\ row'.sub = row.sub \/ row'.tier # "free"
<1>2. row # None => row' # None
  BY <1>1, RowStep
<1>3. ASSUME NEW r \in Request, Continue(r) PROVE row' = row \/ SamePlan \/ WasFree \/ WasGrant \/ Saved
  <2>1. req[r] \in ReqState /\ Shape(req[r]) /\ (req[r].seen # None => row # None)
    BY <1>1, Unfolded
  <2>2. ASSUME SaveCustomer(r) PROVE SamePlan
    BY <1>1, <1>2, <2>1, <2>2 DEF SaveCustomer, At, Shape, Row
  <2>3. ASSUME SaveSub(r), req[r].status \in RowStatus PROVE Saved
    <3>1. /\ req[r].pc = "saveSub" /\ row \in Row /\ req[r].sub \in Sub /\ req[r].sub # None
          /\ req[r].tier \in Tier /\ "free" \notin Tier
      BY <1>1, <2>1, <2>3, Unfolded DEF SaveSub, At, Shape, Tier
    <3> DEFINE moved == MovedOn(r)
    <3>2. row' = [row EXCEPT !.status = req[r].status, !.sub = req[r].sub,
                             !.plan = "paid", !.tier = req[r].tier, !.late = moved]
      BY <2>3 DEF SaveSub
    <3> HIDE DEF moved
    <3>3. row'.sub = req[r].sub /\ row'.plan = "paid" /\ row'.tier = req[r].tier
      BY <3>1, <3>2 DEF Row
    <3> QED BY <1>1, <1>2, <2>3, <3>1, <3>3
  <2>4. ASSUME SaveSub(r), req[r].status \notin RowStatus PROVE row' = row
    BY <2>4 DEF SaveSub
  <2>5. ASSUME Grant(r) PROVE row' = row \/ WasFree
    <3>1. row # None => row.sub = None
      BY <1>1, <2>5 DEF Grant, At, Granting
    <3>2. CASE req[r].seen # None
      BY <1>1, <1>2, <2>1, <2>5, <3>1, <3>2 DEF Grant, Row
    <3>3. CASE req[r].seen = None /\ row # None
      BY <2>5, <3>3 DEF Grant
    <3>4. CASE req[r].seen = None /\ row = None
      <4>1. TrialRow \in Row
        BY DEF TrialRow, Row, RowStatus
      <4>2. row' \in Row /\ row'.sub = None
        BY <2>1, <2>5, <3>4, <4>1 DEF Grant, TrialRow, Row, RowStatus, At, Shape
      <4> QED BY <1>1, <3>4, <4>2
    <3> QED BY <3>2, <3>3, <3>4
  <2>6. ASSUME Revoke(r) PROVE WasGrant
    <3>1. row \in Row /\ row.plan = "admin_grant"
      BY <1>1, <2>1, <2>6 DEF Revoke, At, Shape, Granting
    <3> DEFINE st == IF req[r].seen.trial THEN "trialing" ELSE "canceled"
    <3>2. row' = [row EXCEPT !.status = st, !.plan = "revoked", !.tier = "free"]
      BY <2>6 DEF Revoke
    <3> HIDE DEF st
    <3> QED BY <1>1, <1>2, <3>1, <3>2 DEF Row
  <2>7. ASSUME NewCustomer(r) \/ ListSubs(r) \/ NewSub(r) \/ SetEnding(r, "setEnding", TRUE)
             \/ SetEnding(r, "unsetEnding", FALSE) \/ CancelNow(r) \/ DeleteUser(r)
        PROVE  row' = row
    BY <2>7 DEF NewCustomer, AddCustomer, ListSubs, NewSub, AddSub, SetEnding, CancelNow, DeleteUser
  <2> HIDE DEF SamePlan, WasFree, WasGrant, Saved
  <2> QED BY <1>3, <2>2, <2>3, <2>4, <2>5, <2>6, <2>7 DEF Continue
<1>4. ASSUME NEW r, FromTab(r) \/ FromAdmin(r) \/ CallFails(r) \/ AnswerLost(r) \/ Crash
      PROVE  row' = row
  BY <1>4 DEF FromTab, FromAdmin, BeginSetup, BeginSubscribe, BeginEnding, BeginDelete, BeginGrant,
              BeginRevoke, Begin, CallFails, AnswerLost, AddCustomer,
              AddSub, Crash
<1>5. ASSUME ExtendTrial PROVE WasFree \/ SamePlan
  <2>1. CASE row = None
    <3>1. TrialRow \in Row /\ TrialRow.sub = None
      BY DEF TrialRow, Row, RowStatus
    <3> QED BY <1>1, <1>5, <2>1, <3>1 DEF ExtendTrial
  <2>2. CASE row # None
    BY <1>1, <1>2, <1>5, <2>2 DEF ExtendTrial, Row
  <2> QED BY <2>1, <2>2
<1>6. ASSUME TrialEnds PROVE SamePlan
  BY <1>1, <1>2, <1>6 DEF TrialEnds, Row
<1>7. ASSUME NEW s, StripeMoves(s) PROVE row' = row
  BY <1>7 DEF StripeMoves, PaymentSucceeds, PaymentFails, GivesUp, PeriodEnds, Moves
<1>8. ASSUME Webhook PROVE row' = row \/ Stored
  <2>1. PICK i \in DOMAIN events, again \in BOOLEAN : Deliver(i, again)
    BY <1>8 DEF Webhook
  <2>2. events # <<>> /\ events[i] \in Event
    BY <1>1, <2>1, DeliverOK
  <2>3. CASE row # None /\ row' = Handled(events[i])
    <3> DEFINE e == events[i]
    <3>1. e.sub # None /\ e.tier # "free"
      BY <1>1, <2>1, <2>2, Unfolded DEF Event, Tier
    <3>2. /\ row'.plan = row.plan /\ row'.sub \in {row.sub, e.sub} /\ row'.tier \in {row.tier, e.tier}
          /\ row'.sub # row.sub => row'.tier = e.tier
      <4>1. row \in Row /\ e \in Event
        BY <1>1, <2>2, <2>3
      <4> HIDE DEF e
      <4>2. /\ Handled(e).plan = row.plan
            /\ Handled(e).sub = IF e.type \in {"created", "updated"} /\ e.status \in RowStatus
                                  THEN e.sub ELSE row.sub
            /\ Handled(e).tier \in {row.tier, e.tier}
            /\ Handled(e).sub # row.sub => Handled(e).tier = e.tier
        BY <4>1, HandledOK
      <4>3. row' = Handled(e)
        BY <2>3 DEF e
      <4> QED BY <4>2, <4>3
    <3> HIDE DEF e
    <3> QED BY <1>2, <2>2, <2>3, <3>1, <3>2
  <2>4. row' = row \/ (row # None /\ row' = Handled(events[i]))
    BY <1>1, <2>1, DeliverOK
  <2> QED BY <2>3, <2>4
<1> HIDE DEF SamePlan, WasFree, WasGrant, Saved, Stored
<1>9. row' = row \/ SamePlan \/ WasFree \/ WasGrant \/ Saved \/ Stored
  BY <1>3, <1>4, <1>5, <1>6, <1>7, <1>8, NextActs DEF NoRequest
<1> QED BY <1>9 DEF SamePlan, WasFree, WasGrant, Saved, Stored

LEMMA KnownStep ==
  ASSUME OneLoop, GrantInv, Next
  PROVE  Known'
<1>1. TypeInv /\ TypeInv' /\ Known /\ "crash" \notin Faults
  BY TypeStep DEF GrantInv, OneLoop
<1> SUFFICES ASSUME NEW x \in DOMAIN subs', ~subs'[x].lost PROVE Saving' \/ RowIsPaid'
  BY DEF Known
<1>2. \/ \E s \in DOMAIN subs : ~subs[s].lost
      \/ \E r \in Tab : \E s, st, types : Created(r, s, st, FALSE, types)
  <2>1. CASE UNCHANGED subs
    BY <2>1
  <2>2. ASSUME NEW r \in Tab, NEW s, NEW st, NEW lost, NEW types, Created(r, s, st, lost, types)
        PROVE  \/ \E y \in DOMAIN subs : ~subs[y].lost
               \/ Created(r, s, st, FALSE, types)
    <3> DEFINE n == Len(types)
    <3>1. Appears(s, st, n) /\ subs'[s].lost = lost /\ lost \in BOOLEAN
      BY <1>1, <2>2, CreatedOK DEF Created
    <3> HIDE DEF n
    <3>2. CASE x = s
      <4>1. lost = FALSE
        BY <3>1, <3>2
      <4> QED BY <2>2, <4>1
    <3>3. CASE x # s
      BY <3>1, <3>3 DEF Appears
    <3> QED BY <3>2, <3>3
  <2>3. ASSUME NEW s, NEW sub, NEW types, Changed(s, sub, types)
        PROVE  x \in DOMAIN subs /\ ~subs[x].lost
    BY <1>1, <2>3, ChangedOK
  <2> QED BY <1>1, <2>1, <2>2, <2>3, StripeActs DEF Adds, Deliver
<1>3. ASSUME NEW r \in Tab, NEW s, NEW st, NEW types, Created(r, s, st, FALSE, types)
      PROVE  Saving'
  <2> r \in Request
    BY RequestRole
  <2>1. req'[r].pc = "saveSub" /\ req'[r].seen = req[r].seen
        /\ req'[r].sub = s /\ req'[r].status = st
    BY <1>1, <1>3, HeardGoes
  <2>2. st \in RowStatus
    BY <1>3 DEF Created, RowStatus
  <2> QED BY <2>1, <2>2 DEF Saving
<1>4. CASE RowIsPaid
  BY <1>1, <1>4, RowCases DEF RowIsPaid
<1>5. CASE Saving
  <2>1. PICK r \in Request : req[r].pc = "saveSub" /\ req[r].status \in RowStatus
    BY <1>5 DEF Saving
  <2>2. CASE req'[r] = req[r]
    BY <2>1, <2>2 DEF Saving
  <2>3. CASE SaveSub(r)
    <3>1. req[r].sub # None /\ row # None /\ row \in Row /\ req[r].tier \in Tier /\ None \notin Row
      BY <1>1, <2>1, Unfolded DEF Shape
    <3> DEFINE moved == MovedOn(r)
    <3>2. row' = [row EXCEPT !.status = req[r].status, !.sub = req[r].sub,
                             !.plan = "paid", !.tier = req[r].tier, !.late = moved]
      BY <2>1, <2>3 DEF SaveSub
    <3> HIDE DEF moved
    <3>3. row'.sub = req[r].sub /\ row'.plan = "paid" /\ row'.tier = req[r].tier /\ row' # None
      BY <1>1, <3>1, <3>2, RowStep DEF Row
    <3> QED BY <3>1, <3>3 DEF RowIsPaid, Tier
  <2>4. Continue(r) => SaveSub(r)
    BY <2>1 DEF Continue, NewCustomer, AddCustomer, SaveCustomer, ListSubs, NewSub, AddSub,
                SetEnding, CancelNow, DeleteUser, Grant, Revoke, At
  <2>5. ~CallFails(r) /\ ~AnswerLost(r) /\ ~FromTab(r) /\ ~FromAdmin(r) /\ ~Crash
    BY <1>1, <2>1 DEF CallFails, AnswerLost, AddCustomer, AddSub, At, StripeCalls, FromTab,
                      FromAdmin, BeginSetup, BeginSubscribe, BeginEnding, BeginDelete,
                      BeginGrant, BeginRevoke,
                Begin, Resting, Crash
  <2> QED BY <1>1, <2>1, <2>2, <2>3, <2>4, <2>5, Steps DEF MovesOnly
<1> QED BY <1>1, <1>2, <1>3, <1>4, <1>5 DEF Known

LEMMA TierStep == ASSUME GrantInv, Next PROVE TierKept'
BY RowCases DEF GrantInv, TierKept

LEMMA GrantCorrect == ASSUME OneLoop PROVE Spec => []GrantInv
<1>1. Init => GrantInv
  <2> SUFFICES ASSUME Init PROVE GrantInv
    OBVIOUS
  <2>1. \A r \in Request : req[r].pc = "idle"
    BY DEF Init, IdleReq
  <2>2. DOMAIN subs = {} /\ (row # None => row.sub = None)
    BY DEF Init, TrialRow
  <2> QED BY InitType, <2>1, <2>2 DEF Init, GrantInv, Granting, Known, TierKept
<1>2. GrantInv /\ [Next]_vars => GrantInv'
  <2>1. GrantInv /\ Next => GrantInv'
    BY TypeStep, GrantingStep, KnownStep, TierStep DEF GrantInv
  <2>2. GrantInv /\ UNCHANGED vars => GrantInv'
    BY StutterType DEF GrantInv, Granting, Known, TierKept, Saving, RowIsPaid, vars
  <2> QED BY <2>1, <2>2
<1> QED BY <1>1, <1>2, PTL DEF Spec

(* A subscription that is being paid gives a paid tier, unless the server got *)
(* no answer when it was created and a grant was revoked since: on one event *)
(* loop without crashes, with any number of pages and administrators, calls *)
(* of Stripe that fail before or after they took effect, and events in any  *)
(* order and repeated.                                                     *)
THEOREM PaidUsersHaveTheirTier == ASSUME OneLoop PROVE Spec => []PaidHasTier
<1>1. GrantInv => PaidHasTier
  <2> SUFFICES ASSUME GrantInv, Quiet, row # None, row.sub # None, Live(row.sub), row.tier = "free"
               PROVE  subs[row.sub].lost /\ row.plan = "revoked"
    BY DEF PaidHasTier
  <2>1. ~Saving
    BY DEF Saving, Quiet, Resting
  <2>2. ~RowIsPaid
    BY DEF RowIsPaid
  <2>3. subs[row.sub].lost
    BY <2>1, <2>2 DEF GrantInv, Known, Live
  <2> QED BY <2>3 DEF GrantInv, TierKept
<1> QED BY <1>1, GrantCorrect, PTL

(* A user whose tier was granted is billed by Stripe for no subscription of *)
(* which the server has heard, in the same world.                          *)
THEOREM GrantedUsersAreNotBilled == ASSUME OneLoop PROVE Spec => []GrantedIsNotBilled
<1>1. GrantInv => GrantedIsNotBilled
  <2> SUFFICES ASSUME GrantInv, Quiet PROVE GrantedIsNotBilled
    BY DEF GrantedIsNotBilled
  <2>1. ~Saving
    BY DEF Saving, Quiet, Resting
  <2> QED BY <2>1 DEF GrantInv, Known, RowIsPaid, GrantedIsNotBilled
<1> QED BY <1>1, GrantCorrect, PTL
=============================================================================
