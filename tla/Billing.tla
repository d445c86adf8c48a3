------------------------------- MODULE Billing -------------------------------
(***************************************************************************)
(* The subscription of one personal organization: its row in the database, *)
(* what Stripe holds for it, and the handlers and webhooks between them.   *)
(*                                                                         *)
(*   server/src/routes/billing.ts            setup, subscribe, webhooks    *)
(*   server/src/services/stripeService.ts    the calls to Stripe           *)
(*   server/src/routes/{account,admin}.ts    deletion, grants, extensions  *)
(*   server/src/repos/impl/SubscriptionRepoImpl.ts                         *)
(*                                                                         *)
(* Stripe is external: it keeps customers and subscriptions, moves a       *)
(* subscription through its statuses and sends an event for every change.  *)
(* A call to Stripe is always an interleaving point; two SQL statements in *)
(* a row are one on PostgreSQL only (see Ledger).                          *)
(***************************************************************************)
EXTENDS Integers, FiniteSets, Sequences, SequencesExt

CONSTANTS
  Backend,      \* "sqlite" or "pg"
  Ops,          \* the handlers the clients of this instance call
  Tab, Admin,   \* request slots: open pages of the user, and of administrators
  Customer, Sub,        \* Stripe ids in the order Stripe gives them out
  Delivery,     \* "ordered", or "any": events overtake and repeat each other
  Faults,       \* what may go wrong: "stripe" calls fail, the server "crash"es
  MaxEvents,    \* bound: undelivered events
  None

ASSUME BillingAssumption ==
  /\ Backend \in {"sqlite", "pg"} /\ Delivery \in {"ordered", "any"}
  /\ Customer \subseteq Nat /\ Sub \subseteq Nat
  /\ Tab \cap Admin = {} /\ None \notin Tab \cup Admin \cup Customer \cup Sub
  /\ Faults \subseteq {"stripe", "crash"} /\ MaxEvents \in Nat

VARIABLES
  user,       \* the users row: "live", or how it was deleted
  row,        \* the subscriptions row, or None
  customers,  \* Stripe: the customers
  subs,       \* Stripe: the subscriptions
  events,     \* Stripe: the events not yet delivered, oldest first
  req,        \* request -> program counter and locals of its handler
  turn        \* the request that holds the event loop, or None

vars == <<user, row, customers, subs, events, req, turn>>
Stripe == <<customers, subs, events>>

-----------------------------------------------------------------------------
Request == Tab \cup Admin

Tier == {"business", "org"}

\* CHECK (status IN ...): the statuses the row can hold.
RowStatus == {"trialing", "active", "past_due", "canceled", "incomplete"}

\* "unpaid" stands for the statuses of Stripe that the CHECK rejects.
StripeStatus == {"active", "past_due", "canceled", "incomplete", "unpaid"}

\* "trial" is trial_ends_at > now; seats follow tier and are left out.
\* "paid" stands for the plans that subscribe writes.  "late" (history): the last
\* status was written by a subscribe whose subscription had meanwhile moved on.
Row == [status : RowStatus, plan : {"beta", "paid", "admin_grant", "revoked"},
        tier : Tier \cup {"free"}, trial : BOOLEAN,
        customer : Customer \cup {None}, sub : Sub \cup {None}, late : BOOLEAN]

ASSUME RowAssumption == None \notin Row

TrialRow == [status |-> "trialing", plan |-> "beta", tier |-> "free", trial |-> TRUE,
             customer |-> None, sub |-> None, late |-> FALSE]

\* "ending" is cancel_at_period_end; tier is read off the line items.
\* "lost" (history): the server got no answer when it was created.
Subscription == [customer : Customer, status : StripeStatus, tier : Tier, ending : BOOLEAN,
                 lost : BOOLEAN]

Event == [type : {"created", "updated", "deleted", "paid", "failed"},
          customer : Customer, sub : Sub, status : StripeStatus, tier : Tier]

StripeCalls == {"newCustomer", "list", "newSub", "setEnding", "unsetEnding", "cancelNow"}

PC == StripeCalls \cup {"idle", "saveCustomer", "saveSub", "deleteUser", "grant", "revoke"}

\* "seen" is the row as the handler has read it, "insync" (history) whether no
\* event was under way when a deletion began.
ReqState == [pc : PC, tier : Tier \cup {None}, seen : Row \cup {None},
             customer : Customer \cup {None}, sub : Sub \cup {None},
             status : StripeStatus \cup {None}, insync : BOOLEAN]

IdleReq == [pc |-> "idle", tier |-> None, seen |-> None, customer |-> None, sub |-> None,
            status |-> None, insync |-> FALSE]

TypeOK ==
  /\ user \in {"live", "deleted", "deletedInSync"}
  /\ row \in Row \cup {None}
  /\ customers \in SUBSET Customer
  /\ DOMAIN subs \in SUBSET Sub /\ subs \in [DOMAIN subs -> Subscription]
  /\ events \in Seq(Event)
  /\ req \in [Request -> ReqState]
  /\ turn \in Request \cup {None}

Init ==
  /\ user = "live"
  /\ row \in {None, TrialRow}
  /\ customers = {} /\ subs = [s \in {} |-> None] /\ events = <<>>
  /\ req = [r \in Request |-> IdleReq]
  /\ turn = None

-----------------------------------------------------------------------------
Resting(r) == req[r].pc = "idle"

At(r, from) == req[r].pc = from /\ turn \in {None, r}

\* The handler goes on with "locals"; on SQLite it keeps the event loop from one
\* SQL statement to the next.
Goto(r, to, locals) ==
  /\ req' = [req EXCEPT ![r] = IF to = "idle" THEN IdleReq ELSE [locals EXCEPT !.pc = to]]
  /\ turn' = None

Begin(r, op, to, locals) ==
  /\ op \in Ops
  /\ Resting(r) /\ turn = None
  /\ req' = [req EXCEPT ![r] = [locals EXCEPT !.pc = to, !.seen = row]]
  /\ turn' = IF Backend = "sqlite" /\ to \in {"deleteUser", "grant", "revoke"} THEN r ELSE None
  /\ UNCHANGED <<user, row>> /\ UNCHANGED Stripe

Live(s) == s \in DOMAIN subs /\ subs[s].status # "canceled"

\* The newest subscription of the customer that is not canceled, if there is one.
Newest(c) ==
  LET mine == {s \in DOMAIN subs : Live(s) /\ subs[s].customer = c}
  IN  {s \in mine : \A t \in mine : t <= s}

EventOf(type, s, sub) ==
  [type |-> type, customer |-> sub.customer, sub |-> s, status |-> sub.status, tier |-> sub.tier]

\* Subscription s becomes "sub" and Stripe sends an event of each type.
Becomes(s, sub, types) ==
  /\ Len(events) + Len(types) <= MaxEvents
  /\ subs' = [x \in DOMAIN subs \cup {s} |-> IF x = s THEN sub ELSE subs[x]]
  /\ events' = events \o [k \in DOMAIN types |-> EventOf(types[k], s, sub)]

-----------------------------------------------------------------------------
(* POST /setup-intent, for a row without a customer: getOrCreateCustomer    *)
(* asks Stripe, and the new id is saved if there is a row.                  *)

BeginSetup(r) ==
  /\ user = "live" /\ (row # None => row.customer = None)
  /\ Begin(r, "setup", "newCustomer", IdleReq)

AddCustomer(r, c) ==
  /\ At(r, "newCustomer")
  /\ c \in Customer \ customers /\ \A d \in Customer \ customers : c <= d
  /\ customers' = customers \cup {c}
  /\ UNCHANGED <<user, row, subs, events>>

NewCustomer(r) ==
  \E c \in Customer :
    /\ AddCustomer(r, c)
    /\ Goto(r, IF req[r].seen = None THEN "idle" ELSE "saveCustomer",
            [req[r] EXCEPT !.customer = c])

SaveCustomer(r) ==
  /\ At(r, "saveCustomer")
  /\ row' = [row EXCEPT !.customer = req[r].customer]
  /\ Goto(r, "idle", IdleReq)
  /\ UNCHANGED user /\ UNCHANGED Stripe

-----------------------------------------------------------------------------
(* POST /subscribe: attachAndSubscribe, then the optimistic write.          *)

BeginSubscribe(r, t) ==
  /\ user = "live" /\ row # None /\ row.customer # None
  /\ Begin(r, "subscribe", "list", [IdleReq EXCEPT !.tier = t])

\* Fault: the subscription is created without looking for an existing one.
ListNoSubs(r) ==
  /\ At(r, "list")
  /\ Goto(r, "newSub", req[r])
  /\ UNCHANGED <<user, row>> /\ UNCHANGED Stripe

\* The payment method is attached and the customer's subscriptions are listed:
\* one that is not canceled is returned as it is.
ListSubs(r) ==
  LET found == Newest(req[r].seen.customer)
  IN  /\ At(r, "list")
      /\ \/ found = {} /\ Goto(r, "newSub", req[r])
         \/ \E s \in found :
              Goto(r, "saveSub", [req[r] EXCEPT !.sub = s, !.status = subs[s].status])
      /\ UNCHANGED <<user, row>> /\ UNCHANGED Stripe

\* The first payment succeeds, or waits for the user's bank.
AddSub(r, s, st, lost) ==
  /\ At(r, "newSub")
  /\ s \in Sub \ DOMAIN subs /\ \A u \in Sub \ DOMAIN subs : s <= u
  /\ Becomes(s, [customer |-> req[r].seen.customer, status |-> st, tier |-> req[r].tier,
                 ending |-> FALSE, lost |-> lost],
             IF st = "active" THEN <<"created", "paid">> ELSE <<"created">>)
  /\ UNCHANGED <<user, row, customers>>

NewSub(r) ==
  \E s \in Sub, st \in {"active", "incomplete"} :
    /\ AddSub(r, s, st, FALSE)
    /\ Goto(r, "saveSub", [req[r] EXCEPT !.sub = s, !.status = st])

\* Whether the subscription of the request is not any more as Stripe answered.
MovedOn(r) == subs[req[r].sub].status # req[r].status

\* Fault: the plan is left as it was.
SaveSubKeepPlan(r) ==
  /\ At(r, "saveSub")
  /\ row' = IF req[r].status \in RowStatus
              THEN [row EXCEPT !.status = req[r].status, !.sub = req[r].sub, !.tier = req[r].tier,
                               !.late = MovedOn(r)]
              ELSE row
  /\ Goto(r, "idle", IdleReq)
  /\ UNCHANGED user /\ UNCHANGED Stripe

\* The tier of the request is written, whichever subscription came back; a
\* status outside the CHECK fails the UPDATE and the handler answers 500.
SaveSub(r) ==
  /\ At(r, "saveSub")
  /\ row' = IF req[r].status \in RowStatus
              THEN [row EXCEPT !.status = req[r].status, !.sub = req[r].sub,
                               !.plan = "paid", !.tier = req[r].tier, !.late = MovedOn(r)]
              ELSE row
  /\ Goto(r, "idle", IdleReq)
  /\ UNCHANGED user /\ UNCHANGED Stripe

-----------------------------------------------------------------------------
(* POST /cancel and /reactivate: cancel_at_period_end is set at Stripe; the *)
(* row is left to the webhooks.                                             *)

BeginEnding(r, op, to) ==
  /\ user = "live" /\ row # None /\ row.sub # None
  /\ Begin(r, op, to, [IdleReq EXCEPT !.sub = row.sub])

\* Stripe refuses to change a subscription that is canceled.
SetEnding(r, pc, ending) ==
  LET s == req[r].sub
  IN  /\ At(r, pc)
      /\ IF Live(s) THEN Becomes(s, [subs[s] EXCEPT !.ending = ending], <<"updated">>)
                    ELSE UNCHANGED <<subs, events>>
      /\ Goto(r, "idle", IdleReq)
      /\ UNCHANGED <<user, row, customers>>

-----------------------------------------------------------------------------
(* DELETE /account: the subscription the row names is canceled, then the    *)
(* users row goes; the organization and its subscriptions row stay.         *)

BeginDelete(r) ==
  /\ user = "live"
  /\ Begin(r, "delete", IF row # None /\ row.sub # None THEN "cancelNow" ELSE "deleteUser",
       [IdleReq EXCEPT !.sub = IF row = None THEN None ELSE row.sub, !.insync = (events = <<>>)])

\* Fault: the subscription runs on to the end of the period.
CancelLater(r) ==
  LET s == req[r].sub
  IN  /\ At(r, "cancelNow")
      /\ IF Live(s) THEN Becomes(s, [subs[s] EXCEPT !.ending = TRUE], <<"updated">>)
                    ELSE UNCHANGED <<subs, events>>
      /\ Goto(r, "deleteUser", req[r])
      /\ UNCHANGED <<user, row, customers>>

\* A refusal by Stripe is logged and ignored.
CancelNow(r) ==
  LET s == req[r].sub
  IN  /\ At(r, "cancelNow")
      /\ IF Live(s) THEN Becomes(s, [subs[s] EXCEPT !.status = "canceled"], <<"deleted">>)
                    ELSE UNCHANGED <<subs, events>>
      /\ Goto(r, "deleteUser", req[r])
      /\ UNCHANGED <<user, row, customers>>

DeleteUser(r) ==
  /\ At(r, "deleteUser")
  /\ user' = IF req[r].insync THEN "deletedInSync" ELSE "deleted"
  /\ Goto(r, "idle", IdleReq)
  /\ UNCHANGED row /\ UNCHANGED Stripe

-----------------------------------------------------------------------------
(* Administration.                                                          *)

\* Fault: the existing subscription is not looked at.
BeginGrantAlways(r, t) ==
  /\ user = "live"
  /\ Begin(r, "grant", "grant", [IdleReq EXCEPT !.tier = t])

\* POST /users/:id/grant-tier refuses a row that names a Stripe subscription.
BeginGrant(r, t) ==
  /\ user = "live" /\ (row # None => row.sub = None)
  /\ Begin(r, "grant", "grant", [IdleReq EXCEPT !.tier = t])

\* UPDATE when a row was seen, else INSERT, which fails on the primary key when
\* there is one by now.
Grant(r) ==
  /\ At(r, "grant")
  /\ row' = IF req[r].seen # None
              THEN [row EXCEPT !.status = "active", !.plan = "admin_grant", !.tier = req[r].tier]
              ELSE IF row # None THEN row
              ELSE [TrialRow EXCEPT !.status = "active", !.plan = "admin_grant",
                                    !.tier = req[r].tier, !.trial = FALSE]
  /\ Goto(r, "idle", IdleReq)
  /\ UNCHANGED user /\ UNCHANGED Stripe

\* POST /users/:id/revoke-grant, for a row whose plan is the grant.
BeginRevoke(r) ==
  /\ row # None /\ row.plan = "admin_grant"
  /\ Begin(r, "revoke", "revoke", IdleReq)

Revoke(r) ==
  /\ At(r, "revoke")
  /\ row' = [row EXCEPT !.status = IF req[r].seen.trial THEN "trialing" ELSE "canceled",
                        !.plan = "revoked", !.tier = "free"]
  /\ Goto(r, "idle", IdleReq)
  /\ UNCHANGED user /\ UNCHANGED Stripe

\* POST /users/extend-trial: one transaction, whatever the status was.
ExtendTrial ==
  /\ "extend" \in Ops /\ turn = None /\ user = "live"
  /\ row' = IF row = None THEN TrialRow ELSE [row EXCEPT !.status = "trialing", !.trial = TRUE]
  /\ UNCHANGED <<user, req, turn>> /\ UNCHANGED Stripe

-----------------------------------------------------------------------------
(* POST /webhook: one event, one UPDATE ... WHERE stripe_customer_id = ?.   *)

\* Fault: the column has no CHECK.
UpsertUnchecked(e) ==
  [row EXCEPT !.status = e.status, !.tier = e.tier, !.sub = e.sub, !.late = FALSE]

\* Fault: the id of the subscription is not stored.
UpsertKeepSub(e) == [row EXCEPT !.status = e.status, !.tier = e.tier, !.late = FALSE]

\* upsertSubscriptionFromStripe; a status outside the CHECK fails the UPDATE,
\* which the webhook logs and answers with 200.
Upsert(e) == IF e.status \in RowStatus
               THEN [row EXCEPT !.status = e.status, !.tier = e.tier, !.sub = e.sub,
                                !.late = FALSE]
               ELSE row

\* handleStripeEvent
Handled(e) ==
  CASE e.type \in {"created", "updated"} -> Upsert(e)
    [] e.type = "deleted" -> [row EXCEPT !.status = "canceled", !.late = FALSE]
    [] e.type = "paid"    -> [row EXCEPT !.status = "active", !.late = FALSE]
    [] e.type = "failed"  -> [row EXCEPT !.status = "past_due", !.late = FALSE]

\* Stripe delivers the oldest event, or any of them and perhaps once more.
Deliver(i, again) ==
  /\ turn = None
  /\ Delivery = "ordered" => i = 1 /\ ~again
  /\ row' = IF row # None /\ row.customer = events[i].customer THEN Handled(events[i]) ELSE row
  /\ events' = IF again THEN events ELSE RemoveAt(events, i)
  /\ UNCHANGED <<user, customers, subs, req, turn>>

-----------------------------------------------------------------------------
(* Stripe's own moves, the clock, and failures.                             *)

Moves(s, from, to, types) ==
  /\ subs[s].status \in from
  /\ Becomes(s, [subs[s] EXCEPT !.status = to], types)
  /\ UNCHANGED <<user, row, customers, req, turn>>

PaymentSucceeds(s) ==
  Moves(s, {"incomplete", "past_due", "unpaid"}, "active", <<"updated", "paid">>)

PaymentFails(s) == Moves(s, {"active"}, "past_due", <<"updated", "failed">>)

GivesUp(s) ==
  \/ Moves(s, {"past_due", "incomplete"}, "unpaid", <<"updated">>)
  \/ Moves(s, {"past_due"}, "canceled", <<"deleted">>)

PeriodEnds(s) ==
  /\ subs[s].ending
  /\ Moves(s, StripeStatus \ {"canceled"}, "canceled", <<"deleted">>)

TrialEnds ==
  /\ row # None /\ row.trial
  /\ row' = [row EXCEPT !.trial = FALSE]
  /\ UNCHANGED <<user, req, turn>> /\ UNCHANGED Stripe

\* A call to Stripe throws and has had no effect: 500, except that a deletion goes on.
CallFails(r) ==
  /\ "stripe" \in Faults
  /\ req[r].pc \in StripeCalls /\ turn = None
  /\ Goto(r, IF req[r].pc = "cancelNow" THEN "deleteUser" ELSE "idle", req[r])
  /\ UNCHANGED <<user, row>> /\ UNCHANGED Stripe

\* A call takes effect at Stripe and then throws: 500, and the row is not written.
\* (Where nothing follows the call, and for the deletion, which goes on all the
\* same, that is the action of the call itself.)
AnswerLost(r) ==
  /\ "stripe" \in Faults
  /\ \/ \E c \in Customer : AddCustomer(r, c)
     \/ \E s \in Sub, st \in {"active", "incomplete"} : AddSub(r, s, st, TRUE)
  /\ Goto(r, "idle", req[r])

Crash ==
  /\ "crash" \in Faults
  /\ \E r \in Request : ~Resting(r)
  /\ req' = [r \in Request |-> IdleReq]
  /\ turn' = None
  /\ UNCHANGED <<user, row>> /\ UNCHANGED Stripe

-----------------------------------------------------------------------------
FromTab(r) ==
  \/ BeginSetup(r)
  \/ \E t \in Tier : BeginSubscribe(r, t)
  \/ BeginEnding(r, "cancel", "setEnding")
  \/ BeginEnding(r, "reactivate", "unsetEnding")
  \/ BeginDelete(r)

FromAdmin(r) ==
  \/ \E t \in Tier : BeginGrant(r, t)
  \/ BeginRevoke(r)

Continue(r) ==
  \/ NewCustomer(r) \/ SaveCustomer(r)
  \/ ListSubs(r) \/ NewSub(r) \/ SaveSub(r)
  \/ SetEnding(r, "setEnding", TRUE) \/ SetEnding(r, "unsetEnding", FALSE)
  \/ CancelNow(r) \/ DeleteUser(r)
  \/ Grant(r) \/ Revoke(r)

StripeMoves(s) == PaymentSucceeds(s) \/ PaymentFails(s) \/ GivesUp(s) \/ PeriodEnds(s)

Webhook == \E i \in DOMAIN events, again \in BOOLEAN : Deliver(i, again)

Next ==
  \/ \E r \in Tab : FromTab(r)
  \/ \E r \in Admin : FromAdmin(r)
  \/ \E r \in Request : Continue(r) \/ CallFails(r) \/ AnswerLost(r)
  \/ ExtendTrial \/ TrialEnds \/ Crash
  \/ \E s \in DOMAIN subs : StripeMoves(s)
  \/ Webhook

Spec == Init /\ [][Next]_vars

\* The event loop drives started handlers; Stripe repeats an event that was not
\* answered, so it gets through though other handlers hold the loop now and then.
FairSpec == Spec /\ SF_vars(Webhook) /\ \A r \in Request : WF_vars(Continue(r))

-----------------------------------------------------------------------------
(* Properties.                                                             *)

\* No handler is under way and every event has been delivered.
Quiet == events = <<>> /\ \A r \in Request : Resting(r)

\* "Avoid creating a duplicate subscription" (stripeService.ts): whatever the
\* user does with one page, Stripe never bills two subscriptions.
OneLiveSubscription == Cardinality({s \in DOMAIN subs : Live(s)}) <= 1

\* Once Stripe has told everything the row names the subscription that is being
\* billed, also when the server died before it could write the row; and when every
\* subscription has ended the row is not "active" any more, so that
\* requireActiveSubscription closes the write routes -- unless a subscribe wrote
\* a status that was already out of date, which no event corrects, although "the
\* webhook customer.subscription.updated will reconcile state" (billing.ts).
RowTellsBilling ==
  Quiet =>
    /\ \A s \in DOMAIN subs : Live(s) => row.sub = s
    /\ row # None /\ row.sub # None /\ row.plan # "admin_grant" /\ ~row.late =>
         ((\A s \in DOMAIN subs : ~Live(s)) => row.status # "active")

\* An account deleted while no event was under way is not billed any more:
\* DELETE /account cancels what the row names.
DeletedInSyncIsNotBilled ==
  user = "deletedInSync" => \A s \in DOMAIN subs : ~Live(s)

\* A subscription that is being paid gives a paid tier: revoking a grant does
\* not take it away, whatever the order of grant, subscribe, webhook and revoke --
\* unless the server never heard that the subscription was created.
PaidHasTier ==
  Quiet /\ row # None /\ row.sub # None =>
    (Live(row.sub) /\ row.tier = "free" => subs[row.sub].lost /\ row.plan = "revoked")

\* A user whose tier was granted by an administrator is not billed by Stripe
\* ("Refuses if the user already has an active Stripe sub", admin.ts), except for
\* a subscription of whose creation the server never heard.
GrantedIsNotBilled ==
  Quiet /\ row # None /\ row.plan = "admin_grant" =>
    \A s \in DOMAIN subs : Live(s) => subs[s].lost

\* Every subscription that stays alive is eventually known to the row, also
\* after a crash between Stripe's answer and the write.
SubscriptionIsLearnt ==
  \A s \in Sub : (Live(s) ~> (~Live(s) \/ row.sub = s))
=============================================================================
