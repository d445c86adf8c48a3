------------------------------- MODULE AiQuota -------------------------------
(***************************************************************************)
(* The quota of AI suggestions of one user.                                *)
(*                                                                         *)
(*   server/src/routes/transactions.ts           POST /:id/ai-suggest      *)
(*   server/src/services/tierService.ts          getAiQuota                *)
(*   server/src/repos/impl/AiUsageRepoImpl.ts    the ai_usage table        *)
(*                                                                         *)
(* The handler reads the subscription, then the count, then waits for the  *)
(* language model, and counts the call when the answer has come.  Every    *)
(* statement is an interleaving point here, which covers both databases.   *)
(***************************************************************************)
EXTENDS Integers, FiniteSets

CONSTANTS
  Request,    \* calls that may be under way at the same time
  Limit,      \* FREE_TIER_AI_LIFETIME_LIMIT
  Daily,      \* AI_DAILY_LIMIT; 0 is no limit
  MaxDay      \* bound: how often midnight passes

ASSUME QuotaAssumption ==
  /\ IsFiniteSet(Request)
  /\ Limit \in Nat \ {0} /\ Daily \in Nat /\ MaxDay \in Nat

VARIABLES
  tier,       \* tier of the subscription; "paid" is business or org
  day,        \* the UTC day
  lifetime,   \* SUM(count) of the user's ai_usage rows
  used,       \* count of today's row, 0 if there is none
  req,        \* request -> where its handler stands and the quota it has read
  free,       \* history: answers given under the lifetime quota
  paid        \* history: answers given today under the daily quota

vars == <<tier, day, lifetime, used, req, free, paid>>

-----------------------------------------------------------------------------
Kind == {"lifetime", "daily", "unlimited"}

Idle == [pc |-> "idle", kind |-> "unlimited"]

TypeOK ==
  /\ tier \in {"free", "paid"}
  /\ day \in 0 .. MaxDay
  /\ lifetime \in Nat /\ used \in Nat /\ free \in Nat /\ paid \in Nat
  /\ req \in [Request -> [pc : {"idle", "count", "llm"}, kind : Kind]]

Init ==
  /\ tier \in {"free", "paid"}
  /\ day = 0
  /\ lifetime = 0 /\ used = 0 /\ free = 0 /\ paid = 0
  /\ req = [r \in Request |-> Idle]

\* Calls of one kind that wait for the language model.
Waiting(kind) == {r \in Request : req[r].pc = "llm" /\ req[r].kind = kind}

-----------------------------------------------------------------------------
\* getAiQuota in SaaS mode
QuotaOf(t) == IF t = "free" THEN "lifetime" ELSE IF Daily = 0 THEN "unlimited" ELSE "daily"

\* The subscription is read and the quota resolved.
ReadQuota(r) ==
  LET kind == QuotaOf(tier)
  IN  /\ req[r].pc = "idle"
      /\ req' = [req EXCEPT ![r] = [pc |-> IF kind = "unlimited" THEN "llm" ELSE "count", kind |-> kind]]
      /\ UNCHANGED <<tier, day, lifetime, used, free, paid>>

\* Fault: one call too many.
RoomToTheLimit(kind) == IF kind = "lifetime" THEN lifetime <= Limit ELSE used <= Daily

Room(kind) == IF kind = "lifetime" THEN lifetime < Limit ELSE used < Daily

\* The count is read: the model is asked, or the answer is 429.
CheckCount(r) ==
  /\ req[r].pc = "count"
  /\ req' = [req EXCEPT ![r] = IF Room(req[r].kind) THEN [pc |-> "llm", kind |-> req[r].kind] ELSE Idle]
  /\ UNCHANGED <<tier, day, lifetime, used, free, paid>>

\* The model has answered: incrementToday, for the day it is by now.
Answer(r) ==
  LET kind  == req[r].kind
      count == IF kind = "unlimited" THEN 0 ELSE 1
  IN  /\ req[r].pc = "llm"
      /\ lifetime' = lifetime + count
      /\ used' = used + count
      /\ free' = IF kind = "lifetime" THEN free + 1 ELSE free
      /\ paid' = IF kind = "daily" THEN paid + 1 ELSE paid
      /\ req' = [req EXCEPT ![r] = Idle]
      /\ UNCHANGED <<tier, day>>

\* Fault: a failed call is taken off the count.
FailRefunds(r) ==
  /\ req[r].pc = "llm"
  /\ lifetime' = lifetime - 1 /\ used' = used - 1
  /\ req' = [req EXCEPT ![r] = Idle]
  /\ UNCHANGED <<tier, day, free, paid>>

\* The model fails, or the server dies meanwhile: the call is not counted.
Fail(r) ==
  /\ req[r].pc = "llm"
  /\ req' = [req EXCEPT ![r] = Idle]
  /\ UNCHANGED <<tier, day, lifetime, used, free, paid>>

\* Billing changes the tier.
ChangeTier ==
  /\ tier' \in {"free", "paid"} \ {tier}
  /\ UNCHANGED <<day, lifetime, used, req, free, paid>>

\* todayUtc() changes: a new row.
Midnight ==
  /\ day < MaxDay
  /\ day' = day + 1
  /\ used' = 0 /\ paid' = 0
  /\ UNCHANGED <<tier, lifetime, req, free>>

Next ==
  \/ \E r \in Request : ReadQuota(r) \/ CheckCount(r) \/ Answer(r) \/ Fail(r)
  \/ ChangeTier \/ Midnight

Spec == Init /\ [][Next]_vars

-----------------------------------------------------------------------------
(* Properties.  Count and increment are apart, so the limits can be passed: *)
(* by how much is what the code guarantees.                                 *)

\* Under the lifetime quota a user gets at most one answer beyond the limit for
\* every other call that was under way, through any change of the tier.
FreeOvershootBounded == free <= Limit - 1 + Cardinality(Request)

\* The same for the daily quota, calls that midnight overtakes included.
DailyOvershootBounded == Daily > 0 => paid <= Daily - 1 + Cardinality(Request)

\* No quota is passed by more than the calls that were under way.
OvershootBounded == FreeOvershootBounded /\ DailyOvershootBounded
=============================================================================
