----------------------------- MODULE LedgerProofs -----------------------------
(***************************************************************************)
(* Proofs about Ledger, for every value of its constants: types and        *)
(* references on either backend, then, on SQLite, the atomic import that   *)
(* the handlers implement, the coherent hashes and what the user chose.    *)
(***************************************************************************)
EXTENDS Ledger, TLAPS

(* The arguments and locals that a handler relies on at each program counter. *)
Shape(q) ==
  /\ q.pc \in {"statement", "create", "dedup", "insert", "period", "load", "pending",
               "history", "suggest", "setSuggested"} => q.op \in {"import", "resolve"}
  /\ q.pc \in {"next", "write", "attribute"} => q.op \in {"import", "resolve", "apply"}
  /\ q.pc = "applyLoad" => q.op = "apply"
  /\ q.op \in {"import", "resolve"} => q.account \in Account /\ q.period \in Period
  /\ q.pc \in {"write", "attribute", "history", "suggest", "setSuggested", "patch", "approve"}
       => q.cur \in Snapshot
  /\ (q.pc \in {"write", "attribute", "applyLoad"} \/ (q.op = "apply" /\ q.pc = "next"))
       => q.pick \in Pick /\ q.pick.rule \in Rule
  /\ q.pc \in {"suggest", "setSuggested"} => q.pick \in Pick
  /\ q.pc = "patch" => q.form \in Form
  /\ q.pc = "approve" => q.cur.sugg \in Category

TypeInv == TypeOK /\ \A r \in Request : Shape(req[r])

-----------------------------------------------------------------------------
(* Batches, rows and requests keep their types.                            *)

LEMMA BatchDef ==
  ASSUME NEW b
  PROVE  b \in Batch <=> (DOMAIN b \subseteq Line /\ b \in [DOMAIN b -> Data])
<1>1. ASSUME b \in Batch PROVE DOMAIN b \subseteq Line /\ b \in [DOMAIN b -> Data]
  <2>1. PICK L \in SUBSET Line : b \in [L -> Data]
    BY <1>1 DEF Batch
  <2> QED BY <2>1
<1>2. ASSUME DOMAIN b \subseteq Line, b \in [DOMAIN b -> Data] PROVE b \in Batch
  <2>1. DOMAIN b \in SUBSET Line
    BY <1>2
  <2> QED BY <1>2, <2>1 DEF Batch
<1> QED BY <1>1, <1>2

LEMMA RestrictedBatch ==
  ASSUME NEW b \in Batch, NEW S
  PROVE  Restricted(b, S) \in Batch
<1>1. DOMAIN b \subseteq Line /\ b \in [DOMAIN b -> Data]
  BY BatchDef
<1>2. DOMAIN Restricted(b, S) = DOMAIN b \cap S
  BY DEF Restricted
<1>3. Restricted(b, S) \in [DOMAIN b \cap S -> Data]
  BY <1>1 DEF Restricted
<1> QED BY <1>1, <1>2, <1>3, BatchDef

LEMMA NoRowsBatch == NoRows \in Batch
<1>1. DOMAIN NoRows = {} /\ NoRows \in [{} -> Data]
  BY DEF NoRows
<1> QED BY <1>1, BatchDef

LEMMA IdleReqOK == IdleReq \in ReqState /\ Shape(IdleReq)
BY NoRowsBatch DEF IdleReq, ReqState, PC, Resting, Shape

LEMMA AnsweredOK ==
  ASSUME NEW q \in ReqState, Shape(q), NEW to \in Resting
  PROVE  Answered(q, to) \in ReqState /\ Shape(Answered(q, to))
<1> DEFINE h == IF to = "done" THEN q.held ELSE NoRows
<1>1. h \in Batch
  BY NoRowsBatch DEF ReqState
<1>2. Answered(q, to) = [IdleReq EXCEPT !.pc = to, !.op = q.op, !.account = q.account,
                                       !.period = q.period, !.held = h]
  BY DEF Answered
<1> HIDE DEF h
<1>3. Answered(q, to) \in ReqState
  BY <1>1, <1>2, IdleReqOK DEF ReqState, PC, Resting
<1>4. Shape(Answered(q, to))
  BY <1>2, IdleReqOK DEF ReqState, PC, Resting, Shape
<1> QED BY <1>3, <1>4

LEMMA SnapshotOK ==
  ASSUME TypeOK, NEW i \in DOMAIN txs
  PROVE  SnapshotOf(i) \in Snapshot
BY DEF TypeOK, SnapshotOf, Snapshot, Row

(* One handler moves: the other requests keep their state. *)
LEMMA OneMoves ==
  ASSUME TypeInv, NEW r \in Request, NEW q \in ReqState, Shape(q),
         req' = [req EXCEPT ![r] = q], NEW to, Leave(r, to)
  PROVE  /\ req' \in [Request -> ReqState]
         /\ \A s \in Request : Shape(req'[s])
         /\ turn' \in Request \cup {None}
BY DEF TypeInv, TypeOK, Leave

LEMMA ReqOK ==
  ASSUME TypeInv, NEW r \in Request
  PROVE  req[r] \in ReqState /\ Shape(req[r])
BY DEF TypeInv, TypeOK

(* Goto, to the next statement or to the answer. *)
LEMMA GotoOK ==
  ASSUME TypeInv, NEW r \in Request, NEW to \in PC, Goto(r, to),
         to \in Resting \/ Shape([req[r] EXCEPT !.pc = to])
  PROVE  /\ req' \in [Request -> ReqState]
         /\ \A s \in Request : Shape(req'[s])
         /\ turn' \in Request \cup {None}
<1> DEFINE q == IF to \in Resting THEN Answered(req[r], to) ELSE [req[r] EXCEPT !.pc = to]
<1>1. req' = [req EXCEPT ![r] = q] /\ Leave(r, to)
  BY DEF Goto, TypeInv, TypeOK
<1>2. q \in ReqState /\ Shape(q)
  <2>1. CASE to \in Resting
    BY <2>1, ReqOK, AnsweredOK
  <2>2. CASE to \notin Resting
    <3>1. [req[r] EXCEPT !.pc = to] \in ReqState
      BY ReqOK DEF ReqState
    <3> QED BY <2>2, <3>1
  <2> QED BY <2>1, <2>2
<1> HIDE DEF q
<1> QED BY <1>1, <1>2, OneMoves

(* Begin, with well-typed arguments. *)
LEMMA BeginOK ==
  ASSUME TypeInv, NEW r \in Request, NEW op \in {"import", "resolve", "apply", "patch", "approve"},
         NEW to \in PC, NEW locals \in ReqState,
         Begin(r, op, to, locals), Shape([locals EXCEPT !.op = op, !.pc = to])
  PROVE  TypeInv'
<1> DEFINE q == [locals EXCEPT !.op = op, !.pc = to]
           p == IF to \in Resting THEN Answered(q, to) ELSE q
<1>1. q \in ReqState
  BY DEF ReqState
<1>2. p \in ReqState /\ Shape(p)
  BY <1>1, AnsweredOK
<1>3. req' = [req EXCEPT ![r] = p] /\ Leave(r, to) /\ UNCHANGED Tables
  BY DEF Begin
<1> HIDE DEF q, p
<1>4. /\ req' \in [Request -> ReqState]
      /\ \A s \in Request : Shape(req'[s])
      /\ turn' \in Request \cup {None}
  BY <1>2, <1>3, OneMoves
<1> QED BY <1>3, <1>4 DEF TypeInv, TypeOK, Tables

(* The fields that categorization writes, and those that an edit writes. *)
LEMMA RowOK ==
  ASSUME NEW row \in Row, NEW c \in Category \cup {None}, NEW s \in Source
  PROVE  [row EXCEPT !.cat = c, !.src = s] \in Row
<1>1. [row EXCEPT !.cat = c] \in Row
  BY DEF Row
<1> DEFINE mid == [row EXCEPT !.cat = c]
<1>2. [mid EXCEPT !.src = s] \in Row
  <2> HIDE DEF mid
  <2> QED BY <1>1 DEF Row, mid
<1> QED BY <1>2

LEMMA RowTaxOK ==
  ASSUME NEW row \in Row, NEW c \in Category \cup {None}, NEW s \in Source,
         NEW t \in {"user", "rule", None}
  PROVE  [row EXCEPT !.cat = c, !.src = s, !.tax = t] \in Row
<1> DEFINE mid == [row EXCEPT !.cat = c, !.src = s]
<1>1. mid \in Row
  BY RowOK
<1>2. [mid EXCEPT !.tax = t] \in Row
  <2> HIDE DEF mid
  <2> QED BY <1>1 DEF Row
<1> QED BY <1>2

LEMMA RowHashOK ==
  ASSUME NEW row \in Row, NEW d \in Desc, NEW m \in Amount, NEW h \in Hash, NEW e \in BOOLEAN
  PROVE  [row EXCEPT !.desc = d, !.amount = m, !.hash = h, !.edited = e] \in Row
<1> DEFINE mid == [row EXCEPT !.desc = d, !.amount = m]
<1>1. mid \in Row
  BY DEF Row
<1>2. [mid EXCEPT !.hash = h, !.edited = e] \in Row
  <2> HIDE DEF mid
  <2> QED BY <1>1 DEF Row
<1> QED BY <1>2

(* UPDATE of one row with a row of the right type. *)
LEMMA UpdateOK ==
  ASSUME TypeOK, NEW i, NEW row, i \in DOMAIN txs => row \in Row, Update(i, row)
  PROVE  DOMAIN txs' = DOMAIN txs /\ txs' \in [DOMAIN txs' -> Row]
BY DEF TypeOK, Update

-----------------------------------------------------------------------------
(* Every handler step keeps TypeInv.                                       *)

LEMMA ArriveType ==
  ASSUME TypeInv, NEW r \in Request, Arrive(r)
  PROVE  TypeInv'
<1> USE LedgerAssumption
<1>1. ASSUME NEW a \in Account, NEW p \in Period, NEW f \in Files,
             NEW parser \in {"template", "other"}, BeginImport(r, a, p, f, parser)
      PROVE  TypeInv'
  <2> DEFINE flip == accounts[a].kind = "credit_card" /\ parser = "template"
             amount(l) == IF flip THEN -f[l].amount ELSE f[l].amount
             rows == [l \in DOMAIN f |-> [desc |-> f[l].desc, amount |-> amount(l),
                                           hash |-> HashOf(a, f[l].desc, amount(l))]]
             locals == [IdleReq EXCEPT !.account = a, !.period = p, !.last = accounts[a].last,
                                       !.rows = rows]
             to == IF accounts[a].live THEN "statement" ELSE "failed"
  <2>1. rows \in Batch
    <3>1. DOMAIN f \subseteq Line /\ f \in [DOMAIN f -> [desc : Desc, amount : Amount]]
      OBVIOUS
    <3>2. \A l \in DOMAIN f : amount(l) \in Amount
      BY <3>1
    <3> HIDE DEF amount
    <3>3. \A l \in DOMAIN f : rows[l] \in Data
      BY <3>1, <3>2 DEF Data, Hash
    <3> QED BY <3>1, <3>3, BatchDef
  <2>2. Begin(r, "import", to, locals)
    BY <1>1 DEF BeginImport
  <2> HIDE DEF rows
  <2>3. accounts[a].last \in Period \cup {0}
    BY DEF TypeInv, TypeOK
  <2>4. locals \in ReqState
    BY <2>1, <2>3, IdleReqOK DEF ReqState
  <2>5. Shape([locals EXCEPT !.op = "import", !.pc = to])
    BY IdleReqOK DEF Shape, ReqState
  <2>6. to \in PC
    BY DEF PC, Resting
  <2> HIDE DEF locals, to
  <2> QED BY <2>2, <2>4, <2>5, <2>6, BeginOK
<1>2. ASSUME NEW q \in Request, NEW keep \in SUBSET DOMAIN req[q].held, BeginResolve(r, q, keep)
      PROVE  TypeInv'
  <2> DEFINE rows == Restricted(req[q].held, keep)
             locals == [IdleReq EXCEPT !.account = req[q].account, !.period = req[q].period,
                                       !.rows = rows]
             to == IF <<req[q].account, req[q].period>> \in statements THEN "insert" ELSE "failed"
  <2>1. req[q] \in ReqState /\ Shape(req[q]) /\ req[q].op = "import"
    BY <1>2, ReqOK DEF BeginResolve
  <2>2. req[q].account \in Account /\ req[q].period \in Period
    BY <2>1 DEF Shape
  <2>3. rows \in Batch
    BY <2>1, RestrictedBatch DEF ReqState
  <2>4. Begin(r, "resolve", to, locals)
    BY <1>2 DEF BeginResolve
  <2> HIDE DEF rows
  <2>5. locals \in ReqState
    BY <2>2, <2>3, IdleReqOK DEF ReqState
  <2>6. Shape([locals EXCEPT !.op = "resolve", !.pc = to])
    BY <2>2, IdleReqOK DEF Shape, ReqState
  <2>7. to \in PC
    BY DEF PC, Resting
  <2> HIDE DEF locals, to
  <2> QED BY <2>4, <2>5, <2>6, <2>7, BeginOK
<1>3. ASSUME NEW u \in Rule, BeginApply(r, u)
      PROVE  TypeInv'
  <2> DEFINE pick == IF RuleLive(u) THEN PickOf(u) ELSE None
             locals == [IdleReq EXCEPT !.pick = pick]
             to == IF RuleLive(u) THEN "applyLoad" ELSE "failed"
  <2>1. pick \in Pick \cup {None} /\ (RuleLive(u) => pick \in Pick /\ pick.rule \in Rule)
    BY DEF TypeInv, TypeOK, RuleLive, PickOf, Pick, RuleRow
  <2>2. Begin(r, "apply", to, locals)
    BY <1>3 DEF BeginApply
  <2> HIDE DEF pick
  <2>3. locals \in ReqState
    BY <2>1, IdleReqOK DEF ReqState
  <2>4. Shape([locals EXCEPT !.op = "apply", !.pc = to])
    BY <2>1, IdleReqOK DEF Shape, ReqState
  <2>5. to \in PC
    BY DEF PC, Resting
  <2> HIDE DEF locals, to
  <2> QED BY <2>2, <2>3, <2>4, <2>5, BeginOK
<1>4. ASSUME NEW i \in DOMAIN txs, NEW form \in Forms, BeginPatch(r, i, form)
      PROVE  TypeInv'
  <2> DEFINE cur == IF i \in DOMAIN txs THEN SnapshotOf(i) ELSE None
             locals == [IdleReq EXCEPT !.cur = cur, !.form = form]
             to == IF i \in DOMAIN txs THEN "patch" ELSE "failed"
  <2>1. cur \in Snapshot /\ form \in Form
    BY SnapshotOK DEF TypeInv
  <2>2. Begin(r, "patch", to, locals)
    BY <1>4 DEF BeginPatch
  <2> HIDE DEF cur
  <2>3. locals \in ReqState
    BY <2>1, IdleReqOK DEF ReqState
  <2>4. Shape([locals EXCEPT !.op = "patch", !.pc = to])
    BY <2>1, IdleReqOK DEF Shape, ReqState
  <2>5. to \in PC
    BY DEF PC, Resting
  <2> HIDE DEF locals, to
  <2> QED BY <2>2, <2>3, <2>4, <2>5, BeginOK
<1>5. ASSUME NEW i \in DOMAIN txs, BeginApprove(r, i)
      PROVE  TypeInv'
  <2> DEFINE open == i \in DOMAIN txs /\ txs[i].src = "suggested" /\ txs[i].sugg # None
             cur == IF open THEN SnapshotOf(i) ELSE None
             locals == [IdleReq EXCEPT !.cur = cur]
             to == IF open THEN "approve" ELSE "failed"
  <2>1. cur \in Snapshot \cup {None} /\ (open => cur \in Snapshot /\ cur.sugg \in Category)
    BY SnapshotOK DEF TypeInv, SnapshotOf, TypeOK, Row
  <2>2. Begin(r, "approve", to, locals)
    BY <1>5 DEF BeginApprove
  <2> HIDE DEF cur, open
  <2>3. locals \in ReqState
    BY <2>1, IdleReqOK DEF ReqState
  <2>4. Shape([locals EXCEPT !.op = "approve", !.pc = to])
    BY <2>1, IdleReqOK DEF Shape, ReqState
  <2>5. to \in PC
    BY DEF PC, Resting
  <2> HIDE DEF locals, to
  <2> QED BY <2>2, <2>3, <2>4, <2>5, BeginOK
<1> QED BY <1>1, <1>2, <1>3, <1>4, <1>5 DEF Arrive

(* Steps that change no row: only the handler moves on. *)
LEMMA QuietType ==
  ASSUME TypeInv, NEW r \in Request, NEW q \in ReqState, Shape(q),
         req' = [req EXCEPT ![r] = q], NEW to, Leave(r, to), UNCHANGED Tables
  PROVE  TypeInv'
<1>1. /\ req' \in [Request -> ReqState]
      /\ \A s \in Request : Shape(req'[s])
      /\ turn' \in Request \cup {None}
  BY OneMoves
<1> QED BY <1>1 DEF TypeInv, TypeOK, Tables

LEMMA QuietGotoType ==
  ASSUME TypeInv, NEW r \in Request, NEW to \in PC, Goto(r, to), UNCHANGED Tables,
         to \in Resting \/ Shape([req[r] EXCEPT !.pc = to])
  PROVE  TypeInv'
<1>1. /\ req' \in [Request -> ReqState]
      /\ \A s \in Request : Shape(req'[s])
      /\ turn' \in Request \cup {None}
  BY GotoOK
<1> QED BY <1>1 DEF TypeInv, TypeOK, Tables

(* A handler that changes one row of txs and moves on. *)
LEMMA RowGotoType ==
  ASSUME TypeInv, NEW r \in Request, NEW to \in PC, Goto(r, to),
         to \in Resting \/ Shape([req[r] EXCEPT !.pc = to]),
         NEW i, NEW row, i \in DOMAIN txs => row \in Row,
         Update(i, row) \/ UNCHANGED txs,
         UNCHANGED <<accounts, statements, categories, rules>>
  PROVE  TypeInv'
<1>1. /\ req' \in [Request -> ReqState]
      /\ \A s \in Request : Shape(req'[s])
      /\ turn' \in Request \cup {None}
  BY GotoOK
<1>2. DOMAIN txs' = DOMAIN txs /\ txs' \in [DOMAIN txs' -> Row]
  BY UpdateOK DEF TypeInv, TypeOK
<1> QED BY <1>1, <1>2 DEF TypeInv, TypeOK

LEMMA ImportType ==
  ASSUME TypeInv, NEW r \in Request,
         \/ FindStatement(r) \/ CreateStatement(r) \/ FindExistingHashes(r) \/ BulkCreate(r)
         \/ UpdateLastPeriod(r) \/ LoadStatement(r) \/ ReviewPending(r)
  PROVE  TypeInv'
<1> DEFINE a == req[r].account
           p == req[r].period
<1>0. req[r] \in ReqState /\ Shape(req[r])
  BY ReqOK
<1>1. CASE FindStatement(r)
  <2> DEFINE to == IF <<a, p>> \in statements THEN "dedup" ELSE "create"
  <2>1. Goto(r, to) /\ UNCHANGED Tables /\ req[r].pc = "statement"
    BY <1>1 DEF FindStatement, At
  <2>2. to \in PC /\ Shape([req[r] EXCEPT !.pc = to])
    BY <1>0, <2>1 DEF Shape, ReqState, PC
  <2> HIDE DEF to
  <2> QED BY <2>1, <2>2, QuietGotoType
<1>2. CASE CreateStatement(r)
  <2> DEFINE ok == <<a, p>> \notin statements /\ accounts[a].live
             to == IF ok THEN "dedup" ELSE "failed"
  <2>1. /\ Goto(r, to) /\ req[r].pc = "create"
        /\ statements' = IF ok THEN statements \cup {<<a, p>>} ELSE statements
        /\ UNCHANGED <<accounts, txs, categories, rules>>
    BY <1>2 DEF CreateStatement, At
  <2>2. a \in Account /\ p \in Period
    BY <1>0, <2>1 DEF Shape
  <2>3. to \in PC /\ (to \in Resting \/ Shape([req[r] EXCEPT !.pc = to]))
    BY <1>0, <2>1 DEF Shape, ReqState, PC, Resting
  <2> HIDE DEF to, ok
  <2>4. /\ req' \in [Request -> ReqState]
        /\ \A s \in Request : Shape(req'[s])
        /\ turn' \in Request \cup {None}
    BY <2>1, <2>3, GotoOK
  <2>5. statements' \in SUBSET (Account \X Period)
    BY <2>1, <2>2 DEF TypeInv, TypeOK
  <2> QED BY <2>1, <2>4, <2>5 DEF TypeInv, TypeOK
<1>3. CASE FindExistingHashes(r)
  <2> DEFINE rows  == req[r].rows
             known == {l \in DOMAIN rows : rows[l].hash \in HashesOf(a)}
             first == {l \in known : \A k \in known : rows[k].hash = rows[l].hash => l <= k}
             new   == Restricted(rows, DOMAIN rows \ known)
             held  == Restricted(rows, first)
             q == [req[r] EXCEPT !.pc = "insert", !.rows = new, !.held = held]
  <2>1. /\ req[r].pc = "dedup"
        /\ req' = [req EXCEPT ![r].pc = "insert", ![r].rows = new, ![r].held = held]
        /\ Leave(r, "insert") /\ UNCHANGED Tables
    BY <1>3 DEF FindExistingHashes, At
  <2>2. new \in Batch /\ held \in Batch
    BY <1>0, RestrictedBatch DEF ReqState
  <2> HIDE DEF new, held
  <2>3. q \in ReqState
    BY <1>0, <2>2 DEF ReqState, PC
  <2>4. /\ q.op = req[r].op /\ q.pc = "insert" /\ q.rows = new /\ q.held = held
        /\ q.account = req[r].account /\ q.period = req[r].period
    BY <1>0 DEF ReqState
  <2>5. Shape(q)
    BY <1>0, <2>1, <2>4 DEF Shape
  <2>6. req' = [req EXCEPT ![r] = q]
    BY <1>0, <2>1 DEF TypeInv, TypeOK
  <2> HIDE DEF q
  <2> QED BY <2>1, <2>3, <2>5, <2>6, QuietType
<1>4. CASE BulkCreate(r)
  <2> DEFINE ok  == DOMAIN req[r].rows = {} \/ <<a, p>> \in statements
             new == [i \in {<<r, l>> : l \in DOMAIN req[r].rows} |->
                       NewRow(a, p, req[r].rows[i[2]], req[r].op)]
             to  == IF ~ok THEN "failed" ELSE IF req[r].op = "import" THEN "period" ELSE "load"
  <2>1. /\ Goto(r, to) /\ req[r].pc = "insert"
        /\ txs' = IF ok THEN Extend(txs, new) ELSE txs
        /\ UNCHANGED <<accounts, statements, categories, rules>>
    BY <1>4 DEF BulkCreate, At
  <2>2. a \in Account /\ p \in Period /\ req[r].op \in {"import", "resolve"}
    BY <1>0, <2>1 DEF Shape
  <2>3. DOMAIN new \subseteq TxId /\ new \in [DOMAIN new -> Row]
    <3>1. DOMAIN req[r].rows \subseteq Line /\ req[r].rows \in [DOMAIN req[r].rows -> Data]
      BY <1>0, BatchDef DEF ReqState
    <3>2. DOMAIN new \subseteq TxId
      BY <3>1 DEF TxId
    <3>3. ASSUME NEW l \in DOMAIN req[r].rows
          PROVE  NewRow(a, p, req[r].rows[l], req[r].op) \in Row
      BY <2>2, <3>1 DEF NewRow, Row, Data, Source
    <3> QED BY <3>2, <3>3
  <2>4. to \in PC /\ (to \in Resting \/ Shape([req[r] EXCEPT !.pc = to]))
    BY <1>0, <2>1, <2>2 DEF Shape, ReqState, PC, Resting
  <2> HIDE DEF to, ok, new
  <2>5. /\ req' \in [Request -> ReqState]
        /\ \A s \in Request : Shape(req'[s])
        /\ turn' \in Request \cup {None}
    BY <2>1, <2>4, GotoOK
  <2>6. DOMAIN txs' \in SUBSET TxId /\ txs' \in [DOMAIN txs' -> Row]
    BY <2>1, <2>3 DEF Extend, TypeInv, TypeOK
  <2> QED BY <2>1, <2>5, <2>6 DEF TypeInv, TypeOK
<1>5. CASE UpdateLastPeriod(r)
  <2>1. /\ Goto(r, "load") /\ req[r].pc = "period"
        /\ accounts' = IF accounts[a].live /\ p > req[r].last
                       THEN [accounts EXCEPT ![a].last = p] ELSE accounts
        /\ UNCHANGED <<statements, txs, categories, rules>>
    BY <1>5 DEF UpdateLastPeriod, At
  <2>2. a \in Account /\ p \in Period
    BY <1>0, <2>1 DEF Shape
  <2>3. Shape([req[r] EXCEPT !.pc = "load"])
    BY <1>0, <2>1 DEF Shape, ReqState, PC
  <2>4. /\ req' \in [Request -> ReqState]
        /\ \A s \in Request : Shape(req'[s])
        /\ turn' \in Request \cup {None}
    BY <2>1, <2>3, GotoOK DEF PC
  <2>5. accounts' \in [Account -> [live : BOOLEAN, kind : {"bank", "credit_card"},
                                   last : Period \cup {0}]]
    BY <2>1, <2>2 DEF TypeInv, TypeOK
  <2> QED BY <2>1, <2>4, <2>5 DEF TypeInv, TypeOK
<1>6. CASE LoadStatement(r)
  <2>1. PICK todo \in SUBSET Snapshot :
          /\ req[r].pc = "load"
          /\ req' = [req EXCEPT ![r].pc = "next", ![r].todo = todo]
          /\ Leave(r, "next") /\ UNCHANGED Tables
    BY <1>6, SnapshotOK DEF LoadStatement, At, TypeInv
  <2> DEFINE q == [req[r] EXCEPT !.pc = "next", !.todo = todo]
  <2>2. q \in ReqState /\ Shape(q)
    BY <1>0, <2>1 DEF Shape, ReqState, PC
  <2>3. req' = [req EXCEPT ![r] = q]
    BY <1>0, <2>1 DEF TypeInv, TypeOK
  <2> HIDE DEF q
  <2> QED BY <2>1, <2>2, <2>3, QuietType
<1>7. CASE ReviewPending(r)
  <2> DEFINE found == {l \in DOMAIN req[r].held :
                         \E i \in DOMAIN txs : txs[i].hash = req[r].held[l].hash}
             held == Restricted(req[r].held, found)
             q == [req[r] EXCEPT !.held = held]
  <2>1. /\ req' = [req EXCEPT ![r] = Answered(q, "done")]
        /\ Leave(r, "done") /\ UNCHANGED Tables
    BY <1>7 DEF ReviewPending
  <2>2. held \in Batch
    BY <1>0, RestrictedBatch DEF ReqState
  <2> HIDE DEF held
  <2>3. q \in ReqState /\ Shape(q)
    BY <1>0, <2>2 DEF Shape, ReqState
  <2> HIDE DEF q
  <2>4. Answered(q, "done") \in ReqState /\ Shape(Answered(q, "done"))
    BY <2>3, AnsweredOK DEF Resting
  <2> QED BY <2>1, <2>4, QuietType
<1> QED BY <1>1, <1>2, <1>3, <1>4, <1>5, <1>6, <1>7

LEMMA CategorizeType ==
  ASSUME TypeInv, NEW r \in Request,
         \/ FindRule(r) \/ WriteRule(r) \/ SetRuleId(r) \/ SuggestFromHistory(r)
         \/ WriteSuggestion(r) \/ SetSuggested(r) \/ FinishRows(r)
         \/ LoadCandidates(r) \/ NextCandidate(r)
  PROVE  TypeInv'
<1> DEFINE i == req[r].cur.id
           k == req[r].pick
<1>0. req[r] \in ReqState /\ Shape(req[r])
  BY ReqOK
<1>1. CASE FindRule(r)
  <2>0. req[r].pc = "next" /\ req[r].op \in {"import", "resolve"} /\ UNCHANGED Tables
    BY <1>0, <1>1 DEF FindRule, At, Shape
  <2>1. ASSUME NEW s \in req[r].todo, NEW u \in FirstRule(s),
               req' = [req EXCEPT ![r].pc = "write", ![r].todo = @ \ {s},
                                  ![r].cur = s, ![r].pick = PickOf(u)],
               Leave(r, "write")
        PROVE  TypeInv'
    <3> DEFINE q == [req[r] EXCEPT !.pc = "write", !.todo = @ \ {s}, !.cur = s, !.pick = PickOf(u)]
    <3>1. s \in Snapshot
      BY <1>0 DEF ReqState
    <3>2. PickOf(u) \in Pick /\ PickOf(u).rule \in Rule
      BY DEF FirstRule, Applies, RuleLive, PickOf, Pick, RuleRow, TypeInv, TypeOK
    <3>3. q \in ReqState /\ Shape(q)
      BY <1>0, <2>0, <3>1, <3>2 DEF Shape, ReqState, PC
    <3>4. req' = [req EXCEPT ![r] = q]
      BY <2>1 DEF TypeInv, TypeOK
    <3> HIDE DEF q
    <3> QED BY <2>0, <2>1, <3>3, <3>4, QuietType
  <2>2. ASSUME NEW s \in req[r].todo,
               req' = [req EXCEPT ![r].pc = "history", ![r].todo = @ \ {s}, ![r].cur = s],
               Leave(r, "history")
        PROVE  TypeInv'
    <3> DEFINE q == [req[r] EXCEPT !.pc = "history", !.todo = @ \ {s}, !.cur = s]
    <3>1. s \in Snapshot
      BY <1>0 DEF ReqState
    <3>2. q \in ReqState /\ Shape(q)
      BY <1>0, <2>0, <3>1 DEF Shape, ReqState, PC
    <3>3. req' = [req EXCEPT ![r] = q]
      BY <2>2 DEF TypeInv, TypeOK
    <3> HIDE DEF q
    <3> QED BY <2>0, <2>2, <3>2, <3>3, QuietType
  <2> QED BY <1>1, <2>1, <2>2 DEF FindRule
<1>2. CASE WriteRule(r)
  <2> DEFINE ok == i \notin DOMAIN txs \/ k.cat \in categories
             row == [txs[i] EXCEPT
                      !.cat = k.cat, !.src = "rule",
                      !.tax = IF k.tax /\ req[r].cur.tax = None THEN "rule"
                              ELSE txs[i].tax]
             to == IF ok THEN "attribute" ELSE Refused(r)
  <2>1. /\ Goto(r, to) /\ req[r].pc = "write"
        /\ Update(i, row) \/ UNCHANGED txs
        /\ UNCHANGED <<accounts, statements, categories, rules>>
    BY <1>2 DEF WriteRule, At
  <2>2. k \in Pick
    BY <1>0, <2>1 DEF Shape
  <2>3. i \in DOMAIN txs => row \in Row
    <3>1. SUFFICES ASSUME i \in DOMAIN txs PROVE row \in Row
      OBVIOUS
    <3> DEFINE tax == IF k.tax /\ req[r].cur.tax = None THEN "rule" ELSE txs[i].tax
    <3>2. txs[i] \in Row /\ tax \in {"user", "rule", None}
      BY <3>1 DEF TypeInv, TypeOK, Row
    <3> HIDE DEF tax
    <3>3. k.cat \in Category \cup {None} /\ "rule" \in Source
      BY <2>2 DEF Pick, Source
    <3>4. [txs[i] EXCEPT !.cat = k.cat, !.src = "rule", !.tax = tax] \in Row
      BY <3>2, <3>3, RowTaxOK
    <3> QED BY <3>4 DEF tax
  <2>4. to \in PC /\ (to \in Resting \/ Shape([req[r] EXCEPT !.pc = to]))
    BY <1>0, <2>1 DEF Shape, ReqState, PC, Resting, Refused
  <2> HIDE DEF to, row, i
  <2> QED BY <2>1, <2>3, <2>4, RowGotoType
<1>3. CASE SetRuleId(r)
  <2> DEFINE ok == i \notin DOMAIN txs \/ RuleLive(k.rule)
             row == [txs[i] EXCEPT !.rule = k.rule]
             to == IF ok THEN "next" ELSE Refused(r)
  <2>1. /\ Goto(r, to) /\ req[r].pc = "attribute"
        /\ Update(i, row) \/ UNCHANGED txs
        /\ UNCHANGED <<accounts, statements, categories, rules>>
    BY <1>3 DEF SetRuleId, At
  <2>2. k.rule \in Rule
    BY <1>0, <2>1 DEF Shape
  <2>3. i \in DOMAIN txs => row \in Row
    BY <2>2 DEF TypeInv, TypeOK, Row
  <2>4. to \in PC /\ (to \in Resting \/ Shape([req[r] EXCEPT !.pc = to]))
    BY <1>0, <2>1 DEF Shape, ReqState, PC, Resting, Refused
  <2> HIDE DEF to, row, i
  <2> QED BY <2>1, <2>3, <2>4, RowGotoType
<1>4. CASE SuggestFromHistory(r)
  <2>0. req[r].pc = "history" /\ req[r].op \in {"import", "resolve"} /\ UNCHANGED Tables
    BY <1>0, <1>4 DEF SuggestFromHistory, At, Shape
  <2>1. CASE Goto(r, "next")
    <3>1. Shape([req[r] EXCEPT !.pc = "next"])
      BY <1>0, <2>0 DEF Shape, ReqState, PC
    <3> QED BY <2>0, <2>1, <3>1, QuietGotoType DEF PC
  <2>2. ASSUME NEW j \in DOMAIN txs, txs[j].cat # None,
               req' = [req EXCEPT ![r].pc = "suggest",
                                  ![r].pick = [rule |-> None, cat |-> txs[j].cat, scope |-> None, tax |-> FALSE]],
               Leave(r, "suggest")
        PROVE  TypeInv'
    <3> DEFINE pick == [rule |-> None, cat |-> txs[j].cat, scope |-> None, tax |-> FALSE]
               q == [req[r] EXCEPT !.pc = "suggest", !.pick = pick]
    <3>1. pick \in Pick
      BY <2>2 DEF Pick, TypeInv, TypeOK, Row
    <3>2. req' = [req EXCEPT ![r] = q]
      BY <2>2 DEF TypeInv, TypeOK
    <3> HIDE DEF pick
    <3>3. q \in ReqState /\ Shape(q)
      BY <1>0, <2>0, <3>1 DEF Shape, ReqState, PC
    <3> HIDE DEF q
    <3> QED BY <2>0, <2>2, <3>2, <3>3, QuietType
  <2> QED BY <1>4, <2>1, <2>2 DEF SuggestFromHistory
<1>5. CASE WriteSuggestion(r)
  <2> DEFINE row == [txs[i] EXCEPT !.cat = None, !.src = "suggested"]
  <2>1. /\ Goto(r, "setSuggested") /\ req[r].pc = "suggest"
        /\ Update(i, row)
        /\ UNCHANGED <<accounts, statements, categories, rules>>
    BY <1>5 DEF WriteSuggestion, At
  <2>2. i \in DOMAIN txs => row \in Row
    BY RowOK DEF TypeInv, TypeOK, Source
  <2>3. "setSuggested" \in PC /\ Shape([req[r] EXCEPT !.pc = "setSuggested"])
    BY <1>0, <2>1 DEF Shape, ReqState, PC
  <2> HIDE DEF row, i
  <2> QED BY <2>1, <2>2, <2>3, RowGotoType
<1>6. CASE SetSuggested(r)
  <2> DEFINE ok == i \notin DOMAIN txs \/ k.cat \in categories
             row == [txs[i] EXCEPT !.sugg = k.cat]
             to == IF ok THEN "next" ELSE Refused(r)
  <2>1. /\ Goto(r, to) /\ req[r].pc = "setSuggested"
        /\ Update(i, row) \/ UNCHANGED txs
        /\ UNCHANGED <<accounts, statements, categories, rules>>
    BY <1>6 DEF SetSuggested, At
  <2>2. k \in Pick /\ req[r].op \in {"import", "resolve"}
    BY <1>0, <2>1 DEF Shape
  <2>3. i \in DOMAIN txs => row \in Row
    BY <2>2 DEF TypeInv, TypeOK, Row, Pick
  <2>4. to \in PC /\ (to \in Resting \/ Shape([req[r] EXCEPT !.pc = to]))
    BY <1>0, <2>1, <2>2 DEF Shape, ReqState, PC, Resting, Refused
  <2> HIDE DEF to, row, i
  <2> QED BY <2>1, <2>3, <2>4, RowGotoType
<1>7. CASE FinishRows(r)
  <2> DEFINE to == IF req[r].op = "import" THEN "pending" ELSE "done"
  <2>1. Goto(r, to) /\ UNCHANGED Tables /\ req[r].pc = "next"
    BY <1>7 DEF FinishRows, At
  <2>2. to \in PC /\ (to \in Resting \/ Shape([req[r] EXCEPT !.pc = to]))
    BY <1>0, <2>1 DEF Shape, ReqState, PC, Resting
  <2> HIDE DEF to
  <2> QED BY <2>1, <2>2, QuietGotoType
<1>8. CASE LoadCandidates(r)
  <2> DEFINE hit(j) == /\ txs[j].src # "manual"
                       /\ k.scope \in {None, txs[j].account}
                       /\ Matches(k.rule, txs[j].desc, txs[j].amount)
             todo == {SnapshotOf(j) : j \in {x \in DOMAIN txs : hit(x)}}
             q == [req[r] EXCEPT !.pc = "next", !.todo = todo]
  <2>1. /\ req[r].pc = "applyLoad"
        /\ req' = [req EXCEPT ![r].pc = "next", ![r].todo = todo]
        /\ Leave(r, "next") /\ UNCHANGED Tables
    BY <1>8 DEF LoadCandidates, At
  <2>2. todo \in SUBSET Snapshot
    BY SnapshotOK DEF TypeInv
  <2> HIDE DEF todo
  <2>3. q \in ReqState /\ Shape(q)
    BY <1>0, <2>1, <2>2 DEF Shape, ReqState, PC
  <2>4. req' = [req EXCEPT ![r] = q]
    BY <2>1 DEF TypeInv, TypeOK
  <2> HIDE DEF q
  <2> QED BY <2>1, <2>3, <2>4, QuietType
<1>9. CASE NextCandidate(r)
  <2>1. PICK s \in req[r].todo :
          /\ req[r].pc = "next" /\ req[r].op = "apply"
          /\ req' = [req EXCEPT ![r].pc = "write", ![r].todo = @ \ {s}, ![r].cur = s]
          /\ Leave(r, "write") /\ UNCHANGED Tables
    BY <1>9 DEF NextCandidate, At
  <2> DEFINE q == [req[r] EXCEPT !.pc = "write", !.todo = @ \ {s}, !.cur = s]
  <2>2. s \in Snapshot
    BY <1>0 DEF ReqState
  <2>3. q \in ReqState /\ Shape(q)
    BY <1>0, <2>1, <2>2 DEF Shape, ReqState, PC
  <2>4. req' = [req EXCEPT ![r] = q]
    BY <2>1 DEF TypeInv, TypeOK
  <2> HIDE DEF q
  <2> QED BY <2>1, <2>3, <2>4, QuietType
<1> QED BY <1>1, <1>2, <1>3, <1>4, <1>5, <1>6, <1>7, <1>8, <1>9

LEMMA TransactionType ==
  ASSUME TypeInv, NEW r \in Request, PatchTransaction(r) \/ ApproveSuggestion(r)
  PROVE  TypeInv'
<1> USE LedgerAssumption
<1> DEFINE i == req[r].cur.id
<1>0. req[r] \in ReqState /\ Shape(req[r])
  BY ReqOK
<1>1. CASE PatchTransaction(r)
  <2> DEFINE f == req[r].form
             hashed == f.desc # None \/ f.amount # None
             hash == HashOf(req[r].cur.account, Given(f.desc, req[r].cur.desc),
                            Given(f.amount, req[r].cur.amount))
             ok == i \notin DOMAIN txs \/ f.cat \in categories \cup {None}
             row == [txs[i] EXCEPT
                       !.desc = Given(f.desc, txs[i].desc), !.amount = Given(f.amount, txs[i].amount),
                       !.hash = IF hashed THEN hash ELSE txs[i].hash,
                       !.edited = txs[i].edited \/ hashed,
                       !.cat = Given(f.cat, txs[i].cat),
                       !.src = IF f.cat # None THEN "manual" ELSE txs[i].src,
                       !.tax = IF f.tax THEN "user" ELSE txs[i].tax]
             to == IF ok THEN "done" ELSE Refused(r)
  <2>1. /\ Goto(r, to) /\ req[r].pc = "patch"
        /\ Update(i, row) \/ UNCHANGED txs
        /\ UNCHANGED <<accounts, statements, categories, rules>>
    BY <1>1 DEF PatchTransaction, At
  <2>2. f \in Form /\ req[r].cur \in Snapshot
    BY <1>0, <2>1 DEF Shape
  <2>3. hash \in Hash
    BY <2>2 DEF Hash, Form, Snapshot, Given
  <2> HIDE DEF hash, hashed
  <2>4. i \in DOMAIN txs => row \in Row
    <3>1. SUFFICES ASSUME i \in DOMAIN txs PROVE row \in Row
      OBVIOUS
    <3>2. txs[i] \in Row
      BY <3>1 DEF TypeInv, TypeOK
    <3> HIDE DEF i
    <3> DEFINE d == Given(f.desc, txs[i].desc)
               m == Given(f.amount, txs[i].amount)
               h == IF hashed THEN hash ELSE txs[i].hash
               e == txs[i].edited \/ hashed
               c == Given(f.cat, txs[i].cat)
               s == IF f.cat # None THEN "manual" ELSE txs[i].src
               t == IF f.tax THEN "user" ELSE txs[i].tax
    <3>3. /\ d \in Desc /\ m \in Amount /\ h \in Hash /\ e \in BOOLEAN
          /\ c \in Category \cup {None} /\ s \in Source /\ t \in {"user", "rule", None}
      BY <2>2, <2>3, <3>2 DEF Given, Form, Row, Source
    <3> HIDE DEF d, m, h, e, c, s, t
    <3> DEFINE mid == [txs[i] EXCEPT !.desc = d, !.amount = m, !.hash = h, !.edited = e]
    <3>4. mid \in Row
      BY <3>2, <3>3, RowHashOK
    <3> HIDE DEF mid
    <3>5. [mid EXCEPT !.cat = c, !.src = s, !.tax = t] \in Row
      BY <3>3, <3>4, RowTaxOK
    <3> QED BY <3>5 DEF mid, d, m, h, e, c, s, t
  <2>5. to \in PC /\ (to \in Resting \/ Shape([req[r] EXCEPT !.pc = to]))
    BY <1>0 DEF Shape, ReqState, PC, Resting, Refused
  <2> HIDE DEF to, row, i
  <2> QED BY <2>1, <2>4, <2>5, RowGotoType
<1>2. CASE ApproveSuggestion(r)
  <2> DEFINE ok == i \notin DOMAIN txs \/ req[r].cur.sugg \in categories
             row == [txs[i] EXCEPT !.cat = req[r].cur.sugg, !.src = "manual"]
             to == IF ok THEN "done" ELSE Refused(r)
  <2>1. /\ Goto(r, to) /\ req[r].pc = "approve"
        /\ Update(i, row) \/ UNCHANGED txs
        /\ UNCHANGED <<accounts, statements, categories, rules>>
    BY <1>2 DEF ApproveSuggestion, At
  <2>2. req[r].cur.sugg \in Category
    BY <1>0, <2>1 DEF Shape
  <2>3. i \in DOMAIN txs => row \in Row
    BY <2>2, RowOK DEF TypeInv, TypeOK, Source
  <2>4. to \in PC /\ (to \in Resting \/ Shape([req[r] EXCEPT !.pc = to]))
    BY <1>0 DEF Shape, ReqState, PC, Resting, Refused
  <2> HIDE DEF to, row, i
  <2> QED BY <2>1, <2>3, <2>4, RowGotoType
<1> QED BY <1>1, <1>2

LEMMA ForgetRefsOK ==
  ASSUME NEW row \in Row, NEW cats, NEW dead
  PROVE  ForgetRefs(row, cats, dead) \in Row
<1> DEFINE mid == [row EXCEPT !.cat = IF row.cat \in cats THEN None ELSE row.cat]
<1>1. mid \in Row
  BY DEF Row
<1>2. [mid EXCEPT !.sugg = IF row.sugg \in cats THEN None ELSE row.sugg,
                  !.rule = IF row.rule \in dead THEN None ELSE row.rule] \in Row
  <2> HIDE DEF mid
  <2> QED BY <1>1 DEF Row
<1> QED BY <1>2 DEF ForgetRefs

LEMMA LoseType ==
  ASSUME TypeInv, NEW S, Lose(S)
  PROVE  TypeInv'
<1>1. \A r \in Request : req'[r] \in ReqState /\ Shape(req'[r])
  BY ReqOK, AnsweredOK DEF Lose, Resting
<1> QED BY <1>1 DEF Lose, Tables, TypeInv, TypeOK

LEMMA MaintainType ==
  ASSUME TypeInv, Maintain
  PROVE  TypeInv'
<1>1. ASSUME NEW ids, DeleteTransactions(ids)
      PROVE  TypeInv'
  BY <1>1 DEF DeleteTransactions, Restricted, TypeInv, TypeOK
<1>2. ASSUME NEW a \in Account, DeleteAccount(a)
      PROVE  TypeInv'
  <2>1. accounts' \in [Account -> [live : BOOLEAN, kind : {"bank", "credit_card"},
                                   last : Period \cup {0}]]
    BY <1>2 DEF DeleteAccount, TypeInv, TypeOK
  <2>2. DOMAIN txs' \in SUBSET TxId /\ txs' \in [DOMAIN txs' -> Row]
    BY <1>2 DEF DeleteAccount, Restricted, TypeInv, TypeOK
  <2>3. rules' \in [Rule -> RuleRow \cup {None, NotYet}]
    BY <1>2 DEF DeleteAccount, RuleLive, RuleRow, TypeInv, TypeOK
  <2> QED BY <1>2, <2>1, <2>2, <2>3 DEF DeleteAccount, TypeInv, TypeOK
<1>3. ASSUME NEW a \in Account, NEW kind \in {"bank", "credit_card"}, ChangeAccountKind(a, kind)
      PROVE  TypeInv'
  BY <1>3 DEF ChangeAccountKind, TypeInv, TypeOK
<1>4. ASSUME NEW u \in Rule, DeleteRule(u)
      PROVE  TypeInv'
  <2>1. DOMAIN txs' \in SUBSET TxId /\ txs' \in [DOMAIN txs' -> Row]
    BY <1>4, ForgetRefsOK DEF DeleteRule, TypeInv, TypeOK
  <2> QED BY <1>4, <2>1 DEF DeleteRule, TypeInv, TypeOK
<1>5. ASSUME NEW u \in Rule, NEW row \in RuleRow, CreateRule(u, row) \/ ChangeRule(u, row)
      PROVE  TypeInv'
  <2>1. PICK new \in RuleRow : /\ rules' = [rules EXCEPT ![u] = new]
                              /\ UNCHANGED <<accounts, statements, txs, categories, req, turn>>
    BY <1>5 DEF CreateRule, ChangeRule, RuleRow
  <2> QED BY <2>1 DEF TypeInv, TypeOK
<1>6. ASSUME NEW c \in Category, DeleteCategory(c)
      PROVE  TypeInv'
  <2>1. DOMAIN txs' \in SUBSET TxId /\ txs' \in [DOMAIN txs' -> Row]
    BY <1>6, ForgetRefsOK DEF DeleteCategory, TypeInv, TypeOK
  <2>2. rules' \in [Rule -> RuleRow \cup {None, NotYet}]
    BY <1>6 DEF DeleteCategory, TypeInv, TypeOK
  <2> QED BY <1>6, <2>1, <2>2 DEF DeleteCategory, TypeInv, TypeOK
<1>7. ASSUME NEW S, Lose(S)
      PROVE  TypeInv'
  BY <1>7, LoseType
<1> QED BY <1>1, <1>2, <1>3, <1>4, <1>5, <1>6, <1>7
        DEF Maintain, Crash, Reject, RefuseRule

-----------------------------------------------------------------------------

LEMMA InitType == Init => TypeInv
<1> SUFFICES ASSUME Init PROVE TypeInv
  OBVIOUS
<1>1. \A r \in Request : req[r] \in ReqState /\ Shape(req[r])
  BY IdleReqOK DEF Init
<1>2. DOMAIN txs = {} /\ txs \in [DOMAIN txs -> Row]
  BY DEF Init
<1>3. rules \in [Rule -> RuleRow \cup {None, NotYet}]
  BY LedgerAssumption DEF Init
<1>4. accounts \in [Account -> [live : BOOLEAN, kind : {"bank", "credit_card"},
                                last : Period \cup {0}]]
  BY DEF Init
<1> QED BY <1>1, <1>2, <1>3, <1>4 DEF Init, TypeInv, TypeOK

LEMMA NextType == TypeInv /\ [Next]_vars => TypeInv'
<1> SUFFICES ASSUME TypeInv, [Next]_vars PROVE TypeInv'
  OBVIOUS
<1>1. CASE Maintain
  BY <1>1, MaintainType
<1>2. ASSUME NEW r \in Request, Arrive(r) PROVE TypeInv'
  BY <1>2, ArriveType
<1>3. ASSUME NEW r \in Request, Continue(r) PROVE TypeInv'
  BY <1>3, ImportType, CategorizeType, TransactionType DEF Continue
<1>4. CASE UNCHANGED vars
  BY <1>4 DEF vars, TypeInv, TypeOK
<1> QED BY <1>1, <1>2, <1>3, <1>4 DEF Next

(* The tables and the handlers' locals have their types in every behaviour, *)
(* on either database and for any set of concurrent requests.               *)
THEOREM TypeCorrect == Spec => []TypeOK
<1>1. Spec => []TypeInv
  BY InitType, NextType, PTL DEF Spec
<1>2. TypeInv => TypeOK
  BY DEF TypeInv
<1> QED BY <1>1, <1>2, PTL

-----------------------------------------------------------------------------
(* References.  ReferencesResolve is inductive together with the types: a   *)
(* handler writes a reference it read earlier, and the foreign key refuses  *)
(* the write when the row it refers to has gone since.                      *)

RowRefs(row) ==
  /\ <<row.account, row.period>> \in statements
  /\ row.cat \in categories \cup {None} /\ row.sugg \in categories \cup {None}
  /\ row.rule # None => RuleLive(row.rule)

LEMMA RefsByRow ==
  ReferencesResolve <=>
    /\ \A s \in statements : accounts[s[1]].live
    /\ \A u \in Rule : RuleLive(u) => RuleRefsLive(rules[u])
    /\ \A i \in DOMAIN txs : RowRefs(txs[i])
BY DEF ReferencesResolve, RowRefs

LEMMA QuietRefs ==
  ASSUME ReferencesResolve, UNCHANGED Tables
  PROVE  ReferencesResolve'
BY DEF ReferencesResolve, RuleLive, RuleRefsLive, Tables

(* One row changes, to a row whose references resolve. *)
LEMMA RowUpdateRefs ==
  ASSUME ReferencesResolve, NEW i, NEW row, i \in DOMAIN txs => RowRefs(row),
         Update(i, row) \/ UNCHANGED txs,
         UNCHANGED <<accounts, statements, categories, rules>>
  PROVE  ReferencesResolve'
<1>1. \A j \in DOMAIN txs' : RowRefs(txs'[j])
  BY RefsByRow DEF Update
<1>2. \A j \in DOMAIN txs' : RowRefs(txs[j])' 
  BY <1>1 DEF RowRefs, RuleLive
<1> QED BY <1>2 DEF ReferencesResolve, RowRefs, RuleLive, RuleRefsLive

LEMMA ContinueRefs ==
  ASSUME TypeInv, ReferencesResolve, NEW r \in Request, Continue(r)
  PROVE  ReferencesResolve'
<1> DEFINE a == req[r].account
           p == req[r].period
           i == req[r].cur.id
           k == req[r].pick
<1>0. req[r] \in ReqState /\ Shape(req[r])
  BY ReqOK
<1>1. CASE \/ FindStatement(r) \/ FindExistingHashes(r) \/ LoadStatement(r)
           \/ ReviewPending(r) \/ FindRule(r) \/ SuggestFromHistory(r)
           \/ FinishRows(r) \/ LoadCandidates(r) \/ NextCandidate(r)
  <2>1. UNCHANGED Tables
    BY <1>1 DEF FindStatement, FindExistingHashes, LoadStatement, ReviewPending, FindRule,
                SuggestFromHistory, FinishRows, LoadCandidates, NextCandidate
  <2> QED BY <2>1, QuietRefs
<1>2. CASE CreateStatement(r)
  <2>1. /\ UNCHANGED <<accounts, txs, categories, rules>>
        /\ statements \subseteq statements'
        /\ statements' \subseteq statements \cup {<<a, p>>}
        /\ statements' # statements => accounts[a].live
    BY <1>2 DEF CreateStatement
  <2> QED BY <2>1 DEF ReferencesResolve, RuleLive, RuleRefsLive
<1>3. CASE BulkCreate(r)
  <2> DEFINE new == [x \in {<<r, l>> : l \in DOMAIN req[r].rows} |->
                       NewRow(a, p, req[r].rows[x[2]], req[r].op)]
  <2>1. /\ UNCHANGED <<accounts, statements, categories, rules>>
        /\ \/ UNCHANGED txs
           \/ /\ DOMAIN req[r].rows = {} \/ <<a, p>> \in statements
              /\ txs' = Extend(txs, new)
    BY <1>3 DEF BulkCreate
  <2>2. ASSUME <<a, p>> \in statements, NEW l \in DOMAIN req[r].rows
        PROVE  RowRefs(NewRow(a, p, req[r].rows[l], req[r].op))
    BY <2>2 DEF RowRefs, NewRow
  <2>3. \A x \in DOMAIN txs' : RowRefs(txs'[x])
    <3>1. CASE UNCHANGED txs
      BY <3>1, RefsByRow
    <3>2. CASE (DOMAIN req[r].rows = {} \/ <<a, p>> \in statements) /\ txs' = Extend(txs, new)
      <4>1. \A x \in DOMAIN new : RowRefs(new[x])
        BY <2>2, <3>2
      <4> HIDE DEF new
      <4> QED BY <3>2, <4>1, RefsByRow DEF Extend
    <3> QED BY <2>1, <3>1, <3>2
  <2>4. \A x \in DOMAIN txs' : RowRefs(txs[x])'
    BY <2>1, <2>3 DEF RowRefs, RuleLive
  <2> QED BY <2>1, <2>4 DEF ReferencesResolve, RowRefs, RuleLive, RuleRefsLive
<1>4. CASE UpdateLastPeriod(r)
  <2>1. /\ UNCHANGED <<statements, txs, categories, rules>>
        /\ \A b \in Account : accounts'[b].live = accounts[b].live
    BY <1>4 DEF UpdateLastPeriod, TypeInv, TypeOK
  <2>2. \A s \in statements : s[1] \in Account
    BY DEF TypeInv, TypeOK
  <2>3. \A u \in Rule : RuleLive(u) => rules[u].scope \in Account \cup {None}
    BY DEF TypeInv, TypeOK, RuleLive, RuleRow
  <2> QED BY <2>1, <2>2, <2>3 DEF ReferencesResolve, RuleLive, RuleRefsLive
<1>5. CASE WriteRule(r)
  <2> DEFINE tax == IF k.tax /\ req[r].cur.tax = None THEN "rule" ELSE txs[i].tax
             row == [txs[i] EXCEPT !.cat = k.cat, !.src = "rule", !.tax = tax]
  <2>1. /\ UNCHANGED txs \/ (Update(i, row) /\ (i \in DOMAIN txs => k.cat \in categories))
        /\ UNCHANGED <<accounts, statements, categories, rules>>
    BY <1>5 DEF WriteRule
  <2> HIDE DEF tax
  <2>2. CASE UNCHANGED txs
    BY <2>1, <2>2, QuietRefs DEF Tables
  <2>3. CASE Update(i, row) /\ (i \in DOMAIN txs => k.cat \in categories)
    <3>1. i \in DOMAIN txs => RowRefs(row)
      BY <2>3, RefsByRow DEF RowRefs, TypeInv, TypeOK, Row
    <3> HIDE DEF row
    <3> QED BY <2>1, <2>3, <3>1, RowUpdateRefs
  <2> QED BY <2>1, <2>2, <2>3
<1>6. CASE SetRuleId(r)
  <2> DEFINE row == [txs[i] EXCEPT !.rule = k.rule]
  <2>1. /\ UNCHANGED txs \/ (Update(i, row) /\ (i \in DOMAIN txs => RuleLive(k.rule)))
        /\ UNCHANGED <<accounts, statements, categories, rules>>
    BY <1>6 DEF SetRuleId
  <2>2. CASE UNCHANGED txs
    BY <2>1, <2>2, QuietRefs DEF Tables
  <2>3. CASE Update(i, row) /\ (i \in DOMAIN txs => RuleLive(k.rule))
    <3>1. i \in DOMAIN txs => RowRefs(row)
      BY <2>3, RefsByRow DEF RowRefs, TypeInv, TypeOK, Row
    <3> HIDE DEF row
    <3> QED BY <2>1, <2>3, <3>1, RowUpdateRefs
  <2> QED BY <2>1, <2>2, <2>3
<1>7. CASE WriteSuggestion(r)
  <2> DEFINE row == [txs[i] EXCEPT !.cat = None, !.src = "suggested"]
  <2>1. Update(i, row) /\ UNCHANGED <<accounts, statements, categories, rules>>
    BY <1>7 DEF WriteSuggestion
  <2>2. i \in DOMAIN txs => RowRefs(row)
    BY RefsByRow DEF RowRefs, TypeInv, TypeOK, Row
  <2> HIDE DEF row
  <2> QED BY <2>1, <2>2, RowUpdateRefs
<1>8. CASE SetSuggested(r)
  <2> DEFINE row == [txs[i] EXCEPT !.sugg = k.cat]
  <2>1. /\ UNCHANGED txs \/ (Update(i, row) /\ (i \in DOMAIN txs => k.cat \in categories))
        /\ UNCHANGED <<accounts, statements, categories, rules>>
    BY <1>8 DEF SetSuggested
  <2>2. CASE UNCHANGED txs
    BY <2>1, <2>2, QuietRefs DEF Tables
  <2>3. CASE Update(i, row) /\ (i \in DOMAIN txs => k.cat \in categories)
    <3>1. i \in DOMAIN txs => RowRefs(row)
      BY <2>3, RefsByRow DEF RowRefs, TypeInv, TypeOK, Row
    <3> HIDE DEF row
    <3> QED BY <2>1, <2>3, <3>1, RowUpdateRefs
  <2> QED BY <2>1, <2>2, <2>3
<1>9. CASE PatchTransaction(r)
  <2>0. req[r].pc = "patch" /\ req[r].form \in Form
    BY <1>0, <1>9 DEF PatchTransaction, At, Shape
  <2> DEFINE f == req[r].form
             hashed == f.desc # None \/ f.amount # None
             d == Given(f.desc, txs[i].desc)
             m == Given(f.amount, txs[i].amount)
             h == IF hashed THEN HashOf(req[r].cur.account, Given(f.desc, req[r].cur.desc),
                                        Given(f.amount, req[r].cur.amount))
                  ELSE txs[i].hash
             e == txs[i].edited \/ hashed
             c == Given(f.cat, txs[i].cat)
             s == IF f.cat # None THEN "manual" ELSE txs[i].src
             t == IF f.tax THEN "user" ELSE txs[i].tax
             row == [txs[i] EXCEPT !.desc = d, !.amount = m, !.hash = h, !.edited = e,
                                   !.cat = c, !.src = s, !.tax = t]
  <2>1. /\ \/ UNCHANGED txs
           \/ Update(i, row) /\ (i \in DOMAIN txs => f.cat \in categories \cup {None})
        /\ UNCHANGED <<accounts, statements, categories, rules>>
    BY <1>9 DEF PatchTransaction
  <2> HIDE DEF d, m, h, e, s, t
  <2>2. CASE UNCHANGED txs
    BY <2>1, <2>2, QuietRefs DEF Tables
  <2>3. CASE /\ Update(i, row)
             /\ i \in DOMAIN txs => req[r].form.cat \in categories \cup {None}
    <3>1. i \in DOMAIN txs => RowRefs(row)
      <4>1. SUFFICES ASSUME i \in DOMAIN txs PROVE RowRefs(row)
        OBVIOUS
      <4>2. RowRefs(txs[i]) /\ txs[i] \in Row
        BY <4>1, RefsByRow DEF TypeInv, TypeOK
      <4>3. c \in categories \cup {None}
        BY <2>3, <4>1, <4>2 DEF Given, RowRefs
      <4> HIDE DEF c, i
      <4> QED BY <4>2, <4>3 DEF RowRefs, Row
    <3> HIDE DEF row
    <3> QED BY <2>1, <2>3, <3>1, RowUpdateRefs
  <2> QED BY <2>1, <2>2, <2>3
<1>10. CASE ApproveSuggestion(r)
  <2> DEFINE row == [txs[i] EXCEPT !.cat = req[r].cur.sugg, !.src = "manual"]
  <2>1. /\ \/ UNCHANGED txs
           \/ /\ Update(i, row)
              /\ i \in DOMAIN txs => req[r].cur.sugg \in categories
        /\ UNCHANGED <<accounts, statements, categories, rules>>
    BY <1>10 DEF ApproveSuggestion
  <2>2. CASE UNCHANGED txs
    BY <2>1, <2>2, QuietRefs DEF Tables
  <2>3. CASE Update(i, row) /\ (i \in DOMAIN txs => req[r].cur.sugg \in categories)
    <3>1. i \in DOMAIN txs => RowRefs(row)
      BY <2>3, RefsByRow DEF RowRefs, TypeInv, TypeOK, Row
    <3> HIDE DEF row
    <3> QED BY <2>1, <2>3, <3>1, RowUpdateRefs
  <2> QED BY <2>1, <2>2, <2>3
<1> QED BY <1>1, <1>2, <1>3, <1>4, <1>5, <1>6, <1>7, <1>8, <1>9, <1>10 DEF Continue

LEMMA ForgetRefsFields ==
  ASSUME NEW row \in Row, NEW cats, NEW dead
  PROVE  LET new == ForgetRefs(row, cats, dead)
         IN  /\ new.account = row.account /\ new.period = row.period
             /\ new.cat = IF row.cat \in cats THEN None ELSE row.cat
             /\ new.sugg = IF row.sugg \in cats THEN None ELSE row.sugg
             /\ new.rule = IF row.rule \in dead THEN None ELSE row.rule
BY DEF ForgetRefs, Row

LEMMA MaintainRefs ==
  ASSUME TypeInv, ReferencesResolve, Maintain
  PROVE  ReferencesResolve'
<1>0. /\ \A u \in Rule : RuleLive(u) => rules[u] \in RuleRow
      /\ \A i \in DOMAIN txs : txs[i] \in Row /\ RowRefs(txs[i])
  BY RefsByRow DEF TypeInv, TypeOK, RuleLive
<1>1. ASSUME NEW ids, DeleteTransactions(ids)
      PROVE  ReferencesResolve'
  BY <1>1 DEF DeleteTransactions, Restricted, ReferencesResolve, RuleLive, RuleRefsLive
<1>2. ASSUME NEW a \in Account, DeleteAccount(a)
      PROVE  ReferencesResolve'
  <2>1. /\ \A b \in Account : b # a => accounts'[b].live = accounts[b].live
        /\ statements' = {s \in statements : s[1] # a}
        /\ \A i \in DOMAIN txs' : i \in DOMAIN txs /\ txs'[i] = txs[i] /\ txs[i].account # a
        /\ UNCHANGED categories
    BY <1>2 DEF DeleteAccount, Restricted, TypeInv, TypeOK
  <2>2. \A u \in Rule : /\ RuleLive(u)' <=> RuleLive(u)
                        /\ RuleLive(u) => /\ rules'[u].cat = rules[u].cat
                                           /\ rules'[u].scope \in {None, rules[u].scope} \ {a}
    BY <1>0, <1>2, LedgerAssumption DEF DeleteAccount, RuleLive, RuleRow, TypeInv, TypeOK
  <2>3. \A s \in statements' : accounts'[s[1]].live
    BY <2>1 DEF ReferencesResolve, TypeInv, TypeOK
  <2>4. \A u \in Rule : RuleLive(u)' => RuleRefsLive(rules[u])'
    BY <1>0, <2>1, <2>2 DEF ReferencesResolve, RuleRefsLive, RuleRow
  <2>5. \A i \in DOMAIN txs' : RowRefs(txs[i])'
    BY <1>0, <2>1, <2>2 DEF RowRefs, Row
  <2> QED BY <2>3, <2>4, <2>5 DEF ReferencesResolve, RowRefs
<1>3. ASSUME NEW a \in Account, NEW kind \in {"bank", "credit_card"}, ChangeAccountKind(a, kind)
      PROVE  ReferencesResolve'
  <2>1. /\ \A b \in Account : accounts'[b].live = accounts[b].live
        /\ UNCHANGED <<statements, txs, categories, rules>>
    BY <1>3 DEF ChangeAccountKind, TypeInv, TypeOK
  <2> QED BY <1>0, <2>1 DEF ReferencesResolve, RuleLive, RuleRefsLive, RuleRow, TypeInv, TypeOK
<1>4. ASSUME NEW u \in Rule, DeleteRule(u)
      PROVE  ReferencesResolve'
  <2>1. /\ UNCHANGED <<accounts, statements, categories>> /\ DOMAIN txs' = DOMAIN txs
        /\ \A v \in Rule : v # u => rules'[v] = rules[v]
        /\ rules'[u] = None
        /\ \A i \in DOMAIN txs : txs'[i] = ForgetRefs(txs[i], {}, {u})
    BY <1>4 DEF DeleteRule, TypeInv, TypeOK
  <2>2. \A i \in DOMAIN txs' : RowRefs(txs[i])'
    <3>1. SUFFICES ASSUME NEW i \in DOMAIN txs PROVE RowRefs(txs[i])'
      BY <2>1
    <3>2. /\ txs[i] \in Row /\ RowRefs(txs[i])
          /\ txs[i].rule \in Rule \cup {None}
      BY <1>0 DEF Row
    <3> QED BY <2>1, <3>2, ForgetRefsFields DEF RowRefs, RuleLive
  <2> QED BY <2>1, <2>2 DEF ReferencesResolve, RowRefs, RuleLive, RuleRefsLive
<1>5. ASSUME NEW u \in Rule, NEW row \in RuleRow, CreateRule(u, row) \/ ChangeRule(u, row)
      PROVE  ReferencesResolve'
  <2>1. /\ UNCHANGED <<accounts, statements, txs, categories>>
        /\ \A v \in Rule : v # u => rules'[v] = rules[v]
        /\ rules'[u] \in RuleRow
        /\ rules'[u].cat = row.cat /\ rules'[u].scope = row.scope /\ RuleRefsLive(row)
    <3> DEFINE blank == [cat |-> row.cat, scope |-> row.scope, tax |-> FALSE]
    <3>1. PICK new : /\ new = row \/ new = blank
                     /\ rules' = [rules EXCEPT ![u] = new] /\ RuleRefsLive(row)
                     /\ UNCHANGED <<accounts, statements, txs, categories>>
      BY <1>5 DEF CreateRule, ChangeRule
    <3>2. new \in RuleRow /\ new.cat = row.cat /\ new.scope = row.scope
      <4>1. blank \in RuleRow /\ blank.cat = row.cat /\ blank.scope = row.scope
        BY DEF RuleRow
      <4> HIDE DEF blank
      <4> QED BY <3>1, <4>1
    <3> HIDE DEF blank
    <3>3. rules \in [Rule -> RuleRow \cup {None, NotYet}]
      BY DEF TypeInv, TypeOK
    <3> QED BY <3>1, <3>2, <3>3
  <2>2. RuleLive(u)'
    BY <2>1, LedgerAssumption DEF RuleLive
  <2>3. \A i \in DOMAIN txs' : RowRefs(txs[i])'
    BY <1>0, <2>1, <2>2 DEF RowRefs, Row, RuleLive
  <2>4. \A v \in Rule : RuleLive(v)' => RuleRefsLive(rules[v])'
    BY <2>1 DEF ReferencesResolve, RuleLive, RuleRefsLive
  <2> QED BY <2>1, <2>3, <2>4 DEF ReferencesResolve, RowRefs
<1>6. ASSUME NEW c \in Category, DeleteCategory(c)
      PROVE  ReferencesResolve'
  <2> DEFINE dead == {u \in Rule : RuleLive(u) /\ rules[u].cat = c}
  <2>1. /\ UNCHANGED <<accounts, statements>> /\ DOMAIN txs' = DOMAIN txs
        /\ categories' = categories \ {c}
        /\ \A v \in Rule : rules'[v] = IF v \in dead THEN None ELSE rules[v]
        /\ \A i \in DOMAIN txs : txs'[i] = ForgetRefs(txs[i], {c}, dead)
    BY <1>6 DEF DeleteCategory, TypeInv, TypeOK
  <2>2. \A i \in DOMAIN txs' : RowRefs(txs[i])'
    <3>1. SUFFICES ASSUME NEW i \in DOMAIN txs PROVE RowRefs(txs[i])'
      BY <2>1
    <3>2. /\ txs[i] \in Row /\ RowRefs(txs[i])
          /\ txs[i].rule \in Rule \cup {None}
      BY <1>0 DEF Row
    <3>3. txs'[i] = ForgetRefs(txs[i], {c}, dead)
      BY <2>1
    <3> HIDE DEF dead
    <3>4. /\ txs'[i].account = txs[i].account /\ txs'[i].period = txs[i].period
          /\ txs'[i].cat = IF txs[i].cat \in {c} THEN None ELSE txs[i].cat
          /\ txs'[i].sugg = IF txs[i].sugg \in {c} THEN None ELSE txs[i].sugg
          /\ txs'[i].rule = IF txs[i].rule \in dead THEN None ELSE txs[i].rule
      BY <3>2, <3>3, ForgetRefsFields
    <3>5. txs'[i].rule # None => rules'[txs'[i].rule] \notin {None, NotYet}
      BY <2>1, <3>2, <3>4 DEF RowRefs, RuleLive
    <3>6. /\ txs'[i].cat \in categories' \cup {None} /\ txs'[i].sugg \in categories' \cup {None}
          /\ <<txs'[i].account, txs'[i].period>> \in statements'
      BY <2>1, <3>2, <3>4 DEF RowRefs
    <3> QED BY <3>5, <3>6 DEF RowRefs, RuleLive
  <2>3. \A v \in Rule : RuleLive(v)' => RuleRefsLive(rules[v])'
    BY <2>1 DEF ReferencesResolve, RuleLive, RuleRefsLive
  <2> QED BY <2>1, <2>2, <2>3 DEF ReferencesResolve, RowRefs
<1>7. ASSUME NEW S, Lose(S)
      PROVE  ReferencesResolve'
  BY <1>7, QuietRefs DEF Lose
<1> QED BY <1>1, <1>2, <1>3, <1>4, <1>5, <1>6, <1>7
        DEF Maintain, Crash, Reject, RefuseRule

(* No reference ever dangles, on either database: the checks of the handlers *)
(* and the cascades of the schema cover every interleaving of them.          *)
THEOREM NoDanglingReference == Spec => []ReferencesResolve
<1> DEFINE Inv == TypeInv /\ ReferencesResolve
<1>1. Init => Inv
  <2> SUFFICES ASSUME Init PROVE ReferencesResolve
    BY InitType
  <2>1. \A u \in Rule : RuleLive(u) => rules[u] \in RuleRow
    BY LedgerAssumption DEF Init, RuleLive
  <2>2. \A a \in Account : accounts[a].live
    BY DEF Init
  <2> QED BY <2>1, <2>2 DEF Init, ReferencesResolve, RuleRefsLive, RuleRow
<1>2. Inv /\ [Next]_vars => Inv'
  <2> SUFFICES ASSUME Inv, [Next]_vars PROVE ReferencesResolve'
    BY NextType
  <2>1. CASE Maintain
    BY <2>1, MaintainRefs
  <2>2. ASSUME NEW r \in Request, Arrive(r) PROVE ReferencesResolve'
    <3>1. UNCHANGED Tables
      BY <2>2 DEF Arrive, BeginImport, BeginResolve, BeginApply, BeginPatch, BeginApprove, Begin
    <3> QED BY <3>1, QuietRefs
  <2>3. ASSUME NEW r \in Request, Continue(r) PROVE ReferencesResolve'
    BY <2>3, ContinueRefs
  <2>4. CASE UNCHANGED vars
    BY <2>4, QuietRefs DEF vars, Tables
  <2> QED BY <2>1, <2>2, <2>3, <2>4 DEF Next
<1>3. Inv => ReferencesResolve
  OBVIOUS
<1> HIDE DEF Inv
<1> QED BY <1>1, <1>2, <1>3, PTL DEF Spec

-----------------------------------------------------------------------------
(***************************************************************************)
(* On SQLite the import handlers implement the atomic import of ImportBook, *)
(* for any files, requests and interleaved handlers.                       *)
(*                                                                         *)
(* The two facts the argument needs besides the types: a handler that has  *)
(* started its statements owns the event loop, and the lines an import is   *)
(* about to insert are new to the account.  PostgreSQL keeps neither.      *)
(***************************************************************************)

OneAtATime == \A r \in Request : req[r].pc \notin Resting => turn = r

FreshRows ==
  \A r \in Request : (req[r].pc = "insert" /\ req[r].op = "import") =>
    \A l \in DOMAIN req[r].rows : req[r].rows[l].hash \notin HashesOf(req[r].account)

SerialInv == TypeInv /\ OneAtATime /\ FreshRows

-----------------------------------------------------------------------------
(* The handler that moves.                                                 *)

MovesOnly(r) == \A q \in Request : q # r => req'[q] = req[q]

LEMMA AnsweredFields ==
  ASSUME NEW q, NEW to
  PROVE  Answered(q, to).pc = to /\ Answered(q, to).op = q.op
BY DEF Answered, IdleReq

LEMMA GotoMoves ==
  ASSUME TypeInv, NEW r \in Request, NEW to, Goto(r, to)
  PROVE  MovesOnly(r) /\ req'[r].pc = to /\ Leave(r, to)
<1>1. req[r] \in ReqState
  BY ReqOK
<1>2. req' = [req EXCEPT ![r] = IF to \in Resting THEN Answered(req[r], to)
                                ELSE [req[r] EXCEPT !.pc = to]]
  BY DEF Goto
<1>3. MovesOnly(r)
  BY <1>2 DEF MovesOnly, TypeInv, TypeOK
<1>4. req'[r] = IF to \in Resting THEN Answered(req[r], to) ELSE [req[r] EXCEPT !.pc = to]
  BY <1>2 DEF TypeInv, TypeOK
<1>5. req'[r].pc = to
  BY <1>1, <1>4, AnsweredFields DEF ReqState
<1> QED BY <1>3, <1>5 DEF Goto

LEMMA ContinueMoves ==
  ASSUME TypeInv, NEW r \in Request, Continue(r)
  PROVE  /\ MovesOnly(r)
         /\ turn \in {None, r}
         /\ req[r].pc \notin Resting
         /\ Leave(r, req'[r].pc)
         /\ req'[r].pc = "insert" => FindExistingHashes(r)
<1>0. req[r] \in ReqState
  BY ReqOK
<1>1. CASE FindExistingHashes(r)
  <2>1. req'[r].pc = "insert" /\ MovesOnly(r)
    BY <1>0, <1>1 DEF FindExistingHashes, MovesOnly, TypeInv, TypeOK, ReqState
  <2> QED BY <1>1, <2>1 DEF FindExistingHashes, At, Resting
<1>2. CASE LoadStatement(r)
  <2>1. req'[r].pc = "next" /\ MovesOnly(r)
    BY <1>0, <1>2 DEF LoadStatement, MovesOnly, TypeInv, TypeOK, ReqState
  <2> QED BY <1>2, <2>1 DEF LoadStatement, At, Resting
<1>3. CASE ReviewPending(r)
  <2>1. PICK q : req' = [req EXCEPT ![r] = Answered(q, "done")]
    BY <1>3 DEF ReviewPending
  <2>2. req'[r].pc = "done" /\ MovesOnly(r)
    BY <2>1, AnsweredFields DEF MovesOnly, TypeInv, TypeOK
  <2> QED BY <1>3, <2>2 DEF ReviewPending, At, Resting
<1>4. CASE FindRule(r)
  <2>1. PICK to \in {"write", "history"} : req'[r].pc = to /\ MovesOnly(r) /\ Leave(r, to)
    BY <1>0, <1>4 DEF FindRule, MovesOnly, TypeInv, TypeOK, ReqState
  <2> QED BY <1>4, <2>1 DEF FindRule, At, Resting
<1>5. CASE SuggestFromHistory(r)
  <2>1. PICK to \in {"next", "suggest"} : req'[r].pc = to /\ MovesOnly(r) /\ Leave(r, to)
    <3>1. CASE Goto(r, "next")
      BY <3>1, GotoMoves
    <3>2. ASSUME NEW pick, req' = [req EXCEPT ![r].pc = "suggest", ![r].pick = pick],
                 Leave(r, "suggest")
          PROVE  req'[r].pc = "suggest" /\ MovesOnly(r)
      BY <1>0, <3>2 DEF MovesOnly, TypeInv, TypeOK, ReqState
    <3> QED BY <1>5, <3>1, <3>2 DEF SuggestFromHistory
  <2> QED BY <1>5, <2>1 DEF SuggestFromHistory, At, Resting
<1>6. CASE LoadCandidates(r)
  <2>1. req'[r].pc = "next" /\ MovesOnly(r)
    BY <1>0, <1>6 DEF LoadCandidates, MovesOnly, TypeInv, TypeOK, ReqState
  <2> QED BY <1>6, <2>1 DEF LoadCandidates, At, Resting
<1>7. CASE NextCandidate(r)
  <2>1. req'[r].pc = "write" /\ MovesOnly(r)
    BY <1>0, <1>7 DEF NextCandidate, MovesOnly, TypeInv, TypeOK, ReqState
  <2> QED BY <1>7, <2>1 DEF NextCandidate, At, Resting
<1>8. CASE \/ FindStatement(r) \/ CreateStatement(r) \/ BulkCreate(r) \/ UpdateLastPeriod(r)
           \/ WriteRule(r) \/ SetRuleId(r) \/ WriteSuggestion(r) \/ SetSuggested(r)
           \/ FinishRows(r) \/ PatchTransaction(r) \/ ApproveSuggestion(r)
  <2>1. PICK to \in PC \ {"insert"} : Goto(r, to)
    BY <1>8 DEF FindStatement, CreateStatement, BulkCreate, UpdateLastPeriod, WriteRule,
                SetRuleId, WriteSuggestion, SetSuggested, FinishRows, PatchTransaction,
                ApproveSuggestion, Refused, PC, Resting
  <2>2. req[r].pc \notin Resting /\ turn \in {None, r}
    BY <1>8 DEF FindStatement, CreateStatement, BulkCreate, UpdateLastPeriod, WriteRule,
                SetRuleId, WriteSuggestion, SetSuggested, FinishRows, PatchTransaction,
                ApproveSuggestion, At, Resting
  <2> QED BY <2>1, <2>2, GotoMoves
<1> QED BY <1>1, <1>2, <1>3, <1>4, <1>5, <1>6, <1>7, <1>8 DEF Continue

LEMMA BeginMoves ==
  ASSUME TypeInv, NEW r \in Request, NEW op, NEW to, NEW locals,
         DOMAIN locals = DOMAIN IdleReq, Begin(r, op, to, locals)
  PROVE  /\ MovesOnly(r) /\ UNCHANGED Tables
         /\ turn = None /\ req[r].pc \in Resting
         /\ Leave(r, req'[r].pc)
         /\ req'[r].pc = to
         /\ req'[r].op = op
<1> DEFINE q == [locals EXCEPT !.op = op, !.pc = to]
<1>1. q.pc = to /\ q.op = op
  BY DEF IdleReq
<1>2. req' = [req EXCEPT ![r] = IF to \in Resting THEN Answered(q, to) ELSE q]
  BY DEF Begin
<1> HIDE DEF q
<1>3. MovesOnly(r)
  BY <1>2 DEF MovesOnly, TypeInv, TypeOK
<1>4. req'[r].pc = to /\ req'[r].op = op
  BY <1>1, <1>2, AnsweredFields DEF TypeInv, TypeOK
<1> QED BY <1>3, <1>4 DEF Begin, Resting

Moved(r) ==
  /\ MovesOnly(r) /\ UNCHANGED Tables
  /\ turn = None
  /\ Leave(r, req'[r].pc)
  /\ req'[r].pc \in {"statement", "insert", "applyLoad", "patch", "approve", "failed"}
  /\ req'[r].pc = "insert" => req'[r].op # "import"

LEMMA ArriveMoves ==
  ASSUME TypeInv, NEW r \in Request, Arrive(r)
  PROVE  Moved(r)
<1>1. ASSUME NEW a, NEW p, NEW f, NEW parser, BeginImport(r, a, p, f, parser)
      PROVE  Moved(r)
  <2> DEFINE flip == accounts[a].kind = "credit_card" /\ parser = "template"
             amount(l) == IF flip THEN -f[l].amount ELSE f[l].amount
             rows == [l \in DOMAIN f |-> [desc |-> f[l].desc, amount |-> amount(l),
                                          hash |-> HashOf(a, f[l].desc, amount(l))]]
             locals == [IdleReq EXCEPT !.account = a, !.period = p, !.last = accounts[a].last,
                                       !.rows = rows]
             to == IF accounts[a].live THEN "statement" ELSE "failed"
  <2>1. DOMAIN locals = DOMAIN IdleReq /\ Begin(r, "import", to, locals)
    BY <1>1 DEF BeginImport
  <2> HIDE DEF locals
  <2> QED BY <2>1, BeginMoves DEF Moved
<1>2. ASSUME NEW q, NEW keep, BeginResolve(r, q, keep)
      PROVE  Moved(r)
  <2> DEFINE locals == [IdleReq EXCEPT !.account = req[q].account, !.period = req[q].period,
                                       !.rows = Restricted(req[q].held, keep)]
             to == IF <<req[q].account, req[q].period>> \in statements THEN "insert" ELSE "failed"
  <2>1. DOMAIN locals = DOMAIN IdleReq /\ Begin(r, "resolve", to, locals)
    BY <1>2 DEF BeginResolve
  <2> HIDE DEF locals
  <2> QED BY <2>1, BeginMoves DEF Moved
<1>3. ASSUME NEW u, BeginApply(r, u)
      PROVE  Moved(r)
  <2> DEFINE locals == [IdleReq EXCEPT !.pick = IF RuleLive(u) THEN PickOf(u) ELSE None]
             to == IF RuleLive(u) THEN "applyLoad" ELSE "failed"
  <2>1. DOMAIN locals = DOMAIN IdleReq /\ Begin(r, "apply", to, locals)
    BY <1>3 DEF BeginApply
  <2> HIDE DEF locals
  <2> QED BY <2>1, BeginMoves DEF Moved
<1>4. ASSUME NEW i, NEW form, BeginPatch(r, i, form)
      PROVE  Moved(r)
  <2> DEFINE locals == [IdleReq EXCEPT !.cur = IF i \in DOMAIN txs THEN SnapshotOf(i) ELSE None,
                                       !.form = form]
             to == IF i \in DOMAIN txs THEN "patch" ELSE "failed"
  <2>1. DOMAIN locals = DOMAIN IdleReq /\ Begin(r, "patch", to, locals)
    BY <1>4 DEF BeginPatch
  <2> HIDE DEF locals
  <2> QED BY <2>1, BeginMoves DEF Moved
<1>5. ASSUME NEW i, BeginApprove(r, i)
      PROVE  Moved(r)
  <2> DEFINE open == i \in DOMAIN txs /\ txs[i].src = "suggested" /\ txs[i].sugg # None
             locals == [IdleReq EXCEPT !.cur = IF open THEN SnapshotOf(i) ELSE None]
             to == IF open THEN "approve" ELSE "failed"
  <2>1. DOMAIN locals = DOMAIN IdleReq /\ Begin(r, "approve", to, locals)
    BY <1>5 DEF BeginApprove
  <2> HIDE DEF locals
  <2> QED BY <2>1, BeginMoves DEF Moved
<1> QED BY <1>1, <1>2, <1>3, <1>4, <1>5 DEF Arrive

-----------------------------------------------------------------------------
(* SerialInv is inductive.                                                 *)

LEMMA MaintainQuiet ==
  ASSUME TypeInv, OneAtATime, Maintain
  PROVE  \/ UNCHANGED <<req, turn>> /\ \A r \in Request : req[r].pc \in Resting
         \/ \A r \in Request : req'[r].pc \in Resting
<1>1. ASSUME NEW S, Lose(S), \A r \in Request : req[r].pc \notin Resting => r \in S
      PROVE  \A r \in Request : req'[r].pc \in Resting
  BY <1>1, AnsweredFields DEF Lose, Resting
<1>2. Crash \/ (\E row \in RuleRow : RefuseRule(row)) => \A r \in Request : req'[r].pc \in Resting
  BY <1>1 DEF Crash, RefuseRule, Running
<1>3. ASSUME NEW r \in Request, Reject(r)
      PROVE  \A q \in Request : req'[q].pc \in Resting
  <2>1. \A q \in Request : req[q].pc \notin Resting => q = r
    BY <1>3 DEF OneAtATime, Reject, Resting
  <2> QED BY <1>1, <1>3, <2>1 DEF Reject, Running
<1>4. CASE turn = None /\ UNCHANGED <<req, turn>>
  BY <1>4, LedgerAssumption DEF OneAtATime
<1> QED BY <1>2, <1>3, <1>4 DEF Maintain, DeleteTransactions, DeleteAccount, ChangeAccountKind,
           DeleteRule, CreateRule, ChangeRule, DeleteCategory

LEMMA OneAtATimeStep ==
  ASSUME Serial, TypeInv, OneAtATime, [Next]_vars
  PROVE  OneAtATime'
<1>1. CASE Maintain
  BY <1>1, MaintainQuiet DEF OneAtATime
<1>2. ASSUME NEW r \in Request, Arrive(r) PROVE OneAtATime'
  BY <1>2, ArriveMoves, LedgerAssumption DEF OneAtATime, Moved, MovesOnly, Leave
<1>3. ASSUME NEW r \in Request, Continue(r) PROVE OneAtATime'
  <2>1. turn = r
    BY <1>3, ContinueMoves, LedgerAssumption DEF OneAtATime
  <2> QED BY <1>3, <2>1, ContinueMoves DEF OneAtATime, MovesOnly, Leave
<1>4. CASE UNCHANGED vars
  BY <1>4 DEF vars, OneAtATime
<1> QED BY <1>1, <1>2, <1>3, <1>4 DEF Next

LEMMA FreshRowsStep ==
  ASSUME Serial, TypeInv, OneAtATime, FreshRows, [Next]_vars
  PROVE  FreshRows'
<1>1. CASE Maintain
  BY <1>1, MaintainQuiet DEF FreshRows, Resting
<1>2. ASSUME NEW r \in Request, Arrive(r) PROVE FreshRows'
  <2>1. \A q \in Request : req[q].pc \in Resting
    BY <1>2, ArriveMoves, LedgerAssumption DEF OneAtATime, Moved
  <2> QED BY <1>2, <2>1, ArriveMoves DEF Moved, FreshRows, MovesOnly, Resting
<1>3. ASSUME NEW r \in Request, Continue(r) PROVE FreshRows'
  <2>1. \A q \in Request : q # r => req'[q].pc \in Resting
    BY <1>3, ContinueMoves, LedgerAssumption DEF OneAtATime, MovesOnly
  <2>2. ASSUME req'[r].pc = "insert"
        PROVE  /\ UNCHANGED txs /\ req'[r].account = req[r].account
               /\ \A l \in DOMAIN req'[r].rows :
                    req'[r].rows[l].hash \notin HashesOf(req[r].account)
    <3> DEFINE rows  == req[r].rows
               known == {l \in DOMAIN rows : rows[l].hash \in HashesOf(req[r].account)}
    <3>1. FindExistingHashes(r)
      BY <1>3, <2>2, ContinueMoves
    <3>2. /\ req'[r].rows = Restricted(rows, DOMAIN rows \ known)
          /\ req'[r].account = req[r].account
          /\ UNCHANGED txs
      BY <3>1, ReqOK DEF FindExistingHashes, TypeInv, TypeOK, Tables, ReqState
    <3> QED BY <3>2 DEF Restricted
  <2> QED BY <2>1, <2>2 DEF FreshRows, Resting, HashesOf
<1>4. CASE UNCHANGED vars
  BY <1>4 DEF vars, FreshRows, HashesOf
<1> QED BY <1>1, <1>2, <1>3, <1>4 DEF Next

-----------------------------------------------------------------------------
(* Every step of a handler is a step of the book, or leaves it alone.      *)

BookRow(row) == [account |-> row.account, hash |-> row.hash,
                 origin |-> row.origin, edited |-> row.edited]

BookOf == [i \in DOMAIN txs |-> BookRow(txs[i])]

BookNext == Book!Next \/ BookOf' = BookOf

\* An update that leaves account, hash and history alone is no step of the book.
LEMMA UpdateQuiet ==
  ASSUME NEW i, NEW row, Update(i, row) \/ UNCHANGED txs,
         i \in DOMAIN txs => BookRow(row) = BookRow(txs[i])
  PROVE  BookOf' = BookOf
<1>1. CASE UNCHANGED txs
  BY <1>1 DEF BookOf
<1>2. CASE Update(i, row)
  <2>1. /\ DOMAIN txs' = DOMAIN txs
        /\ \A j \in DOMAIN txs : BookRow(txs'[j]) = BookRow(txs[j])
    BY <1>2 DEF Update
  <2> QED BY <2>1 DEF BookOf
<1> QED BY <1>1, <1>2

LEMMA BookFrame ==
  ASSUME DOMAIN txs' = DOMAIN txs, \A j \in DOMAIN txs : BookRow(txs'[j]) = BookRow(txs[j])
  PROVE  BookOf' = BookOf
BY DEF BookOf

LEMMA RemoveStep ==
  ASSUME NEW S \in SUBSET DOMAIN txs, txs' = Restricted(txs, DOMAIN txs \ S)
  PROVE  BookNext
<1>1. Book!Remove(S)
  BY DEF Book!Remove, BookOf, BookRow, Restricted
<1>2. S \in SUBSET DOMAIN BookOf
  BY DEF BookOf
<1> QED BY <1>1, <1>2 DEF BookNext, Book!Next, BookOf, BookRow

LEMMA KnownHashes == ASSUME NEW a PROVE Book!Known(a) = HashesOf(a)
BY DEF Book!Known, HashesOf

LEMMA EnterStep ==
  ASSUME NEW r \in Request, NEW a \in Account, NEW L \in SUBSET Line, NEW hash \in [L -> Hash],
         Book!ImportFile(r, a, hash) \/ Book!KeepDuplicates(r, a, hash)
  PROVE  BookNext
BY Zenon DEF BookNext, Book!Next

LEMMA EditStep ==
  ASSUME NEW i \in DOMAIN txs, NEW h \in Hash, Book!Edit(i, h)
  PROVE  BookNext
BY DEF BookNext, Book!Next

LEMMA NewBookRow ==
  ASSUME NEW a, NEW p, NEW d, NEW op
  PROVE  BookRow(NewRow(a, p, d, op)) =
           [account |-> a, hash |-> d.hash, origin |-> op, edited |-> FALSE]
BY DEF BookRow, NewRow

LEMMA ImportStep ==
  ASSUME SerialInv, NEW r \in Request, BulkCreate(r)
  PROVE  BookNext
<1> DEFINE a == req[r].account
           p == req[r].period
           rows == req[r].rows
           hash == [l \in DOMAIN rows |-> rows[l].hash]
           op == req[r].op
           new == [i \in {<<r, l>> : l \in DOMAIN rows} |-> NewRow(a, p, rows[i[2]], op)]
<1>0. req[r].pc = "insert" /\ req[r] \in ReqState /\ Shape(req[r])
  BY ReqOK DEF BulkCreate, At, SerialInv
<1>1. a \in Account /\ op \in {"import", "resolve"}
  BY <1>0 DEF Shape
<1>2. DOMAIN rows \subseteq Line /\ rows \in [DOMAIN rows -> Data]
  BY <1>0, BatchDef DEF ReqState
<1>3. hash \in [DOMAIN rows -> Hash]
  BY <1>2 DEF Data
<1>4. CASE UNCHANGED txs
  BY <1>4 DEF BookNext, BookOf
<1>5. CASE txs' = Extend(txs, new)
  <2>1. DOMAIN new = {<<r, l>> : l \in DOMAIN hash}
    OBVIOUS
  <2>2. ASSUME NEW i \in DOMAIN new
        PROVE  BookRow(new[i]) =
                 [account |-> a, hash |-> hash[i[2]], origin |-> op, edited |-> FALSE]
    <3>1. i[2] \in DOMAIN rows /\ new[i] = NewRow(a, p, rows[i[2]], op)
      OBVIOUS
    <3>2. hash[i[2]] = rows[i[2]].hash
      BY <3>1
    <3> HIDE DEF new, hash
    <3>3. BookRow(NewRow(a, p, rows[i[2]], op)) =
            [account |-> a, hash |-> rows[i[2]].hash, origin |-> op, edited |-> FALSE]
      BY NewBookRow
    <3> QED BY <3>1, <3>2, <3>3
  <2> HIDE DEF new
  <2>3. ASSUME NEW o, o = op
        PROVE  Book!Enter(r, a, hash, o)
    <3>1. DOMAIN txs' = DOMAIN txs \cup DOMAIN new
      BY <1>5 DEF Extend
    <3>2. \A i \in DOMAIN txs : txs'[i] = txs[i]
      BY <1>5 DEF Extend
    <3>3. \A i \in DOMAIN new \ DOMAIN txs : txs'[i] = new[i]
      BY <1>5 DEF Extend
    <3>4. \A i \in DOMAIN txs' : BookRow(txs'[i]) =
            IF i \in DOMAIN txs THEN BookRow(txs[i])
            ELSE [account |-> a, hash |-> hash[i[2]], origin |-> o, edited |-> FALSE]
      BY <2>2, <2>3, <3>1, <3>2, <3>3
    <3> QED BY <2>1, <3>1, <3>4 DEF Book!Enter, BookRow
  <2>4. CASE op = "import"
    <3>1. \A l \in DOMAIN hash : hash[l] \notin Book!Known(a)
      BY <1>0, <2>4, KnownHashes DEF SerialInv, FreshRows
    <3> HIDE DEF hash, a
    <3>2. Book!ImportFile(r, a, hash)
      BY <2>3, <2>4, <3>1 DEF Book!ImportFile
    <3> QED BY <1>1, <1>2, <1>3, <3>2, EnterStep
  <2>5. CASE op = "resolve"
    <3> HIDE DEF hash, a
    <3>1. Book!KeepDuplicates(r, a, hash)
      BY <2>3, <2>5 DEF Book!KeepDuplicates
    <3> QED BY <1>1, <1>2, <1>3, <3>1, EnterStep
  <2> QED BY <1>1, <2>4, <2>5
<1> QED BY <1>4, <1>5 DEF BulkCreate

LEMMA BookRowEdit ==
  ASSUME NEW row, NEW h, NEW e
  PROVE  [BookRow(row) EXCEPT !.hash = h, !.edited = e] =
           [account |-> row.account, hash |-> h, origin |-> row.origin, edited |-> e]
<1> DEFINE mid == [account |-> row.account, hash |-> h, origin |-> row.origin,
                   edited |-> row.edited]
<1>1. [BookRow(row) EXCEPT !.hash = h] = mid
  BY DEF BookRow
<1>2. [mid EXCEPT !.edited = e] =
        [account |-> row.account, hash |-> h, origin |-> row.origin, edited |-> e]
  OBVIOUS
<1> HIDE DEF mid
<1> QED BY <1>1, <1>2

LEMMA PatchStep ==
  ASSUME TypeInv, NEW r \in Request, PatchTransaction(r)
  PROVE  BookNext
<1> DEFINE i == req[r].cur.id
           f == req[r].form
           hashed == f.desc # None \/ f.amount # None
           hash == HashOf(req[r].cur.account, Given(f.desc, req[r].cur.desc),
                          Given(f.amount, req[r].cur.amount))
           d == Given(f.desc, txs[i].desc)
           m == Given(f.amount, txs[i].amount)
           h == IF hashed THEN hash ELSE txs[i].hash
           e == txs[i].edited \/ hashed
           c == Given(f.cat, txs[i].cat)
           s == IF f.cat # None THEN "manual" ELSE txs[i].src
           t == IF f.tax THEN "user" ELSE txs[i].tax
           row == [txs[i] EXCEPT !.desc = d, !.amount = m, !.hash = h, !.edited = e,
                                 !.cat = c, !.src = s, !.tax = t]
<1>0. Update(i, row) \/ UNCHANGED txs
  BY DEF PatchTransaction
<1>1. req[r].form \in Form /\ req[r].cur \in Snapshot
  BY ReqOK DEF PatchTransaction, At, Shape
<1>2. hash \in Hash
  BY <1>1, LedgerAssumption DEF Hash, Form, Snapshot, Given
<1> HIDE DEF c, d, m, s, t, hash
<1>3. ASSUME i \in DOMAIN txs
      PROVE  BookRow(row) = [BookRow(txs[i]) EXCEPT !.hash = h, !.edited = e]
  <2>1. txs[i] \in Row
    BY <1>3 DEF TypeInv, TypeOK
  <2> HIDE DEF i, h, e
  <2>2. /\ row.account = txs[i].account /\ row.origin = txs[i].origin
        /\ row.hash = h /\ row.edited = e
    BY <2>1 DEF Row
  <2> HIDE DEF row
  <2>3. BookRow(row) = [account |-> txs[i].account, hash |-> h,
                        origin |-> txs[i].origin, edited |-> e]
    BY <2>2 DEF BookRow
  <2>4. [BookRow(txs[i]) EXCEPT !.hash = h, !.edited = e] =
          [account |-> txs[i].account, hash |-> h, origin |-> txs[i].origin, edited |-> e]
    BY BookRowEdit
  <2> QED BY <2>3, <2>4
<1>4. CASE i \in DOMAIN txs /\ Update(i, row) /\ hashed
  <2> HIDE DEF row
  <2>1. /\ DOMAIN txs' = DOMAIN txs
        /\ \A j \in DOMAIN txs : j # i => txs'[j] = txs[j]
        /\ txs'[i] = row
    BY <1>4 DEF Update
  <2>2. BookRow(txs'[i]) = [BookRow(txs[i]) EXCEPT !.hash = hash, !.edited = TRUE]
    BY <1>3, <1>4, <2>1
  <2> HIDE DEF i
  <2>3. ASSUME NEW j \in DOMAIN txs, j = i, NEW g \in Hash, g = hash
        PROVE  Book!Edit(j, g)
    <3>1. [x \in DOMAIN txs' |-> BookRow(txs'[x])] =
            [[x \in DOMAIN txs |-> BookRow(txs[x])] EXCEPT
               ![j] = [BookRow(txs[j]) EXCEPT !.hash = g, !.edited = TRUE]]
      BY <2>1, <2>2, <2>3
    <3> QED BY <2>3, <3>1 DEF Book!Edit, BookRow
  <2> QED BY <1>2, <1>4, <2>3, EditStep
<1>5. CASE i \notin DOMAIN txs \/ UNCHANGED txs \/ ~hashed
  <2>1. ASSUME i \in DOMAIN txs, ~hashed
        PROVE  BookRow(row) = BookRow(txs[i])
    <3>1. txs[i] \in Row
      BY <2>1 DEF TypeInv, TypeOK
    <3>2. h = txs[i].hash /\ e = txs[i].edited
      BY <2>1, <3>1 DEF Row
    <3> HIDE DEF i, h, e
    <3> QED BY <3>1, <3>2 DEF BookRow, Row
  <2>2. BookOf' = BookOf
    <3> HIDE DEF row, hashed, i
    <3> QED BY <1>0, <1>5, <2>1, UpdateQuiet DEF Update, BookOf
  <2> QED BY <2>2 DEF BookNext
<1> QED BY <1>0, <1>4, <1>5

LEMMA OtherRowSteps ==
  ASSUME TypeInv, NEW r \in Request,
         WriteRule(r) \/ SetRuleId(r) \/ WriteSuggestion(r) \/ SetSuggested(r) \/ ApproveSuggestion(r)
  PROVE  BookOf' = BookOf
<1> DEFINE i == req[r].cur.id
           k == req[r].pick
           tax == IF k.tax /\ req[r].cur.tax = None THEN "rule" ELSE txs[i].tax
           done(row) == Update(i, row) \/ UNCHANGED txs
<1>0. \A j \in DOMAIN txs : txs[j] \in Row
  BY DEF TypeInv, TypeOK
<1>1. \/ done([txs[i] EXCEPT !.cat = k.cat, !.src = "rule", !.tax = tax])
      \/ done([txs[i] EXCEPT !.rule = k.rule])
      \/ done([txs[i] EXCEPT !.cat = None, !.src = "suggested"])
      \/ done([txs[i] EXCEPT !.sugg = k.cat])
      \/ done([txs[i] EXCEPT !.cat = req[r].cur.sugg, !.src = "manual"])
  BY DEF WriteRule, SetRuleId, WriteSuggestion, SetSuggested, ApproveSuggestion
<1> HIDE DEF i, k, tax, done
<1>2. ASSUME NEW c, NEW s, NEW t, done([txs[i] EXCEPT !.cat = c, !.src = s, !.tax = t])
      PROVE  BookOf' = BookOf
  <2> DEFINE row == [txs[i] EXCEPT !.cat = c, !.src = s, !.tax = t]
  <2>0. i \in DOMAIN txs => /\ row.account = txs[i].account /\ row.hash = txs[i].hash
                            /\ row.origin = txs[i].origin /\ row.edited = txs[i].edited
    BY <1>0 DEF Row
  <2> HIDE DEF row
  <2>1. \A j \in DOMAIN txs : BookRow(txs'[j]) = BookRow(txs[j])
    <3>1. Update(i, row) \/ UNCHANGED txs
      BY <1>2 DEF done, row
    <3> QED BY <2>0, <3>1 DEF Update, BookRow
  <2> QED BY <1>2, <2>1, BookFrame DEF done, Update
<1>3. ASSUME NEW c, NEW s, done([txs[i] EXCEPT !.cat = c, !.src = s])
      PROVE  BookOf' = BookOf
  <2> DEFINE row == [txs[i] EXCEPT !.cat = c, !.src = s]
  <2>0. i \in DOMAIN txs => /\ row.account = txs[i].account /\ row.hash = txs[i].hash
                            /\ row.origin = txs[i].origin /\ row.edited = txs[i].edited
    BY <1>0 DEF Row
  <2> HIDE DEF row
  <2>1. \A j \in DOMAIN txs : BookRow(txs'[j]) = BookRow(txs[j])
    <3>1. Update(i, row) \/ UNCHANGED txs
      BY <1>3 DEF done, row
    <3> QED BY <2>0, <3>1 DEF Update, BookRow
  <2> QED BY <1>3, <2>1, BookFrame DEF done, Update
<1>4. ASSUME NEW u, done([txs[i] EXCEPT !.rule = u])
      PROVE  BookOf' = BookOf
  <2>1. \A j \in DOMAIN txs : BookRow(txs'[j]) = BookRow(txs[j])
    BY <1>0, <1>4 DEF done, Update, BookRow, Row
  <2> QED BY <1>4, <2>1, BookFrame DEF done, Update
<1>5. ASSUME NEW g, done([txs[i] EXCEPT !.sugg = g])
      PROVE  BookOf' = BookOf
  <2>1. \A j \in DOMAIN txs : BookRow(txs'[j]) = BookRow(txs[j])
    BY <1>0, <1>5 DEF done, Update, BookRow, Row
  <2> QED BY <1>5, <2>1, BookFrame DEF done, Update
<1> QED BY <1>1, <1>2, <1>3, <1>4, <1>5

LEMMA ContinueStep ==
  ASSUME SerialInv, NEW r \in Request, Continue(r)
  PROVE  BookNext
<1>1. CASE BulkCreate(r)
  BY <1>1, ImportStep
<1>2. CASE PatchTransaction(r)
  BY <1>2, PatchStep DEF SerialInv
<1>3. CASE WriteRule(r) \/ SetRuleId(r) \/ WriteSuggestion(r) \/ SetSuggested(r)
           \/ ApproveSuggestion(r)
  BY <1>3, OtherRowSteps DEF BookNext, SerialInv
<1>4. CASE UNCHANGED txs
  BY <1>4 DEF BookNext, BookOf
<1> QED BY <1>1, <1>2, <1>3, <1>4
        DEF Continue, FindStatement, CreateStatement, FindExistingHashes, UpdateLastPeriod,
            LoadStatement, ReviewPending, FindRule, SuggestFromHistory, FinishRows,
            LoadCandidates, NextCandidate, Tables

LEMMA MaintainStep ==
  ASSUME TypeInv, Maintain
  PROVE  BookNext
<1>0. txs \in [DOMAIN txs -> Row]
  BY DEF TypeInv, TypeOK
<1>1. ASSUME NEW ids \in SUBSET DOMAIN txs, DeleteTransactions(ids) PROVE BookNext
  BY <1>1, RemoveStep DEF DeleteTransactions
<1>2. ASSUME NEW a \in Account, DeleteAccount(a) PROVE BookNext
  <2> DEFINE S == {i \in DOMAIN txs : txs[i].account = a}
  <2>1. txs' = Restricted(txs, {i \in DOMAIN txs : txs[i].account # a})
    BY <1>2 DEF DeleteAccount
  <2>2. {i \in DOMAIN txs : txs[i].account # a} = DOMAIN txs \ S
    OBVIOUS
  <2> HIDE DEF S
  <2>3. S \in SUBSET DOMAIN txs /\ txs' = Restricted(txs, DOMAIN txs \ S)
    BY <2>1, <2>2 DEF S
  <2> QED BY <2>3, RemoveStep
<1>3. ASSUME NEW cats, NEW dead, txs' = [i \in DOMAIN txs |-> ForgetRefs(txs[i], cats, dead)]
      PROVE  BookNext
  <2>1. ASSUME NEW i \in DOMAIN txs PROVE BookRow(txs'[i]) = BookRow(txs[i])
    <3>1. txs'[i] = ForgetRefs(txs[i], cats, dead)
      BY <1>3
    <3> QED BY <3>1 DEF ForgetRefs, BookRow
  <2> QED BY <1>3, <2>1, BookFrame DEF BookNext
<1>4. CASE UNCHANGED txs
  BY <1>4 DEF BookNext, BookOf
<1>5. ASSUME NEW u, DeleteRule(u) PROVE BookNext
  BY <1>3, <1>5 DEF DeleteRule
<1>6. ASSUME NEW c, DeleteCategory(c) PROVE BookNext
  BY <1>3, <1>6 DEF DeleteCategory
<1>7. ASSUME NEW x, NEW y, ChangeAccountKind(x, y) \/ CreateRule(x, y) \/ ChangeRule(x, y)
      PROVE  UNCHANGED txs
  BY <1>7 DEF ChangeAccountKind, CreateRule, ChangeRule
<1>8. ASSUME NEW S, Lose(S) PROVE UNCHANGED txs
  BY <1>8 DEF Lose, Tables
<1> QED BY <1>1, <1>2, <1>4, <1>5, <1>6, <1>7, <1>8 DEF Maintain, Crash, Reject, RefuseRule

-----------------------------------------------------------------------------

LEMMA SerialCorrect == ASSUME Serial PROVE Spec => []SerialInv
<1>1. Init => SerialInv
  <2> SUFFICES ASSUME Init PROVE SerialInv
    OBVIOUS
  <2>1. \A r \in Request : req[r].pc = "idle"
    BY DEF Init, IdleReq
  <2> QED BY <2>1, InitType DEF SerialInv, OneAtATime, FreshRows, Resting
<1>2. SerialInv /\ [Next]_vars => SerialInv'
  BY NextType, OneAtATimeStep, FreshRowsStep DEF SerialInv
<1> QED BY <1>1, <1>2, PTL DEF Spec

(* On SQLite the handlers implement the atomic import, statement by statement. *)
THEOREM SerialImplementsBook == ASSUME Serial PROVE Spec => ImplementsBook
<1>1. Init => Book!Init
  BY DEF Init, Book!Init
<1>2. SerialInv /\ [Next]_vars => BookNext
  <2> SUFFICES ASSUME SerialInv, [Next]_vars PROVE BookNext
    OBVIOUS
  <2>1. CASE Maintain
    BY <2>1, MaintainStep DEF SerialInv
  <2>2. ASSUME NEW r \in Request, Arrive(r) PROVE BookNext
    BY <2>2, ArriveMoves DEF Moved, Tables, BookNext, BookOf, SerialInv
  <2>3. ASSUME NEW r \in Request, Continue(r) PROVE BookNext
    BY <2>3, ContinueStep
  <2>4. CASE UNCHANGED vars
    BY <2>4 DEF vars, BookNext, BookOf
  <2> QED BY <2>1, <2>2, <2>3, <2>4 DEF Next
<1>3. SerialInv /\ [Next]_vars => [Book!Next]_BookOf
  BY <1>2 DEF BookNext
<1> QED BY <1>1, <1>3, SerialCorrect, PTL DEF Spec, ImplementsBook, Book!Spec, BookOf, BookRow

(* What an atomic import promises, of the book that the ledger keeps.       *)
Promise == INSTANCE ImportBook WITH book <- BookOf

PromiseTyped == BookOf \in [DOMAIN BookOf -> Promise!Entry]

LEMMA PromiseTypedStep == PromiseTyped /\ [Promise!Next]_BookOf => PromiseTyped'
<1> SUFFICES ASSUME PromiseTyped, [Promise!Next]_BookOf PROVE PromiseTyped'
  OBVIOUS
<1>1. ASSUME NEW r \in Request, NEW a \in Account, NEW L \in SUBSET Line,
             NEW hash \in [L -> Hash], Promise!ImportFile(r, a, hash) \/ Promise!KeepDuplicates(r, a, hash)
      PROVE  PromiseTyped'
  <2>1. PICK origin \in {"import", "resolve"} : Promise!Enter(r, a, hash, origin)
    BY <1>1 DEF Promise!ImportFile, Promise!KeepDuplicates
  <2> DEFINE new == {<<r, l>> : l \in L}
  <2>2. BookOf' = [i \in DOMAIN BookOf \cup new |->
                   IF i \in DOMAIN BookOf THEN BookOf[i]
                   ELSE [account |-> a, hash |-> hash[i[2]], origin |-> origin, edited |-> FALSE]]
    BY <2>1 DEF Promise!Enter
  <2>3. \A i \in new : i[2] \in L
    OBVIOUS
  <2> HIDE DEF new
  <2>4. ASSUME NEW i \in DOMAIN BookOf \cup new PROVE BookOf'[i] \in Promise!Entry
    <3>1. CASE i \in DOMAIN BookOf
      BY <2>2, <3>1 DEF PromiseTyped
    <3>2. CASE i \notin DOMAIN BookOf
      <4>1. hash[i[2]] \in Hash
        BY <2>3, <2>4, <3>2
      <4>2. BookOf'[i] = [account |-> a, hash |-> hash[i[2]], origin |-> origin, edited |-> FALSE]
        BY <2>2, <2>4, <3>2
      <4> QED BY <4>1, <4>2 DEF Promise!Entry
    <3> QED BY <3>1, <3>2
  <2>5. DOMAIN BookOf' = DOMAIN BookOf \cup new
    BY <2>2
  <2> DEFINE S == DOMAIN BookOf \cup new
  <2>6. BookOf' \in [S -> Promise!Entry]
    <3> HIDE DEF new
    <3>1. \A i \in S : BookOf'[i] \in Promise!Entry
      BY <2>4
    <3> DEFINE e(i) == IF i \in DOMAIN BookOf THEN BookOf[i]
                       ELSE [account |-> a, hash |-> hash[i[2]], origin |-> origin, edited |-> FALSE]
    <3>2. BookOf' = [i \in S |-> e(i)]
      BY <2>2
    <3> HIDE DEF S, e
    <3> QED BY <3>1, <3>2
  <2> QED BY <2>5, <2>6 DEF PromiseTyped
<1>2. ASSUME NEW i \in DOMAIN BookOf, NEW h \in Hash, Promise!Edit(i, h)
      PROVE  PromiseTyped'
  BY <1>2 DEF Promise!Edit, PromiseTyped, Promise!Entry
<1>3. ASSUME NEW S, Promise!Remove(S)
      PROVE  PromiseTyped'
  BY <1>3 DEF Promise!Remove, PromiseTyped
<1>4. CASE UNCHANGED BookOf
  BY <1>4 DEF PromiseTyped
<1> QED BY <1>1, <1>2, <1>3, <1>4 DEF Promise!Next

(* Ids of entries are pairs <<request, line>>: an entry that enters with a  *)
(* known hash comes from a review, or in the file of its twin.              *)
LEMMA EnterKeepsPromise ==
  ASSUME Promise!NoSilentDuplicate, NEW r, NEW a, NEW hash, NEW origin,
         Promise!Enter(r, a, hash, origin),
         origin = "resolve" \/ \A l \in DOMAIN hash : hash[l] \notin Promise!Known(a)
  PROVE  Promise!NoSilentDuplicate'
<1> DEFINE new == {<<r, l>> : l \in DOMAIN hash}
<1>1. /\ DOMAIN BookOf' = DOMAIN BookOf \cup new
      /\ \A i \in DOMAIN BookOf : BookOf'[i] = BookOf[i]
      /\ \A i \in new \ DOMAIN BookOf :
           BookOf'[i] = [account |-> a, hash |-> hash[i[2]], origin |-> origin, edited |-> FALSE]
  BY DEF Promise!Enter
<1>2. \A i \in new : i[1] = r /\ i[2] \in DOMAIN hash
  OBVIOUS
<1> HIDE DEF new
<1> SUFFICES ASSUME NEW i \in DOMAIN BookOf', NEW j \in DOMAIN BookOf', i # j,
                    BookOf'[i].account = BookOf'[j].account, BookOf'[i].hash = BookOf'[j].hash
             PROVE  \/ i[1] = j[1]
                    \/ "resolve" \in {BookOf'[i].origin, BookOf'[j].origin}
                    \/ BookOf'[i].edited \/ BookOf'[j].edited
  BY DEF Promise!NoSilentDuplicate
<1>3. CASE i \in DOMAIN BookOf /\ j \in DOMAIN BookOf
  BY <1>1, <1>3 DEF Promise!NoSilentDuplicate
<1>4. CASE i \notin DOMAIN BookOf /\ j \notin DOMAIN BookOf
  BY <1>1, <1>2, <1>4
<1>5. CASE i \in DOMAIN BookOf /\ j \notin DOMAIN BookOf
  BY <1>1, <1>2, <1>5 DEF Promise!Known
<1>6. CASE i \notin DOMAIN BookOf /\ j \in DOMAIN BookOf
  BY <1>1, <1>2, <1>6 DEF Promise!Known
<1> QED BY <1>3, <1>4, <1>5, <1>6

(* The promise of an atomic import, for any number of requests and lines: a  *)
(* known line enters in a file of its own or after a review, never silently. *)
THEOREM NeverSilent == Promise!Spec => []Promise!NoSilentDuplicate
<1>1. Promise!Init => PromiseTyped /\ Promise!NoSilentDuplicate
  BY DEF Promise!Init, PromiseTyped, Promise!NoSilentDuplicate
<1>2. PromiseTyped /\ Promise!NoSilentDuplicate /\ [Promise!Next]_BookOf => PromiseTyped' /\ Promise!NoSilentDuplicate'
  <2> SUFFICES ASSUME PromiseTyped, Promise!NoSilentDuplicate, [Promise!Next]_BookOf PROVE Promise!NoSilentDuplicate'
    BY PromiseTypedStep
  <2>1. ASSUME NEW r \in Request, NEW a \in Account, NEW hash,
               Promise!ImportFile(r, a, hash) \/ Promise!KeepDuplicates(r, a, hash)
        PROVE  Promise!NoSilentDuplicate'
    BY <2>1, EnterKeepsPromise DEF Promise!ImportFile, Promise!KeepDuplicates
  <2>2. ASSUME NEW i \in DOMAIN BookOf, NEW h \in Hash, Promise!Edit(i, h)
        PROVE  Promise!NoSilentDuplicate'
    <3>1. /\ DOMAIN BookOf' = DOMAIN BookOf
          /\ \A j \in DOMAIN BookOf : j # i => BookOf'[j] = BookOf[j]
          /\ BookOf'[i] = [BookOf[i] EXCEPT !.hash = h, !.edited = TRUE]
      BY <2>2 DEF Promise!Edit
    <3>2. BookOf'[i].edited /\ BookOf'[i].account = BookOf[i].account
      BY <3>1 DEF PromiseTyped, Promise!Entry
    <3> QED BY <3>1, <3>2 DEF Promise!NoSilentDuplicate
  <2>3. ASSUME NEW S, Promise!Remove(S)
        PROVE  Promise!NoSilentDuplicate'
    BY <2>3 DEF Promise!Remove, Promise!NoSilentDuplicate
  <2>4. CASE UNCHANGED BookOf
    BY <2>4 DEF Promise!NoSilentDuplicate
  <2> QED BY <2>1, <2>2, <2>3, <2>4 DEF Promise!Next
<1> QED BY <1>1, <1>2, PTL DEF Promise!Spec

(* On SQLite no import duplicates a known line silently: what the atomic     *)
(* import promises holds of the handlers that implement it.                  *)
THEOREM SerialNoSilentDuplicate == ASSUME Serial PROVE Spec => []NoSilentDuplicate
<1>1. Book!Init => Promise!Init
  BY DEF Book!Init, Promise!Init, BookOf, BookRow
<1>2. Book!Next => Promise!Next
  <2>1. ASSUME NEW r, NEW a, NEW hash, NEW origin
        PROVE  Book!Enter(r, a, hash, origin) => Promise!Enter(r, a, hash, origin)
    BY DEF BookOf, BookRow, Book!Enter, Promise!Enter
  <2>2. ASSUME NEW a PROVE Book!Known(a) = Promise!Known(a)
    BY DEF BookOf, BookRow, Book!Known, Promise!Known
  <2>3. ASSUME NEW r, NEW a, NEW hash
        PROVE  /\ Book!ImportFile(r, a, hash) => Promise!ImportFile(r, a, hash)
               /\ Book!KeepDuplicates(r, a, hash) => Promise!KeepDuplicates(r, a, hash)
    BY <2>1, <2>2 DEF Book!ImportFile, Promise!ImportFile, Book!KeepDuplicates, Promise!KeepDuplicates
  <2>4. ASSUME NEW i, NEW h PROVE Book!Edit(i, h) => Promise!Edit(i, h)
    BY DEF BookOf, BookRow, Book!Edit, Promise!Edit
  <2>5. ASSUME NEW S PROVE Book!Remove(S) => Promise!Remove(S)
    BY DEF BookOf, BookRow, Book!Remove, Promise!Remove
  <2>6. DOMAIN BookOf = DOMAIN txs
    BY DEF BookOf
  <2> QED BY <2>3, <2>4, <2>5, <2>6 DEF Book!Next, Promise!Next
<1>3. Promise!NoSilentDuplicate => NoSilentDuplicate
  BY DEF BookOf, BookRow, NoSilentDuplicate, Book!NoSilentDuplicate,
         Promise!NoSilentDuplicate
<1>4. [Book!Next]_BookOf => [Promise!Next]_BookOf
  BY <1>2
<1>5. Book!Spec => Promise!Spec
  BY <1>1, <1>4, PTL DEF Book!Spec, Promise!Spec, BookOf, BookRow
<1> QED BY <1>3, <1>5, SerialImplementsBook, NeverSilent, PTL DEF ImplementsBook

-----------------------------------------------------------------------------
(***************************************************************************)
(* On SQLite the stored hashes stay coherent and what the user has chosen  *)
(* stands, for any rules, forms, requests and interleaved handlers.        *)
(*                                                                         *)
(* Both rest on what a handler remembers of a row being true of the row    *)
(* when it writes: nobody else gets the event loop in between.             *)
(***************************************************************************)

(* Every prepared or held-back line carries the hash of its own fields. *)
HashedRows(a, b) == \A l \in DOMAIN b : b[l].hash = HashOf(a, b[l].desc, b[l].amount)

PreparedHashed ==
  \A r \in Request : req[r].op \in {"import", "resolve"} =>
    HashedRows(req[r].account, req[r].rows) /\ HashedRows(req[r].account, req[r].held)

(* An edit writes to the row that it has read. *)
PatchReads ==
  \A r \in Request : (req[r].pc = "patch" /\ req[r].cur.id \in DOMAIN txs) =>
    req[r].cur = SnapshotOf(req[r].cur.id)

HashInv == SerialInv /\ PreparedHashed /\ PatchReads /\ HashCoherent

(* The user has not chosen what the categorization of a row would overwrite. *)
Untouched(s) ==
  s.id \in DOMAIN txs => /\ txs[s.id].src # "manual"
                         /\ s.tax = None => txs[s.id].tax # "user"

Looping == {"next", "write", "attribute", "history", "suggest", "setSuggested"}

Leaves(r) ==
  /\ req[r].pc \in Looping => \A s \in req[r].todo : Untouched(s)
  /\ req[r].pc \in Looping \ {"next"} => Untouched(req[r].cur)

LeavesTheUser == \A r \in Request : Leaves(r)

UserInv == SerialInv /\ LeavesTheUser

(* What no step may do to a row. *)
Stands(i) ==
  /\ txs[i].src = "manual" => txs'[i].src = "manual"
  /\ txs[i].tax = "user" => txs'[i].tax = "user"

-----------------------------------------------------------------------------
(* A handler that runs is the only one between two statements.             *)

LEMMA OthersRest ==
  ASSUME SerialInv, NEW r \in Request, Continue(r)
  PROVE  \A q \in Request : q # r => req'[q] = req[q] /\ req[q].pc \in Resting
BY ContinueMoves, LedgerAssumption DEF SerialInv, OneAtATime, MovesOnly

LEMMA AllRest ==
  ASSUME SerialInv, NEW r \in Request, Arrive(r)
  PROVE  /\ \A q \in Request : q # r => req'[q] = req[q] /\ req[q].pc \in Resting
         /\ UNCHANGED Tables /\ req[r].pc \in Resting
BY ArriveMoves, LedgerAssumption DEF Moved, SerialInv, OneAtATime, MovesOnly
-----------------------------------------------------------------------------
(* What the user has chosen stands.                                        *)

(* The writes of the categorization, seen at the two columns. *)
LEMMA LoopWrites ==
  ASSUME SerialInv, NEW r \in Request,
         WriteRule(r) \/ SetRuleId(r) \/ WriteSuggestion(r) \/ SetSuggested(r)
  PROVE  /\ DOMAIN txs' = DOMAIN txs
         /\ \A i \in DOMAIN txs :
              /\ i # req[r].cur.id => txs'[i] = txs[i]
              /\ txs'[i].src \in {"rule", "suggested", txs[i].src}
              /\ txs'[i].tax = txs[i].tax
                   \/ (txs'[i].tax = "rule" /\ req[r].pc = "write" /\ req[r].cur.tax = None)
<1> DEFINE i == req[r].cur.id
           k == req[r].pick
           new == k.tax /\ req[r].cur.tax = None
           t == IF new THEN "rule" ELSE txs[i].tax
           done(row) == Update(i, row) \/ UNCHANGED txs
<1>0. \A j \in DOMAIN txs : txs[j] \in Row
  BY DEF SerialInv, TypeInv, TypeOK
<1>1. \/ done([txs[i] EXCEPT !.cat = k.cat, !.src = "rule", !.tax = t]) /\ req[r].pc = "write"
      \/ done([txs[i] EXCEPT !.rule = k.rule])
      \/ done([txs[i] EXCEPT !.cat = None, !.src = "suggested"])
      \/ done([txs[i] EXCEPT !.sugg = k.cat])
  BY DEF WriteRule, SetRuleId, WriteSuggestion, SetSuggested, At
<1>2. ASSUME NEW row, done(row),
             i \in DOMAIN txs =>
               /\ row.src \in {"rule", "suggested", txs[i].src}
               /\ row.tax = txs[i].tax
                    \/ (row.tax = "rule" /\ req[r].pc = "write" /\ req[r].cur.tax = None)
      PROVE  /\ DOMAIN txs' = DOMAIN txs
             /\ \A j \in DOMAIN txs :
                  /\ j # i => txs'[j] = txs[j]
                  /\ txs'[j].src \in {"rule", "suggested", txs[j].src}
                  /\ txs'[j].tax = txs[j].tax
                       \/ (txs'[j].tax = "rule" /\ req[r].pc = "write" /\ req[r].cur.tax = None)
  <2> HIDE DEF i
  <2> QED BY <1>2 DEF Update
<1>3. CASE done([txs[i] EXCEPT !.cat = k.cat, !.src = "rule", !.tax = t]) /\ req[r].pc = "write"
  <2> DEFINE row == [txs[i] EXCEPT !.cat = k.cat, !.src = "rule", !.tax = t]
  <2>1. t = txs[i].tax \/ (t = "rule" /\ req[r].cur.tax = None)
    OBVIOUS
  <2>2. i \in DOMAIN txs => row.src = "rule" /\ row.tax = t
    <3> HIDE DEF i, t, k
    <3> QED BY <1>0 DEF Row
  <2>3. done(row)
    BY <1>3
  <2> HIDE DEF row, t, done, i
  <2>4. i \in DOMAIN txs =>
          /\ row.src \in {"rule", "suggested", txs[i].src}
          /\ row.tax = txs[i].tax
               \/ (row.tax = "rule" /\ req[r].pc = "write" /\ req[r].cur.tax = None)
    BY <1>3, <2>1, <2>2
  <2> QED BY <1>2, <2>3, <2>4 DEF i
<1>4. ASSUME NEW row, done(row), i \in DOMAIN txs => row.src = txs[i].src /\ row.tax = txs[i].tax
      PROVE  /\ DOMAIN txs' = DOMAIN txs
             /\ \A j \in DOMAIN txs :
                  /\ j # i => txs'[j] = txs[j]
                  /\ txs'[j].src = txs[j].src /\ txs'[j].tax = txs[j].tax
  <2> HIDE DEF i
  <2> QED BY <1>4 DEF Update
<1>5. CASE done([txs[i] EXCEPT !.rule = k.rule])
  <2> DEFINE row == [txs[i] EXCEPT !.rule = k.rule]
  <2>1. i \in DOMAIN txs => row.src = txs[i].src /\ row.tax = txs[i].tax
    <3> HIDE DEF i, k
    <3> QED BY <1>0 DEF Row
  <2>2. done(row)
    BY <1>5
  <2> HIDE DEF row, i, done
  <2> QED BY <1>4, <2>1, <2>2 DEF i
<1>6. CASE done([txs[i] EXCEPT !.sugg = k.cat])
  <2> DEFINE row == [txs[i] EXCEPT !.sugg = k.cat]
  <2>1. i \in DOMAIN txs => row.src = txs[i].src /\ row.tax = txs[i].tax
    <3> HIDE DEF i, k
    <3> QED BY <1>0 DEF Row
  <2>2. done(row)
    BY <1>6
  <2> HIDE DEF row, i, done
  <2> QED BY <1>4, <2>1, <2>2 DEF i
<1>7. CASE done([txs[i] EXCEPT !.cat = None, !.src = "suggested"])
  <2> DEFINE row == [txs[i] EXCEPT !.cat = None, !.src = "suggested"]
  <2>1. i \in DOMAIN txs => row.src = "suggested" /\ row.tax = txs[i].tax
    <3> HIDE DEF i
    <3> QED BY <1>0 DEF Row
  <2>2. done(row)
    BY <1>7
  <2> HIDE DEF row, i, done
  <2>3. i \in DOMAIN txs => row.src \in {"rule", "suggested", txs[i].src}
    BY <2>1
  <2> QED BY <1>2, <2>1, <2>2, <2>3 DEF i
<1> HIDE DEF i, t, k, done
<1> QED BY <1>1, <1>3, <1>5, <1>6, <1>7 DEF i
LEMMA LoopStands ==
  ASSUME UserInv, NEW r \in Request,
         WriteRule(r) \/ SetRuleId(r) \/ WriteSuggestion(r) \/ SetSuggested(r)
  PROVE  \A i \in DOMAIN txs \cap DOMAIN txs' : Stands(i)
<1>1. req[r].pc \in {"write", "attribute", "suggest", "setSuggested"}
  BY DEF WriteRule, SetRuleId, WriteSuggestion, SetSuggested, At
<1>2. req[r].cur.id \in DOMAIN txs =>
        /\ txs[req[r].cur.id].src # "manual"
        /\ (req[r].pc = "write" /\ req[r].cur.tax = None) => txs[req[r].cur.id].tax # "user"
  BY <1>1 DEF UserInv, LeavesTheUser, Leaves, Looping, Untouched
<1> QED BY <1>2, LoopWrites DEF UserInv, Stands

(* An edit and an approval write "manual" and "user" or leave the column alone. *)
LEMMA EditStands ==
  ASSUME SerialInv, NEW r \in Request, PatchTransaction(r) \/ ApproveSuggestion(r)
  PROVE  \A i \in DOMAIN txs \cap DOMAIN txs' : Stands(i)
<1>0. \A j \in DOMAIN txs : txs[j] \in Row
  BY DEF SerialInv, TypeInv, TypeOK
<1>1. ASSUME NEW i, NEW row, Update(i, row) \/ UNCHANGED txs,
             i \in DOMAIN txs => /\ row.src \in {"manual", txs[i].src}
                                /\ row.tax \in {"user", txs[i].tax}
      PROVE  \A j \in DOMAIN txs \cap DOMAIN txs' : Stands(j)
  BY <1>1 DEF Update, Stands
<1>2. CASE PatchTransaction(r)
  <2> DEFINE f == req[r].form
             i == req[r].cur.id
             hashed == f.desc # None \/ f.amount # None
             hash == HashOf(req[r].cur.account, Given(f.desc, req[r].cur.desc),
                            Given(f.amount, req[r].cur.amount))
             d == Given(f.desc, txs[i].desc)
             m == Given(f.amount, txs[i].amount)
             h == IF hashed THEN hash ELSE txs[i].hash
             e == txs[i].edited \/ hashed
             c == Given(f.cat, txs[i].cat)
             s == IF f.cat # None THEN "manual" ELSE txs[i].src
             t == IF f.tax THEN "user" ELSE txs[i].tax
             row == [txs[i] EXCEPT !.desc = d, !.amount = m, !.hash = h, !.edited = e,
                                   !.cat = c, !.src = s, !.tax = t]
  <2>1. Update(i, row) \/ UNCHANGED txs
    BY <1>2 DEF PatchTransaction
  <2>2. s \in {"manual", txs[i].src} /\ t \in {"user", txs[i].tax}
    OBVIOUS
  <2>3. i \in DOMAIN txs => row.src = s /\ row.tax = t
    <3> HIDE DEF i, d, m, h, e, c, s, t
    <3> QED BY <1>0 DEF Row
  <2> HIDE DEF row, s, t, i
  <2>4. i \in DOMAIN txs => row.src \in {"manual", txs[i].src} /\ row.tax \in {"user", txs[i].tax}
    BY <2>2, <2>3
  <2> QED BY <1>1, <2>1, <2>4
<1>3. CASE ApproveSuggestion(r)
  <2> DEFINE i == req[r].cur.id
             c == req[r].cur.sugg
             row == [txs[i] EXCEPT !.cat = c, !.src = "manual"]
  <2>1. Update(i, row) \/ UNCHANGED txs
    BY <1>3 DEF ApproveSuggestion
  <2>2. i \in DOMAIN txs => row.src = "manual" /\ row.tax = txs[i].tax
    <3> HIDE DEF i, c
    <3> QED BY <1>0 DEF Row
  <2> HIDE DEF row, i
  <2>3. i \in DOMAIN txs => row.src \in {"manual", txs[i].src} /\ row.tax \in {"user", txs[i].tax}
    BY <2>2
  <2> QED BY <1>1, <2>1, <2>3
<1> QED BY <1>2, <1>3

LEMMA MaintainStands ==
  ASSUME SerialInv, Maintain
  PROVE  \A i \in DOMAIN txs \cap DOMAIN txs' : Stands(i)
<1>1. ASSUME NEW S, txs' = Restricted(txs, S)
      PROVE  \A i \in DOMAIN txs \cap DOMAIN txs' : Stands(i)
  BY <1>1 DEF Restricted, Stands
<1>2. ASSUME NEW cats, NEW dead, txs' = [i \in DOMAIN txs |-> ForgetRefs(txs[i], cats, dead)]
      PROVE  \A i \in DOMAIN txs \cap DOMAIN txs' : Stands(i)
  <2>1. ASSUME NEW row \in Row
        PROVE  ForgetRefs(row, cats, dead).src = row.src /\ ForgetRefs(row, cats, dead).tax = row.tax
    BY <2>1 DEF ForgetRefs, Row
  <2>2. \A i \in DOMAIN txs : txs[i] \in Row
    BY DEF SerialInv, TypeInv, TypeOK
  <2> QED BY <1>2, <2>1, <2>2 DEF Stands
<1>3. CASE UNCHANGED txs
  BY <1>3 DEF Stands
<1>4. ASSUME NEW ids, DeleteTransactions(ids) PROVE \E S : txs' = Restricted(txs, S)
  BY <1>4 DEF DeleteTransactions
<1>5. ASSUME NEW a, DeleteAccount(a) PROVE \E S : txs' = Restricted(txs, S)
  BY <1>5 DEF DeleteAccount
<1>6. ASSUME NEW u, DeleteRule(u)
      PROVE  \E cats, dead : txs' = [i \in DOMAIN txs |-> ForgetRefs(txs[i], cats, dead)]
  BY <1>6 DEF DeleteRule
<1>7. ASSUME NEW c, DeleteCategory(c)
      PROVE  \E cats, dead : txs' = [i \in DOMAIN txs |-> ForgetRefs(txs[i], cats, dead)]
  BY <1>7 DEF DeleteCategory
<1>8. ASSUME NEW x, NEW y, ChangeAccountKind(x, y) \/ CreateRule(x, y) \/ ChangeRule(x, y)
      PROVE  UNCHANGED txs
  BY <1>8 DEF ChangeAccountKind, CreateRule, ChangeRule
<1>9. ASSUME NEW S, Lose(S) PROVE UNCHANGED txs
  BY <1>9 DEF Lose, Tables
<1> QED BY <1>1, <1>2, <1>3, <1>4, <1>5, <1>6, <1>7, <1>8, <1>9
        DEF Maintain, Crash, Reject, RefuseRule

LEMMA NextStands ==
  ASSUME UserInv, [Next]_vars
  PROVE  \A i \in DOMAIN txs \cap DOMAIN txs' : Stands(i)
<1>1. CASE Maintain
  BY <1>1, MaintainStands DEF UserInv
<1>2. CASE UNCHANGED txs
  BY <1>2 DEF Stands
<1>3. ASSUME NEW r \in Request, Arrive(r) PROVE UNCHANGED txs
  BY <1>3, AllRest DEF UserInv, Tables
<1>4. ASSUME NEW r \in Request, Continue(r)
      PROVE  \A i \in DOMAIN txs \cap DOMAIN txs' : Stands(i)
  <2>1. CASE WriteRule(r) \/ SetRuleId(r) \/ WriteSuggestion(r) \/ SetSuggested(r)
    BY <2>1, LoopStands
  <2>2. CASE PatchTransaction(r) \/ ApproveSuggestion(r)
    BY <2>2, EditStands DEF UserInv
  <2>3. CASE BulkCreate(r)
    BY <2>3 DEF BulkCreate, Extend, Stands
  <2> QED BY <1>2, <1>4, <2>1, <2>2, <2>3
          DEF Continue, FindStatement, CreateStatement, FindExistingHashes, UpdateLastPeriod,
              LoadStatement, ReviewPending, FindRule, SuggestFromHistory, FinishRows,
              LoadCandidates, NextCandidate, Tables
<1> QED BY <1>1, <1>2, <1>3, <1>4 DEF Next, vars
(* The rows that a loop has still to write are as it remembers them. *)
LEMMA LoopLeaves ==
  ASSUME UserInv, NEW r \in Request,
         WriteRule(r) \/ SetRuleId(r) \/ WriteSuggestion(r) \/ SetSuggested(r)
  PROVE  Leaves(r)'
<1>0. req[r] \in ReqState /\ Leaves(r) /\ req[r].pc \in Looping \ {"next"}
  BY ReqOK DEF UserInv, SerialInv, LeavesTheUser, WriteRule, SetRuleId, WriteSuggestion,
               SetSuggested, At, Looping
<1>1. ASSUME NEW s, Untouched(s) PROVE Untouched(s)'
  <2>1. ASSUME s.id \in DOMAIN txs'
        PROVE  /\ txs'[s.id].src # "manual"
               /\ s.tax = None => txs'[s.id].tax # "user"
    BY <1>1, <2>1, LoopWrites DEF Untouched, UserInv
  <2> QED BY <2>1 DEF Untouched
<1>2. PICK to \in PC : Goto(r, to)
  BY DEF WriteRule, SetRuleId, WriteSuggestion, SetSuggested, Refused, PC, Resting
<1>3. req'[r].pc \in Looping => req'[r].todo = req[r].todo /\ req'[r].cur = req[r].cur
  <2>1. CASE to \in Resting
    BY <1>2, <2>1, GotoMoves DEF UserInv, SerialInv, Looping, Resting
  <2>2. CASE to \notin Resting
    BY <1>0, <1>2, <2>2 DEF Goto, UserInv, SerialInv, TypeInv, TypeOK, ReqState
  <2> QED BY <2>1, <2>2
<1>4. /\ req'[r].pc \in Looping => \A s \in req'[r].todo : Untouched(s)'
      /\ req'[r].pc \in Looping \ {"next"} =>
           \A s : s = req[r].cur => req'[r].cur = s /\ Untouched(s)'
  BY <1>0, <1>1, <1>3 DEF Leaves
<1> QED BY <1>4 DEF Leaves, Untouched
(* The steps that load rows, or take the next one, do not write any. *)
LEMMA PickLeaves ==
  ASSUME UserInv, NEW r \in Request,
         \/ LoadStatement(r) \/ LoadCandidates(r)
         \/ FindRule(r) \/ NextCandidate(r) \/ SuggestFromHistory(r)
  PROVE  Leaves(r)'
<1>0. /\ req[r] \in ReqState /\ Leaves(r) /\ req \in [Request -> ReqState]
      /\ \A i \in DOMAIN txs : txs[i] \in Row
  BY ReqOK DEF UserInv, SerialInv, LeavesTheUser, TypeInv, TypeOK
<1>1. UNCHANGED txs
  BY DEF LoadStatement, LoadCandidates, FindRule, NextCandidate, SuggestFromHistory, Tables
<1>2. \A s : Untouched(s)' <=> Untouched(s)
  BY <1>1 DEF Untouched
<1>3. ASSUME NEW i \in DOMAIN txs, txs[i].src # "manual" PROVE Untouched(SnapshotOf(i))
  BY <1>0, <1>3, LedgerAssumption DEF Untouched, SnapshotOf
<1>4. CASE LoadStatement(r) \/ LoadCandidates(r)
  <2>1. PICK S \in SUBSET DOMAIN txs :
          /\ req' = [req EXCEPT ![r].pc = "next", ![r].todo = {SnapshotOf(i) : i \in S}]
          /\ \A i \in S : txs[i].src # "manual"
    <3>1. CASE LoadStatement(r)
      <4> DEFINE S == {i \in DOMAIN txs : /\ txs[i].account = req[r].account
                                         /\ txs[i].period = req[r].period
                                         /\ txs[i].src # "manual"}
      <4>1. req' = [req EXCEPT ![r].pc = "next", ![r].todo = {SnapshotOf(i) : i \in S}]
        BY <3>1 DEF LoadStatement
      <4>2. S \in SUBSET DOMAIN txs /\ \A i \in S : txs[i].src # "manual"
        OBVIOUS
      <4> HIDE DEF S
      <4> QED BY <4>1, <4>2
    <3>2. CASE LoadCandidates(r)
      <4> DEFINE S == {i \in DOMAIN txs : /\ txs[i].src # "manual"
                                         /\ req[r].pick.scope \in {None, txs[i].account}
                                         /\ Matches(req[r].pick.rule, txs[i].desc, txs[i].amount)}
      <4>1. req' = [req EXCEPT ![r].pc = "next", ![r].todo = {SnapshotOf(i) : i \in S}]
        BY <3>2 DEF LoadCandidates
      <4>2. S \in SUBSET DOMAIN txs /\ \A i \in S : txs[i].src # "manual"
        OBVIOUS
      <4> HIDE DEF S
      <4> QED BY <4>1, <4>2
    <3> QED BY <1>4, <3>1, <3>2
  <2>2. req'[r].pc = "next" /\ req'[r].todo = {SnapshotOf(i) : i \in S}
    BY <1>0, <2>1 DEF ReqState
  <2>3. \A s \in req'[r].todo : Untouched(s)'
    BY <1>2, <1>3, <2>1, <2>2
  <2> QED BY <2>2, <2>3 DEF Leaves, Untouched
<1>5. CASE FindRule(r) \/ NextCandidate(r)
  <2>1. PICK s \in req[r].todo :
          /\ req'[r].todo = req[r].todo \ {s} /\ req'[r].cur = s
          /\ req[r].pc = "next" /\ req'[r].pc \in Looping
    <3>1. CASE FindRule(r)
      <4>1. ASSUME NEW s \in req[r].todo, NEW k,
                   req' = [req EXCEPT ![r].pc = "write", ![r].todo = req[r].todo \ {s},
                                      ![r].cur = s, ![r].pick = k]
            PROVE  /\ req'[r].todo = req[r].todo \ {s} /\ req'[r].cur = s
                   /\ req'[r].pc \in Looping
        BY <1>0, <4>1 DEF Looping, ReqState
      <4>2. ASSUME NEW s \in req[r].todo,
                   req' = [req EXCEPT ![r].pc = "history", ![r].todo = req[r].todo \ {s},
                                      ![r].cur = s]
            PROVE  /\ req'[r].todo = req[r].todo \ {s} /\ req'[r].cur = s
                   /\ req'[r].pc \in Looping
        BY <1>0, <4>2 DEF Looping, ReqState
      <4>3. ASSUME NEW s \in req[r].todo, NEW u,
                   req' = [req EXCEPT ![r].pc = "write", ![r].todo = @ \ {s},
                                      ![r].cur = s, ![r].pick = PickOf(u)]
            PROVE  /\ req'[r].todo = req[r].todo \ {s} /\ req'[r].cur = s
                   /\ req'[r].pc \in Looping
        BY <1>0, <4>1, <4>3
      <4> QED BY <1>0, <3>1, <4>2, <4>3 DEF FindRule, At
    <3>2. CASE NextCandidate(r)
      <4>1. PICK s \in req[r].todo :
              req' = [req EXCEPT ![r].pc = "write", ![r].todo = req[r].todo \ {s}, ![r].cur = s]
        BY <1>0, <3>2 DEF NextCandidate
      <4> QED BY <1>0, <3>2, <4>1 DEF NextCandidate, At, Looping, ReqState
    <3> QED BY <1>5, <3>1, <3>2
  <2>2. \A x \in req[r].todo : Untouched(x)
    BY <1>0, <2>1 DEF Leaves, Looping
  <2>3. (\A x \in req'[r].todo : Untouched(x)') /\ req'[r].cur = s /\ Untouched(s)'
    BY <1>2, <2>1, <2>2
  <2> QED BY <2>3 DEF Leaves, Untouched
<1>6. CASE SuggestFromHistory(r)
  <2>1. req'[r].todo = req[r].todo /\ req'[r].cur = req[r].cur /\ req[r].pc = "history"
    <3>1. CASE Goto(r, "next")
      BY <1>0, <1>6, <3>1 DEF SuggestFromHistory, Goto, At, Resting, ReqState
    <3>2. ASSUME NEW pick, req' = [req EXCEPT ![r].pc = "suggest", ![r].pick = pick]
          PROVE  req'[r].todo = req[r].todo /\ req'[r].cur = req[r].cur
      BY <1>0, <3>2 DEF ReqState
    <3> QED BY <1>6, <3>1, <3>2 DEF SuggestFromHistory, At
  <2>2. (\A x \in req[r].todo : Untouched(x)) /\ Untouched(req[r].cur)
    BY <1>0, <2>1 DEF Leaves, Looping
  <2>3. /\ \A x \in req'[r].todo : Untouched(x)'
        /\ \A s : s = req[r].cur => req'[r].cur = s /\ Untouched(s)'
    BY <1>2, <2>1, <2>2
  <2> QED BY <2>3 DEF Leaves, Untouched
<1> QED BY <1>4, <1>5, <1>6

(* A handler begins before its loop, and the other statements lie outside of it. *)
LEMMA ArriveStart ==
  ASSUME SerialInv, NEW r \in Request, Arrive(r)
  PROVE  req'[r].pc \notin Looping
BY ArriveMoves DEF SerialInv, Moved, Looping

LEMMA NotLooping ==
  ASSUME TypeInv, NEW r \in Request,
         \/ FindStatement(r) \/ CreateStatement(r) \/ FindExistingHashes(r) \/ BulkCreate(r)
         \/ UpdateLastPeriod(r) \/ ReviewPending(r) \/ FinishRows(r)
         \/ PatchTransaction(r) \/ ApproveSuggestion(r)
  PROVE  req'[r].pc \notin Looping
<1>1. CASE \/ FindStatement(r) \/ CreateStatement(r) \/ BulkCreate(r) \/ UpdateLastPeriod(r)
           \/ FinishRows(r) \/ PatchTransaction(r) \/ ApproveSuggestion(r)
  <2>1. PICK to \in PC \ Looping : Goto(r, to)
    BY <1>1 DEF FindStatement, CreateStatement, BulkCreate, UpdateLastPeriod, FinishRows,
                PatchTransaction, ApproveSuggestion, Refused, Looping, PC, Resting
  <2> QED BY <2>1, GotoMoves
<1>2. CASE FindExistingHashes(r)
  BY <1>2, ReqOK DEF FindExistingHashes, TypeInv, TypeOK, ReqState, Looping
<1>3. CASE ReviewPending(r)
  BY <1>3, AnsweredFields DEF ReviewPending, TypeInv, TypeOK, Looping
<1> QED BY <1>1, <1>2, <1>3

LEMMA UserStep ==
  ASSUME Serial, UserInv, [Next]_vars
  PROVE  UserInv'
<1>1. SerialInv'
  BY NextType, OneAtATimeStep, FreshRowsStep DEF UserInv, SerialInv
<1>2. CASE Maintain
  BY <1>1, <1>2, MaintainQuiet DEF UserInv, SerialInv, LeavesTheUser, Leaves, Looping, Resting
<1>3. ASSUME NEW r \in Request, Arrive(r)
      PROVE  LeavesTheUser'
  <2>1. req'[r].pc \notin Looping
    BY <1>3, ArriveStart DEF UserInv, Looping
  <2> QED BY <1>3, <2>1, AllRest DEF UserInv, LeavesTheUser, Leaves, Looping, Resting
<1>4. ASSUME NEW r \in Request, Continue(r)
      PROVE  LeavesTheUser'
  <2>1. \A q \in Request : q # r => req'[q].pc \notin Looping
    BY <1>4, OthersRest DEF UserInv, Looping, Resting
  <2>2. CASE WriteRule(r) \/ SetRuleId(r) \/ WriteSuggestion(r) \/ SetSuggested(r)
    BY <2>1, <2>2, LoopLeaves DEF LeavesTheUser, Leaves, Looping
  <2>3. CASE \/ LoadStatement(r) \/ LoadCandidates(r)
             \/ FindRule(r) \/ NextCandidate(r) \/ SuggestFromHistory(r)
    BY <2>1, <2>3, PickLeaves DEF LeavesTheUser, Leaves, Looping
  <2>4. CASE \/ FindStatement(r) \/ CreateStatement(r) \/ FindExistingHashes(r) \/ BulkCreate(r)
             \/ UpdateLastPeriod(r) \/ ReviewPending(r) \/ FinishRows(r)
             \/ PatchTransaction(r) \/ ApproveSuggestion(r)
    BY <2>1, <2>4, NotLooping DEF UserInv, SerialInv, LeavesTheUser, Leaves, Looping
  <2> QED BY <1>4, <2>2, <2>3, <2>4 DEF Continue
<1>5. ASSUME UNCHANGED vars
      PROVE  LeavesTheUser'
  BY <1>5 DEF vars, UserInv, LeavesTheUser, Leaves, Untouched
<1> QED BY <1>1, <1>2, <1>3, <1>4, <1>5 DEF Next, UserInv

(* On SQLite no step takes a category or a tax text away from the user. *)
THEOREM SerialUserStands == ASSUME Serial PROVE Spec => UserStands
<1>1. Init => UserInv
  <2> SUFFICES ASSUME Init PROVE UserInv
    OBVIOUS
  <2>1. \A r \in Request : req[r].pc = "idle"
    BY DEF Init, IdleReq
  <2> QED BY <2>1, InitType DEF UserInv, SerialInv, OneAtATime, FreshRows, Resting, LeavesTheUser,
                              Leaves, Looping
<1>2. UserInv /\ [Next]_vars => UserInv'
  BY UserStep
<1>3. UserInv /\ [Next]_vars =>
        [\A i \in DOMAIN txs \cap DOMAIN txs' :
           /\ txs[i].src = "manual" => txs'[i].src = "manual"
           /\ txs[i].tax = "user" => txs'[i].tax = "user"]_vars
  BY NextStands DEF Stands
<1> QED BY <1>1, <1>2, <1>3, PTL DEF Spec, UserStands
-----------------------------------------------------------------------------
(* Stored hashes stay coherent.                                            *)

LEMMA NoRowsHashed == ASSUME NEW a PROVE HashedRows(a, NoRows)
BY DEF HashedRows, NoRows

LEMMA RestrictedHashed ==
  ASSUME NEW a, NEW b, HashedRows(a, b), NEW S
  PROVE  HashedRows(a, Restricted(b, S))
BY DEF HashedRows, Restricted

LEMMA AnsweredKeeps ==
  ASSUME NEW q, NEW to
  PROVE  /\ Answered(q, to).account = q.account /\ Answered(q, to).rows = NoRows
         /\ Answered(q, to).held \in {q.held, NoRows}
BY DEF Answered, IdleReq

LEMMA BeginKeeps ==
  ASSUME TypeInv, NEW r \in Request, NEW op, NEW to, NEW locals,
         DOMAIN locals = DOMAIN IdleReq, Begin(r, op, to, locals)
  PROVE  /\ req'[r].account = locals.account
         /\ req'[r].rows \in {locals.rows, NoRows}
         /\ req'[r].held \in {locals.held, NoRows}
         /\ to \notin Resting => req'[r].cur = locals.cur
<1> DEFINE q == [locals EXCEPT !.op = op, !.pc = to]
<1>1. /\ q.account = locals.account /\ q.rows = locals.rows
      /\ q.held = locals.held /\ q.cur = locals.cur
  BY DEF IdleReq
<1>2. req' = [req EXCEPT ![r] = IF to \in Resting THEN Answered(q, to) ELSE q]
  BY DEF Begin
<1> HIDE DEF q
<1> QED BY <1>1, <1>2, AnsweredKeeps DEF TypeInv, TypeOK

LEMMA ArriveHashed ==
  ASSUME HashInv, NEW r \in Request, Arrive(r)
  PROVE  PreparedHashed' /\ PatchReads'
<1> DEFINE Hashed(q) == HashedRows(q.account, q.rows) /\ HashedRows(q.account, q.held)
           Reads(q) == (q.pc = "patch" /\ q.cur.id \in DOMAIN txs) => q.cur = SnapshotOf(q.cur.id)
           Good(q) == (q.op \in {"import", "resolve"} => Hashed(q)) /\ Reads(q)
<1>0. TypeInv
  BY DEF HashInv, SerialInv
<1>1. ASSUME NEW a, NEW p, NEW f, NEW parser, BeginImport(r, a, p, f, parser)
      PROVE  Good(req'[r])
  <2> DEFINE flip == accounts[a].kind = "credit_card" /\ parser = "template"
             amount(l) == IF flip THEN -f[l].amount ELSE f[l].amount
             rows == [l \in DOMAIN f |-> [desc |-> f[l].desc, amount |-> amount(l),
                                          hash |-> HashOf(a, f[l].desc, amount(l))]]
             locals == [IdleReq EXCEPT !.account = a, !.period = p, !.last = accounts[a].last,
                                       !.rows = rows]
             to == IF accounts[a].live THEN "statement" ELSE "failed"
  <2>1. DOMAIN locals = DOMAIN IdleReq /\ Begin(r, "import", to, locals)
    BY <1>1 DEF BeginImport
  <2>2. HashedRows(a, rows)
    <3> HIDE DEF amount
    <3> QED BY DEF HashedRows
  <2>3. locals.account = a /\ locals.rows = rows /\ locals.held = NoRows
    <3> HIDE DEF rows
    <3> QED BY DEF IdleReq
  <2> HIDE DEF locals, rows
  <2>4. Hashed(req'[r])
    BY <1>0, <2>1, <2>2, <2>3, BeginKeeps, NoRowsHashed
  <2>5. req'[r].pc # "patch"
    BY <1>0, <2>1, BeginMoves
  <2> QED BY <2>4, <2>5
<1>2. ASSUME NEW q \in Request, NEW keep, BeginResolve(r, q, keep)
      PROVE  Good(req'[r])
  <2> DEFINE a == req[q].account
             rows == Restricted(req[q].held, keep)
             locals == [IdleReq EXCEPT !.account = a, !.period = req[q].period, !.rows = rows]
             to == IF <<a, req[q].period>> \in statements THEN "insert" ELSE "failed"
  <2>1. DOMAIN locals = DOMAIN IdleReq /\ Begin(r, "resolve", to, locals)
    BY <1>2 DEF BeginResolve
  <2>2. HashedRows(a, rows)
    BY <1>2, RestrictedHashed DEF BeginResolve, HashInv, PreparedHashed
  <2>3. locals.account = a /\ locals.rows = rows /\ locals.held = NoRows
    <3> HIDE DEF rows
    <3> QED BY DEF IdleReq
  <2> HIDE DEF locals, rows, a
  <2>4. Hashed(req'[r])
    BY <1>0, <2>1, <2>2, <2>3, BeginKeeps, NoRowsHashed
  <2>5. req'[r].pc # "patch"
    BY <1>0, <2>1, BeginMoves
  <2> QED BY <2>4, <2>5
<1>3. ASSUME NEW u, BeginApply(r, u)
      PROVE  Good(req'[r])
  <2> DEFINE locals == [IdleReq EXCEPT !.pick = IF RuleLive(u) THEN PickOf(u) ELSE None]
             to == IF RuleLive(u) THEN "applyLoad" ELSE "failed"
  <2>1. DOMAIN locals = DOMAIN IdleReq /\ Begin(r, "apply", to, locals)
    BY <1>3 DEF BeginApply
  <2> HIDE DEF locals
  <2> QED BY <1>0, <2>1, BeginMoves
<1>4. ASSUME NEW i, NEW form, BeginPatch(r, i, form)
      PROVE  Good(req'[r])
  <2> DEFINE cur == IF i \in DOMAIN txs THEN SnapshotOf(i) ELSE None
             locals == [IdleReq EXCEPT !.cur = cur, !.form = form]
             to == IF i \in DOMAIN txs THEN "patch" ELSE "failed"
  <2>1. DOMAIN locals = DOMAIN IdleReq /\ Begin(r, "patch", to, locals)
    BY <1>4 DEF BeginPatch
  <2>2. locals.cur = cur
    <3> HIDE DEF cur
    <3> QED BY DEF IdleReq
  <2> HIDE DEF locals
  <2>3. req'[r].op = "patch" /\ req'[r].pc = to /\ (to = "patch" => req'[r].cur = cur)
    BY <1>0, <2>1, <2>2, BeginMoves, BeginKeeps DEF Resting
  <2>4. i \in DOMAIN txs => cur = SnapshotOf(i) /\ SnapshotOf(i).id = i
    BY DEF SnapshotOf
  <2> HIDE DEF cur
  <2> QED BY <2>3, <2>4
<1>5. ASSUME NEW i, BeginApprove(r, i)
      PROVE  Good(req'[r])
  <2> DEFINE open == i \in DOMAIN txs /\ txs[i].src = "suggested" /\ txs[i].sugg # None
             locals == [IdleReq EXCEPT !.cur = IF open THEN SnapshotOf(i) ELSE None]
             to == IF open THEN "approve" ELSE "failed"
  <2>1. DOMAIN locals = DOMAIN IdleReq /\ Begin(r, "approve", to, locals)
    BY <1>5 DEF BeginApprove
  <2> HIDE DEF locals
  <2> QED BY <1>0, <2>1, BeginMoves
<1>6. Good(req'[r])
  <2> HIDE DEF Good
  <2> QED BY <1>1, <1>2, <1>3, <1>4, <1>5 DEF Arrive
<1>7. ASSUME NEW q \in Request, q # r PROVE Good(req'[q])
  BY <1>7, AllRest DEF HashInv, PreparedHashed, PatchReads, Resting
<1>8. \A q \in Request : Good(req'[q])
  BY <1>6, <1>7
<1>9. txs' = txs
  BY AllRest DEF HashInv, Tables
<1> QED BY <1>8, <1>9 DEF PreparedHashed, PatchReads, SnapshotOf
LEMMA GotoKeeps ==
  ASSUME TypeInv, NEW r \in Request, NEW to, Goto(r, to)
  PROVE  /\ req'[r].op = req[r].op /\ req'[r].account = req[r].account
         /\ req'[r].rows \in {req[r].rows, NoRows} /\ req'[r].held \in {req[r].held, NoRows}
<1>1. CASE to \in Resting
  BY <1>1, AnsweredKeeps, AnsweredFields DEF Goto, TypeInv, TypeOK
<1>2. CASE to \notin Resting
  BY <1>2, ReqOK DEF Goto, TypeInv, TypeOK, ReqState
<1> QED BY <1>1, <1>2

(* A running handler passes on what it has prepared, or a part of it. *)
LEMMA ContinueHashed ==
  ASSUME HashInv, NEW r \in Request, Continue(r)
  PROVE  PreparedHashed'
<1> DEFINE Hashed(q) == HashedRows(q.account, q.rows) /\ HashedRows(q.account, q.held)
           Good(q) == q.op \in {"import", "resolve"} => Hashed(q)
<1>0. /\ TypeInv /\ req[r] \in ReqState /\ req \in [Request -> ReqState] /\ Good(req[r])
  BY ReqOK DEF HashInv, SerialInv, PreparedHashed, TypeInv, TypeOK
<1>1. ASSUME NEW to, Goto(r, to) PROVE Good(req'[r])
  BY <1>0, <1>1, GotoKeeps, NoRowsHashed
<1> SUFFICES Good(req'[r])
  BY OthersRest DEF HashInv, PreparedHashed
<1>2. CASE FindExistingHashes(r)
  <2>1. PICK S, T : /\ req'[r].rows = Restricted(req[r].rows, S)
                    /\ req'[r].held = Restricted(req[r].rows, T)
                    /\ req'[r].op = req[r].op /\ req'[r].account = req[r].account
    <3> DEFINE rows == req[r].rows
               known == {l \in DOMAIN rows : rows[l].hash \in HashesOf(req[r].account)}
               first == {l \in known : \A k \in known : rows[k].hash = rows[l].hash => l <= k}
               S == DOMAIN rows \ known
    <3>1. req' = [req EXCEPT ![r].pc = "insert", ![r].rows = Restricted(rows, S),
                             ![r].held = Restricted(rows, first)]
      BY <1>2 DEF FindExistingHashes
    <3> HIDE DEF S, first
    <3> QED BY <1>0, <3>1 DEF ReqState
  <2> QED BY <1>0, <2>1, RestrictedHashed
<1>3. CASE ReviewPending(r)
  <2> DEFINE q == req[r]
             found == {l \in DOMAIN q.held : \E i \in DOMAIN txs : txs[i].hash = q.held[l].hash}
             h == Restricted(q.held, found)
             p == [q EXCEPT !.held = h]
  <2>1. req' = [req EXCEPT ![r] = Answered(p, "done")]
    BY <1>3 DEF ReviewPending
  <2>2. q.op \in {"import", "resolve"} => HashedRows(q.account, h)
    BY <1>0, RestrictedHashed
  <2>3. p.held = h /\ p.account = q.account /\ p.op = q.op
    <3> HIDE DEF h
    <3> QED BY <1>0 DEF ReqState
  <2> HIDE DEF p, h
  <2> QED BY <1>0, <2>1, <2>2, <2>3, AnsweredKeeps, AnsweredFields, NoRowsHashed
<1>4. CASE LoadStatement(r) \/ LoadCandidates(r)
  <2>1. \E T : req' = [req EXCEPT ![r].pc = "next", ![r].todo = T]
    BY <1>4 DEF LoadStatement, LoadCandidates
  <2> QED BY <1>0, <2>1 DEF ReqState
<1>5. CASE FindRule(r) \/ NextCandidate(r)
  <2>1. ASSUME NEW s, NEW k,
               \/ req' = [req EXCEPT ![r].pc = "write", ![r].todo = @ \ {s}, ![r].cur = s,
                                     ![r].pick = k]
               \/ req' = [req EXCEPT ![r].pc = "write", ![r].todo = @ \ {s}, ![r].cur = s]
               \/ req' = [req EXCEPT ![r].pc = "history", ![r].todo = @ \ {s}, ![r].cur = s]
        PROVE  Good(req'[r])
    <3> DEFINE todo == req[r].todo \ {s}
    <3>1. \/ req' = [req EXCEPT ![r].pc = "write", ![r].todo = todo, ![r].cur = s, ![r].pick = k]
          \/ req' = [req EXCEPT ![r].pc = "write", ![r].todo = todo, ![r].cur = s]
          \/ req' = [req EXCEPT ![r].pc = "history", ![r].todo = todo, ![r].cur = s]
      BY <1>0, <2>1
    <3> HIDE DEF todo
    <3> QED BY <1>0, <3>1 DEF ReqState
  <2> HIDE DEF Good
  <2> QED BY <1>5, <2>1 DEF FindRule, NextCandidate
<1>6. CASE SuggestFromHistory(r)
  <2>1. ASSUME NEW k, req' = [req EXCEPT ![r].pc = "suggest", ![r].pick = k]
        PROVE  Good(req'[r])
    BY <1>0, <2>1 DEF ReqState
  <2> HIDE DEF Good
  <2> QED BY <1>1, <1>6, <2>1 DEF SuggestFromHistory
<1>7. CASE \/ FindStatement(r) \/ CreateStatement(r) \/ BulkCreate(r) \/ UpdateLastPeriod(r)
           \/ WriteRule(r) \/ SetRuleId(r) \/ WriteSuggestion(r) \/ SetSuggested(r)
           \/ FinishRows(r) \/ PatchTransaction(r) \/ ApproveSuggestion(r)
  <2> HIDE DEF Good
  <2> QED BY <1>1, <1>7 DEF FindStatement, CreateStatement, BulkCreate, UpdateLastPeriod,
               WriteRule, SetRuleId, WriteSuggestion, SetSuggested, FinishRows,
               PatchTransaction, ApproveSuggestion
<1> HIDE DEF Good
<1> QED BY <1>2, <1>3, <1>4, <1>5, <1>6, <1>7 DEF Continue

(* The rows that an import brings carry the hashes it has prepared. *)
LEMMA InsertHashed ==
  ASSUME HashInv, NEW r \in Request, BulkCreate(r)
  PROVE  HashCoherent'
<1> DEFINE a == req[r].account
           p == req[r].period
           rows == req[r].rows
           op == req[r].op
           new == [i \in {<<r, l>> : l \in DOMAIN rows} |-> NewRow(a, p, rows[i[2]], op)]
<1>1. txs' = txs \/ txs' = Extend(txs, new)
  BY DEF BulkCreate
<1>2. HashedRows(a, rows)
  BY ReqOK DEF HashInv, SerialInv, PreparedHashed, BulkCreate, At, Shape
<1>3. ASSUME NEW i \in DOMAIN new
      PROVE  new[i].hash = HashOf(new[i].account, new[i].desc, new[i].amount)
  <2>1. i[2] \in DOMAIN rows /\ new[i] = NewRow(a, p, rows[i[2]], op)
    OBVIOUS
  <2> HIDE DEF new, rows, a
  <2> QED BY <1>2, <2>1 DEF NewRow, HashedRows
<1> HIDE DEF new
<1>4. ASSUME NEW i \in DOMAIN txs'
      PROVE  txs'[i].hash = HashOf(txs'[i].account, txs'[i].desc, txs'[i].amount)
  BY <1>1, <1>3 DEF HashInv, HashCoherent, Extend
<1> QED BY <1>4 DEF HashCoherent
LEMMA UpdateHashed ==
  ASSUME HashCoherent, NEW i, NEW row, Update(i, row) \/ UNCHANGED txs,
         i \in DOMAIN txs => row.hash = HashOf(row.account, row.desc, row.amount)
  PROVE  HashCoherent'
<1>1. ASSUME NEW j \in DOMAIN txs'
      PROVE  txs'[j].hash = HashOf(txs'[j].account, txs'[j].desc, txs'[j].amount)
  BY <1>1 DEF Update, HashCoherent
<1> QED BY <1>1 DEF HashCoherent

(* An edit hashes the fields that it stores: those it has read are still there. *)
LEMMA PatchHashed ==
  ASSUME HashInv, NEW r \in Request, PatchTransaction(r)
  PROVE  HashCoherent'
<1> DEFINE f == req[r].form
           i == req[r].cur.id
           hashed == f.desc # None \/ f.amount # None
           hash == HashOf(req[r].cur.account, Given(f.desc, req[r].cur.desc),
                          Given(f.amount, req[r].cur.amount))
           d == Given(f.desc, txs[i].desc)
           m == Given(f.amount, txs[i].amount)
           h == IF hashed THEN hash ELSE txs[i].hash
           e == txs[i].edited \/ hashed
           c == Given(f.cat, txs[i].cat)
           s == IF f.cat # None THEN "manual" ELSE txs[i].src
           t == IF f.tax THEN "user" ELSE txs[i].tax
           row == [txs[i] EXCEPT !.desc = d, !.amount = m, !.hash = h, !.edited = e,
                                 !.cat = c, !.src = s, !.tax = t]
<1>1. Update(i, row) \/ UNCHANGED txs
  BY DEF PatchTransaction
<1>2. ASSUME i \in DOMAIN txs PROVE h = HashOf(txs[i].account, d, m)
  <2>1. req[r].cur = SnapshotOf(i)
    BY <1>2 DEF HashInv, PatchReads, PatchTransaction, At
  <2>2. /\ req[r].cur.account = txs[i].account /\ req[r].cur.desc = txs[i].desc
        /\ req[r].cur.amount = txs[i].amount
    <3> HIDE DEF i
    <3> QED BY <2>1 DEF SnapshotOf
  <2>3. CASE hashed
    BY <2>2, <2>3
  <2>4. CASE ~hashed
    BY <1>2, <2>4 DEF Given, HashInv, HashCoherent
  <2> QED BY <2>3, <2>4
<1>3. i \in DOMAIN txs => /\ row.account = txs[i].account /\ row.desc = d
                         /\ row.amount = m /\ row.hash = h
  <2>1. \A j \in DOMAIN txs : txs[j] \in Row
    BY DEF HashInv, SerialInv, TypeInv, TypeOK
  <2> HIDE DEF i, d, m, h, e, c, s, t
  <2> QED BY <2>1 DEF Row
<1> HIDE DEF row, h, d, m, i
<1> QED BY <1>1, <1>2, <1>3, UpdateHashed DEF HashInv

(* The other updates leave the fields alone that the hash covers. *)
LEMMA OtherHashed ==
  ASSUME HashInv, NEW r \in Request,
         WriteRule(r) \/ SetRuleId(r) \/ WriteSuggestion(r) \/ SetSuggested(r) \/ ApproveSuggestion(r)
  PROVE  HashCoherent'
<1> DEFINE i == req[r].cur.id
           k == req[r].pick
           tax == IF k.tax /\ req[r].cur.tax = None THEN "rule" ELSE txs[i].tax
           done(row) == Update(i, row) \/ UNCHANGED txs
           same(row) == i \in DOMAIN txs => /\ row.account = txs[i].account /\ row.hash = txs[i].hash
                                           /\ row.desc = txs[i].desc /\ row.amount = txs[i].amount
<1>0. \A j \in DOMAIN txs : txs[j] \in Row
  BY DEF HashInv, SerialInv, TypeInv, TypeOK
<1>1. \/ done([txs[i] EXCEPT !.cat = k.cat, !.src = "rule", !.tax = tax])
      \/ done([txs[i] EXCEPT !.rule = k.rule])
      \/ done([txs[i] EXCEPT !.cat = None, !.src = "suggested"])
      \/ done([txs[i] EXCEPT !.sugg = k.cat])
      \/ done([txs[i] EXCEPT !.cat = req[r].cur.sugg, !.src = "manual"])
  BY DEF WriteRule, SetRuleId, WriteSuggestion, SetSuggested, ApproveSuggestion
<1>2. ASSUME NEW row, done(row), same(row) PROVE HashCoherent'
  BY <1>2, UpdateHashed DEF HashInv, HashCoherent
<1> HIDE DEF i, k, tax
<1>3. /\ \A c, s, t : same([txs[i] EXCEPT !.cat = c, !.src = s, !.tax = t])
      /\ \A u : same([txs[i] EXCEPT !.rule = u]) /\ same([txs[i] EXCEPT !.sugg = u])
      /\ \A c, s : same([txs[i] EXCEPT !.cat = c, !.src = s])
  BY <1>0 DEF Row
<1> HIDE DEF done, same
<1> QED BY <1>1, <1>2, <1>3

LEMMA MaintainHashed ==
  ASSUME HashInv, Maintain
  PROVE  HashCoherent'
<1>0. HashCoherent /\ \A i \in DOMAIN txs : txs[i] \in Row
  BY DEF HashInv, SerialInv, TypeInv, TypeOK
<1>1. ASSUME NEW S, txs' = Restricted(txs, S) PROVE HashCoherent'
  BY <1>0, <1>1 DEF Restricted, HashCoherent
<1>2. ASSUME NEW cats, NEW dead, txs' = [i \in DOMAIN txs |-> ForgetRefs(txs[i], cats, dead)]
      PROVE  HashCoherent'
  <2>1. ASSUME NEW row \in Row
        PROVE  LET new == ForgetRefs(row, cats, dead)
               IN  /\ new.account = row.account /\ new.hash = row.hash
                   /\ new.desc = row.desc /\ new.amount = row.amount
    BY <2>1 DEF ForgetRefs, Row
  <2> QED BY <1>0, <1>2, <2>1 DEF HashCoherent
<1>3. ASSUME UNCHANGED txs PROVE HashCoherent'
  BY <1>0, <1>3 DEF HashCoherent
<1>4. ASSUME NEW ids, DeleteTransactions(ids) PROVE \E S : txs' = Restricted(txs, S)
  BY <1>4 DEF DeleteTransactions
<1>5. ASSUME NEW a, DeleteAccount(a) PROVE \E S : txs' = Restricted(txs, S)
  BY <1>5 DEF DeleteAccount
<1>6. ASSUME NEW u, DeleteRule(u)
      PROVE  \E cats, dead : txs' = [i \in DOMAIN txs |-> ForgetRefs(txs[i], cats, dead)]
  BY <1>6 DEF DeleteRule
<1>7. ASSUME NEW c, DeleteCategory(c)
      PROVE  \E cats, dead : txs' = [i \in DOMAIN txs |-> ForgetRefs(txs[i], cats, dead)]
  BY <1>7 DEF DeleteCategory
<1>8. ASSUME NEW x, NEW y, ChangeAccountKind(x, y) \/ CreateRule(x, y) \/ ChangeRule(x, y)
      PROVE  UNCHANGED txs
  BY <1>8 DEF ChangeAccountKind, CreateRule, ChangeRule
<1>9. ASSUME NEW S, Lose(S) PROVE UNCHANGED txs
  BY <1>9 DEF Lose, Tables
<1> QED BY <1>1, <1>2, <1>3, <1>4, <1>5, <1>6, <1>7, <1>8, <1>9
        DEF Maintain, Crash, Reject, RefuseRule

LEMMA MaintainPrepared ==
  ASSUME HashInv, Maintain
  PROVE  PreparedHashed' /\ PatchReads'
<1>1. PatchReads'
  <2>1. \A r \in Request : req'[r].pc # "patch"
    BY MaintainQuiet DEF HashInv, SerialInv, Resting
  <2> QED BY <2>1 DEF PatchReads
<1>2. ASSUME NEW S, Lose(S) PROVE PreparedHashed'
  BY <1>2, AnsweredKeeps, AnsweredFields, NoRowsHashed DEF Lose, HashInv, PreparedHashed
<1>3. ASSUME UNCHANGED req PROVE PreparedHashed'
  BY <1>3 DEF HashInv, PreparedHashed
<1> QED BY <1>1, <1>2, <1>3 DEF Maintain, Crash, Reject, RefuseRule, DeleteTransactions, DeleteAccount,
           ChangeAccountKind, DeleteRule, CreateRule, ChangeRule, DeleteCategory

LEMMA ContinueNotPatch ==
  ASSUME TypeInv, NEW r \in Request, Continue(r)
  PROVE  req'[r].pc # "patch"
<1>0. req[r] \in ReqState /\ req \in [Request -> ReqState]
  BY ReqOK DEF TypeInv, TypeOK
<1>1. ASSUME NEW to, Goto(r, to), to # "patch" PROVE req'[r].pc # "patch"
  BY <1>1, GotoMoves
<1>2. CASE \/ FindStatement(r) \/ CreateStatement(r) \/ BulkCreate(r) \/ UpdateLastPeriod(r)
           \/ WriteRule(r) \/ SetRuleId(r) \/ WriteSuggestion(r) \/ SetSuggested(r)
           \/ FinishRows(r) \/ PatchTransaction(r) \/ ApproveSuggestion(r)
  <2>1. PICK to \in PC \ {"patch"} : Goto(r, to)
    BY <1>2 DEF FindStatement, CreateStatement, BulkCreate, UpdateLastPeriod, WriteRule,
                SetRuleId, WriteSuggestion, SetSuggested, FinishRows, PatchTransaction,
                ApproveSuggestion, Refused, PC, Resting
  <2> QED BY <1>1, <2>1
<1>3. CASE FindExistingHashes(r)
  BY <1>0, <1>3 DEF FindExistingHashes, ReqState
<1>4. CASE ReviewPending(r)
  BY <1>0, <1>4, AnsweredFields DEF ReviewPending
<1>5. CASE LoadStatement(r) \/ LoadCandidates(r)
  <2>1. \E T : req' = [req EXCEPT ![r].pc = "next", ![r].todo = T]
    BY <1>5 DEF LoadStatement, LoadCandidates
  <2> QED BY <1>0, <2>1 DEF ReqState
<1>6. CASE FindRule(r) \/ NextCandidate(r)
  <2>1. CASE FindRule(r)
    <3>1. PICK to \in {"write", "history"} : req'[r].pc = to
      BY <1>0, <2>1 DEF FindRule, ReqState
    <3> QED BY <3>1
  <2>2. CASE NextCandidate(r)
    BY <1>0, <2>2 DEF NextCandidate, ReqState
  <2> QED BY <1>6, <2>1, <2>2
<1>7. CASE SuggestFromHistory(r)
  <2>1. ASSUME NEW k, req' = [req EXCEPT ![r].pc = "suggest", ![r].pick = k]
        PROVE  req'[r].pc # "patch"
    BY <1>0, <2>1 DEF ReqState
  <2> QED BY <1>1, <1>7, <2>1 DEF SuggestFromHistory
<1> QED BY <1>2, <1>3, <1>4, <1>5, <1>6, <1>7 DEF Continue

LEMMA HashStep ==
  ASSUME Serial, HashInv, [Next]_vars
  PROVE  HashInv'
<1>1. SerialInv'
  BY NextType, OneAtATimeStep, FreshRowsStep DEF HashInv, SerialInv
<1>2. CASE Maintain
  BY <1>1, <1>2, MaintainPrepared, MaintainHashed DEF HashInv
<1>3. ASSUME NEW r \in Request, Arrive(r) PROVE HashCoherent'
  BY <1>3, AllRest DEF HashInv, HashCoherent, Tables
<1>4. ASSUME NEW r \in Request, Continue(r) PROVE PatchReads' /\ HashCoherent'
  <2>1. PatchReads'
    BY <1>4, OthersRest, ContinueNotPatch DEF HashInv, SerialInv, PatchReads, Resting
  <2>2. ASSUME UNCHANGED txs PROVE HashCoherent'
    BY <2>2 DEF HashInv, HashCoherent
  <2>3. ASSUME \/ WriteRule(r) \/ SetRuleId(r) \/ WriteSuggestion(r) \/ SetSuggested(r)
               \/ ApproveSuggestion(r)
        PROVE  HashCoherent'
    BY <2>3, OtherHashed
  <2>4. ASSUME BulkCreate(r) \/ PatchTransaction(r) PROVE HashCoherent'
    BY <2>4, InsertHashed, PatchHashed
  <2>5. HashCoherent'
    BY <1>4, <2>2, <2>3, <2>4
       DEF Continue, FindStatement, CreateStatement, FindExistingHashes, UpdateLastPeriod,
           LoadStatement, ReviewPending, FindRule, SuggestFromHistory, FinishRows,
           LoadCandidates, NextCandidate, Tables
  <2> QED BY <2>1, <2>5
<1>5. ASSUME UNCHANGED vars PROVE PreparedHashed' /\ PatchReads' /\ HashCoherent'
  BY <1>5 DEF vars, HashInv, PreparedHashed, PatchReads, HashCoherent, SnapshotOf
<1> QED BY <1>1, <1>2, <1>3, <1>4, <1>5, ArriveHashed, ContinueHashed DEF Next, HashInv

(* On SQLite the stored hash of every row is the hash of its stored fields. *)
THEOREM SerialHashCoherent == ASSUME Serial PROVE Spec => []HashCoherent
<1>1. Init => HashInv
  <2> SUFFICES ASSUME Init PROVE HashInv
    OBVIOUS
  <2>1. \A r \in Request : req[r].pc = "idle" /\ req[r].op = "none"
    BY DEF Init, IdleReq
  <2>2. SerialInv
    BY <2>1, InitType DEF SerialInv, OneAtATime, FreshRows, Resting
  <2> QED BY <2>1, <2>2 DEF HashInv, PreparedHashed, PatchReads, HashCoherent, Init
<1>2. HashInv /\ [Next]_vars => HashInv'
  BY HashStep
<1> QED BY <1>1, <1>2, PTL DEF Spec, HashInv
=============================================================================
