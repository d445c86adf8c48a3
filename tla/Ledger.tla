------------------------------- MODULE Ledger -------------------------------
(***************************************************************************)
(* The ledger of one business: accounts, statements, transactions,         *)
(* categories and rules, and the HTTP handlers that change them.           *)
(*                                                                         *)
(*   server/src/services/importService.ts          import, resolve         *)
(*   server/src/services/categorizationService.ts  rules and suggestions   *)
(*   server/src/repos/impl/TransactionRepoImpl.ts  the SQL they run        *)
(*   server/src/routes/{imports,transactions,rules,categories,accounts}.ts *)
(*                                                                         *)
(* A handler is a sequence of awaited SQL statements and one action below  *)
(* is one statement (or one db.transaction) with the code up to the next   *)
(* await.  What may happen between two statements depends on the adapter:  *)
(* the SQLite adapter returns promises that are already resolved, so once  *)
(* a handler has started its statements no other handler gets the event    *)
(* loop; with the PostgreSQL pool every await lets other handlers in.      *)
(***************************************************************************)
EXTENDS Integers, FiniteSets

CONSTANTS
  Backend,        \* "sqlite" or "pg", see makeAdapter in server/src/db
  Ops,            \* the handlers the clients of this instance call
  Request,        \* HTTP requests; each is one run of one handler
  Account, Category, Rule,
  Period,         \* statement months
  Line,           \* line numbers of a parsed file
  Desc, Amount,   \* description (with the date) and signed amount of a line
  Files,          \* parsed files: functions from some lines to [desc, amount]
  Forms,          \* bodies of PATCH /transactions/:id that the clients send
  RuleTables,     \* the rule tables an instance may start from
  Rank,           \* position of a rule in ORDER BY priority DESC, id
  HashOf(_, _, _),      \* hashTransaction(account, desc, amount)
  Matches(_, _, _),     \* pattern and amount range: (rule, desc, amount)
  Similar(_, _),        \* token overlap of two descriptions is at least 0.4
  None, NotYet    \* an absent value; a rule id that has not been given out yet

\* category_id and account_id of a rule, and whether it has a tax_description;
\* scope None applies to every account.
RuleRow == [cat : Category, scope : Account \cup {None}, tax : BOOLEAN]

\* The body of PATCH /transactions/:id; None is an absent field.
Form == [desc : Desc \cup {None}, amount : Amount \cup {None},
         cat : Category \cup {None}, tax : BOOLEAN]

ASSUME LedgerAssumption ==
  /\ Backend \in {"sqlite", "pg"}
  /\ Period \subseteq Nat \ {0} /\ Line \subseteq Nat
  /\ Amount \subseteq Int /\ \A m \in Amount : -m \in Amount
  /\ \A f \in Files : DOMAIN f \subseteq Line /\ f \in [DOMAIN f -> [desc : Desc, amount : Amount]]
  /\ RuleTables \subseteq [Rule -> RuleRow \cup {NotYet}]
  /\ Forms \subseteq Form
  /\ Rank \in [Rule -> Nat] /\ \A u, v \in Rule : Rank[u] = Rank[v] => u = v
  /\ None \notin Request /\ None \notin Account /\ None \notin Category /\ None \notin Rule
  /\ None \notin Desc /\ None \notin Amount /\ {None, NotYet} \cap RuleRow = {}
  /\ None # "user"

VARIABLES
  accounts,    \* account -> [live, kind, last]: row, account_kind, last_statement_period
  statements,  \* the pairs <<account, period>> that have a row
  txs,         \* transaction id -> row; an id is <<inserting request, line>>
  categories,  \* the live category rows
  rules,       \* rule -> its row, NotYet before and None after it exists
  req,         \* request -> program counter, arguments and locals of its handler
  turn         \* the request that holds the event loop, or None

vars == <<accounts, statements, txs, categories, rules, req, turn>>
Tables == <<accounts, statements, txs, categories, rules>>

-----------------------------------------------------------------------------
TxId == Request \X Line

Hash == {HashOf(a, d, m) : a \in Account, d \in Desc, m \in Amount}

Source == {"rule", "suggested", "manual", None}

\* One prepared row of a batch, as persistParsed and resolveDuplicates build it.
Data == [desc : Desc, amount : Amount, hash : Hash]

Batch == UNION {[L -> Data] : L \in SUBSET Line}

\* "tax" abstracts tax_description to who wrote it; notes are left out.
\* "origin" and "edited" are history: how the row came in, and whether a PATCH
\* has changed a field its hash covers.
Row == [account : Account, period : Period, desc : Desc, amount : Amount, hash : Hash,
        cat : Category \cup {None}, src : Source, sugg : Category \cup {None},
        rule : Rule \cup {None}, tax : {"user", "rule", None},
        origin : {"import", "resolve"}, edited : BOOLEAN]

\* What a handler keeps of a row it has read.
Snapshot == [id : TxId, account : Account, desc : Desc, amount : Amount,
             tax : {"user", "rule", None}, sugg : Category \cup {None}]

\* The outcome of rule matching or of the history heuristic (rule = None).
Pick == [rule : Rule \cup {None}, cat : Category, scope : Account \cup {None}, tax : BOOLEAN]

Resting == {"idle", "done", "failed", "lost"}

PC == Resting \cup
      {"statement", "create", "dedup", "insert", "period", "load", "pending",
       "next", "write", "attribute", "history", "suggest", "setSuggested",
       "applyLoad", "patch", "approve", "rejected"}

ReqState ==
  [pc : PC,
   op : {"import", "resolve", "apply", "patch", "approve", "none"},
   account : Account \cup {None}, period : Period \cup {None},
   rows : Batch,                      \* prepared, then toInsert
   held : Batch,                      \* parsedByHash, then pendingReview
   last : Period \cup {0},            \* lastStatementPeriod as read first
   todo : SUBSET Snapshot,            \* rows still to categorize
   cur : Snapshot \cup {None},
   pick : Pick \cup {None},
   form : Form \cup {None}]

NoRows == [l \in {} |-> None]

IdleReq == [pc |-> "idle", op |-> "none", account |-> None, period |-> None, rows |-> NoRows,
            held |-> NoRows, last |-> 0, todo |-> {}, cur |-> None, pick |-> None,
            form |-> None]

TypeOK ==
  /\ accounts \in [Account -> [live : BOOLEAN, kind : {"bank", "credit_card"}, last : Period \cup {0}]]
  /\ statements \in SUBSET (Account \X Period)
  /\ DOMAIN txs \in SUBSET TxId
  /\ txs \in [DOMAIN txs -> Row]
  /\ categories \in SUBSET Category
  /\ rules \in [Rule -> RuleRow \cup {None, NotYet}]
  /\ req \in [Request -> ReqState]
  /\ turn \in Request \cup {None}

Init ==
  /\ accounts \in [Account -> [live : {TRUE}, kind : {"bank", "credit_card"}, last : {0}]]
  /\ statements = {}
  /\ txs = [i \in {} |-> None]
  /\ categories = Category
  /\ rules \in RuleTables
  /\ req = [r \in Request |-> IdleReq]
  /\ turn = None

-----------------------------------------------------------------------------
(* The event loop.                                                         *)

Serial == Backend = "sqlite"

\* Request r runs the code between two awaits: it needs the event loop, and
\* gives it up at the next await unless that promise is already resolved.
At(r, from) == req[r].pc = from /\ turn \in {None, r}

\* Fault: a database driver that yields at every statement.
Yield(r, to) == turn' = None

Leave(r, to) == turn' = IF to = "rejected" \/ (Serial /\ to \notin Resting) THEN r ELSE None

\* What outlives the handler: an import's answer, with its pendingReview.
Answered(q, to) ==
  [IdleReq EXCEPT !.pc = to, !.op = q.op, !.account = q.account, !.period = q.period,
                  !.held = IF to = "done" THEN q.held ELSE NoRows]

Goto(r, to) ==
  /\ req' = [req EXCEPT ![r] = IF to \in Resting THEN Answered(req[r], to)
                                       ELSE [req[r] EXCEPT !.pc = to]]
  /\ Leave(r, to)

\* Where a failing statement leads: the import routes catch it and answer 422.
\* The other routes do not, express 4 does not see the rejected promise of an
\* async handler, and so its error handler is never asked.
Refused(r) == IF req[r].op \in {"import", "resolve"} THEN "failed" ELSE "rejected"

\* The requests of S never get an answer.
Lose(S) ==
  /\ req' = [r \in Request |-> IF r \in S THEN Answered(req[r], "lost") ELSE req[r]]
  /\ turn' = None
  /\ UNCHANGED Tables

Running == {r \in Request : req[r].pc \notin Resting}

\* An unhandled rejection ends the process, which is then restarted; where
\* Sentry is configured its listener keeps the process up.
Reject(r) ==
  /\ req[r].pc = "rejected"
  /\ Lose(Running) \/ Lose({r})

-----------------------------------------------------------------------------
(* Effects of SQL statements, with the foreign keys of 001_init.sql.       *)

Extend(f, g) == [x \in DOMAIN f \cup DOMAIN g |-> IF x \in DOMAIN f THEN f[x] ELSE g[x]]

Restricted(f, S) == [x \in DOMAIN f \cap S |-> f[x]]

\* Fault: the hashes of the other accounts.
HashesOfOthers(a) == {txs[i].hash : i \in {j \in DOMAIN txs : txs[j].account # a}}

HashesOf(a) == {txs[i].hash : i \in {j \in DOMAIN txs : txs[j].account = a}}

\* Fault: the insert loses the hash of the prepared row.
NewRowUnhashed(a, p, d, origin) ==
  [account |-> a, period |-> p, desc |-> d.desc, amount |-> d.amount, hash |-> None,
   cat |-> None, src |-> None, sugg |-> None, rule |-> None, tax |-> None,
   origin |-> origin, edited |-> FALSE]

NewRow(a, p, d, origin) ==
  [account |-> a, period |-> p, desc |-> d.desc, amount |-> d.amount, hash |-> d.hash,
   cat |-> None, src |-> None, sugg |-> None, rule |-> None, tax |-> None,
   origin |-> origin, edited |-> FALSE]

\* Fault: the tax description is not read back.
SnapshotUntaxed(i) == [id |-> i, account |-> txs[i].account, desc |-> txs[i].desc,
                       amount |-> txs[i].amount, tax |-> None, sugg |-> txs[i].sugg]

SnapshotOf(i) == [id |-> i, account |-> txs[i].account, desc |-> txs[i].desc,
                  amount |-> txs[i].amount, tax |-> txs[i].tax, sugg |-> txs[i].sugg]

\* UPDATE transactions SET ... WHERE id = i: nothing when the row is gone.
Update(i, row) == txs' = IF i \in DOMAIN txs THEN [txs EXCEPT ![i] = row] ELSE txs

RuleLive(u) == rules[u] \notin {None, NotYet}

PickOf(u) == [rule |-> u, cat |-> rules[u].cat, scope |-> rules[u].scope, tax |-> rules[u].tax]

\* Fault: no ON DELETE SET NULL on suggested_category_id.
ForgetButSuggestion(row, cats, deadRules) ==
  [row EXCEPT !.cat  = IF row.cat \in cats THEN None ELSE row.cat,
              !.rule = IF row.rule \in deadRules THEN None ELSE row.rule]

\* ON DELETE SET NULL of the columns that reference a category or a rule.
ForgetRefs(row, cats, deadRules) ==
  [row EXCEPT !.cat  = IF row.cat \in cats THEN None ELSE row.cat,
              !.sugg = IF row.sugg \in cats THEN None ELSE row.sugg,
              !.rule = IF row.rule \in deadRules THEN None ELSE row.rule]

-----------------------------------------------------------------------------
(* The first statement of a handler.  The client chooses the arguments;    *)
(* "to" is where the handler stands after the statement.                   *)

Begin(r, op, to, locals) ==
  /\ op \in Ops
  /\ req[r].pc = "idle" /\ turn = None
  /\ LET q == [locals EXCEPT !.op = op, !.pc = to]
     IN  req' = [req EXCEPT ![r] = IF to \in Resting THEN Answered(q, to) ELSE q]
  /\ Leave(r, to)
  /\ UNCHANGED Tables

\* Fault: the hash is taken before the sign is flipped.
BeginImportHashFirst(r, a, p, f, parser) ==
  LET flip == accounts[a].kind = "credit_card" /\ parser = "template"
  IN  Begin(r, "import", IF accounts[a].live THEN "statement" ELSE "failed",
        [IdleReq EXCEPT
           !.account = a, !.period = p, !.last = accounts[a].last,
           !.rows = [l \in DOMAIN f |->
                       [desc |-> f[l].desc, hash |-> HashOf(a, f[l].desc, f[l].amount),
                        amount |-> IF flip THEN -f[l].amount ELSE f[l].amount]]])

\* POST /imports/commit once the file is parsed: persistParsed reads the
\* account and prepares the rows.  Only PDF templates return bank convention.
BeginImport(r, a, p, f, parser) ==
  LET flip == accounts[a].kind = "credit_card" /\ parser = "template"
      amount(l) == IF flip THEN -f[l].amount ELSE f[l].amount
  IN  Begin(r, "import", IF accounts[a].live THEN "statement" ELSE "failed",
        [IdleReq EXCEPT
           !.account = a, !.period = p, !.last = accounts[a].last,
           !.rows = [l \in DOMAIN f |-> [desc |-> f[l].desc, amount |-> amount(l),
                                         hash |-> HashOf(a, f[l].desc, amount(l))]]])

\* POST /imports/duplicates/resolve: the user keeps some of the lines that an
\* earlier import handed back; the client echoes them with their hashes.
BeginResolve(r, q, keep) ==
  /\ req[q].op = "import" /\ req[q].pc = "done"
  /\ keep # {} /\ keep \subseteq DOMAIN req[q].held
  /\ Begin(r, "resolve",
       IF <<req[q].account, req[q].period>> \in statements THEN "insert" ELSE "failed",
       [IdleReq EXCEPT !.account = req[q].account, !.period = req[q].period,
                       !.rows = Restricted(req[q].held, keep)])

\* POST /rules/:id/apply
BeginApply(r, u) ==
  Begin(r, "apply", IF RuleLive(u) THEN "applyLoad" ELSE "failed",
    [IdleReq EXCEPT !.pick = IF RuleLive(u) THEN PickOf(u) ELSE None])

\* PATCH /transactions/:id: repos.transactions.update reads the row first.
BeginPatch(r, i, form) ==
  Begin(r, "patch", IF i \in DOMAIN txs THEN "patch" ELSE "failed",
    [IdleReq EXCEPT !.cur = IF i \in DOMAIN txs THEN SnapshotOf(i) ELSE None, !.form = form])

\* POST /transactions/:id/approve-suggestion
BeginApprove(r, i) ==
  LET open == i \in DOMAIN txs /\ txs[i].src = "suggested" /\ txs[i].sugg # None
  IN  Begin(r, "approve", IF open THEN "approve" ELSE "failed",
        [IdleReq EXCEPT !.cur = IF open THEN SnapshotOf(i) ELSE None])

-----------------------------------------------------------------------------
(* persistParsed and resolveDuplicates                                     *)

\* findByAccountAndPeriod
FindStatement(r) ==
  /\ At(r, "statement")
  /\ Goto(r, IF <<req[r].account, req[r].period>> \in statements THEN "dedup" ELSE "create")
  /\ UNCHANGED Tables

\* statementRepo.create: the insert fails on UNIQUE(account_id, period) and on
\* the foreign key of a deleted account, and the handler answers 422.
CreateStatement(r) ==
  LET s == <<req[r].account, req[r].period>>
      ok == s \notin statements /\ accounts[req[r].account].live
  IN  /\ At(r, "create")
      /\ statements' = IF ok THEN statements \cup {s} ELSE statements
      /\ Goto(r, IF ok THEN "dedup" ELSE "failed")
      /\ UNCHANGED <<accounts, txs, categories, rules>>

\* findExistingHashes and the partition: lines whose hash exists are held back
\* (one entry per hash), the others go to toInsert, in-file duplicates included.
FindExistingHashes(r) ==
  LET rows  == req[r].rows
      known == {l \in DOMAIN rows : rows[l].hash \in HashesOf(req[r].account)}
      first == {l \in known : \A k \in known : rows[k].hash = rows[l].hash => l <= k}
  IN  /\ At(r, "dedup")
      /\ req' = [req EXCEPT ![r].pc = "insert",
                            ![r].rows = Restricted(rows, DOMAIN rows \ known),
                            ![r].held = Restricted(rows, first)]
      /\ Leave(r, "insert")
      /\ UNCHANGED Tables

\* bulkCreate: one database transaction; a missing account or statement rolls
\* it back and the handler answers 422.
BulkCreate(r) ==
  LET a  == req[r].account
      p  == req[r].period
      ok == DOMAIN req[r].rows = {} \/ <<a, p>> \in statements
      new == [i \in {<<r, l>> : l \in DOMAIN req[r].rows} |->
                NewRow(a, p, req[r].rows[i[2]], req[r].op)]
  IN  /\ At(r, "insert")
      /\ txs' = IF ok THEN Extend(txs, new) ELSE txs
      /\ Goto(r, IF ~ok THEN "failed" ELSE IF req[r].op = "import" THEN "period" ELSE "load")
      /\ UNCHANGED <<accounts, statements, categories, rules>>

\* "Update account's last statement period if newer", newer than what the
\* handler read when it began.
UpdateLastPeriod(r) ==
  LET a == req[r].account
  IN  /\ At(r, "period")
      /\ accounts' = IF accounts[a].live /\ req[r].period > req[r].last
                     THEN [accounts EXCEPT ![a].last = req[r].period] ELSE accounts
      /\ Goto(r, "load")
      /\ UNCHANGED <<statements, txs, categories, rules>>

\* findAll({statementId}): every row of the statement that is not manual.
LoadStatement(r) ==
  LET mine == {i \in DOMAIN txs : /\ txs[i].account = req[r].account
                                  /\ txs[i].period = req[r].period
                                  /\ txs[i].src # "manual"}
  IN  /\ At(r, "load")
      /\ req' = [req EXCEPT ![r].pc = "next", ![r].todo = {SnapshotOf(i) : i \in mine}]
      /\ Leave(r, "next")
      /\ UNCHANGED Tables

\* findByHash for each held-back line; a hash that is not found is dropped from
\* pendingReview ("shouldn't happen -- defensive").
ReviewPending(r) ==
  LET q     == req[r]
      found == {l \in DOMAIN q.held : \E i \in DOMAIN txs : txs[i].hash = q.held[l].hash}
  IN  /\ At(r, "pending")
      /\ req' = [req EXCEPT ![r] = Answered([q EXCEPT !.held = Restricted(q.held, found)], "done")]
      /\ Leave(r, "done")
      /\ UNCHANGED Tables

-----------------------------------------------------------------------------
(* categorizationService: one row after another, from the rows as loaded.  *)

\* findMatchingRule over findOrdered(): the first rule that applies.
Applies(u, s) ==
  /\ RuleLive(u)
  /\ rules[u].scope \in {None, s.account}
  /\ Matches(u, s.desc, s.amount)

FirstRule(s) == {u \in Rule : /\ Applies(u, s)
                              /\ \A v \in Rule : Applies(v, s) => Rank[u] <= Rank[v]}

FindRule(r) ==
  /\ At(r, "next") /\ req[r].op # "apply"
  /\ \E s \in req[r].todo :
       \/ \E u \in FirstRule(s) :
            /\ req' = [req EXCEPT ![r].pc = "write", ![r].todo = @ \ {s},
                                  ![r].cur = s, ![r].pick = PickOf(u)]
            /\ Leave(r, "write")
       \/ /\ FirstRule(s) = {}
          /\ req' = [req EXCEPT ![r].pc = "history", ![r].todo = @ \ {s}, ![r].cur = s]
          /\ Leave(r, "history")
  /\ UNCHANGED Tables

\* txRepo.update with the category of the rule; its tax description only when
\* the row, as loaded, had none.  A deleted category fails the foreign key.
WriteRule(r) ==
  LET i  == req[r].cur.id
      k  == req[r].pick
      ok == i \notin DOMAIN txs \/ k.cat \in categories
  IN  /\ At(r, "write")
      /\ IF ok
         THEN Update(i, [txs[i] EXCEPT
                !.cat = k.cat, !.src = "rule",
                !.tax = IF k.tax /\ req[r].cur.tax = None THEN "rule"
                        ELSE txs[i].tax])
         ELSE UNCHANGED txs
      /\ Goto(r, IF ok THEN "attribute" ELSE Refused(r))
      /\ UNCHANGED <<accounts, statements, categories, rules>>

\* txRepo.setRuleId
SetRuleId(r) ==
  LET i  == req[r].cur.id
      u  == req[r].pick.rule
      ok == i \notin DOMAIN txs \/ RuleLive(u)
  IN  /\ At(r, "attribute")
      /\ IF ok THEN Update(i, [txs[i] EXCEPT !.rule = u]) ELSE UNCHANGED txs
      /\ Goto(r, IF ok THEN "next" ELSE Refused(r))
      /\ UNCHANGED <<accounts, statements, categories, rules>>

\* suggestFromHistory: the category of a similar row that a rule or the user
\* categorized (the best score wins; which one that is stays open here).
SuggestFromHistory(r) ==
  LET s    == req[r].cur
      past == {i \in DOMAIN txs \ {s.id} : /\ txs[i].cat # None
                                           /\ txs[i].src \in {"rule", "manual"}
                                           /\ Similar(s.desc, txs[i].desc)}
  IN  /\ At(r, "history")
      /\ \/ past = {} /\ Goto(r, "next")
         \/ \E i \in past :
              /\ req' = [req EXCEPT ![r].pc = "suggest",
                                    ![r].pick = [rule |-> None, cat |-> txs[i].cat,
                                                 scope |-> None, tax |-> FALSE]]
              /\ Leave(r, "suggest")
      /\ UNCHANGED Tables

\* txRepo.update(id, {categoryId: null, categorySource: 'suggested'})
WriteSuggestion(r) ==
  LET i == req[r].cur.id
  IN  /\ At(r, "suggest")
      /\ Update(i, [txs[i] EXCEPT !.cat = None, !.src = "suggested"])
      /\ Goto(r, "setSuggested")
      /\ UNCHANGED <<accounts, statements, categories, rules>>

\* txRepo.setSuggestedCategoryId
SetSuggested(r) ==
  LET i  == req[r].cur.id
      c  == req[r].pick.cat
      ok == i \notin DOMAIN txs \/ c \in categories
  IN  /\ At(r, "setSuggested")
      /\ IF ok THEN Update(i, [txs[i] EXCEPT !.sugg = c]) ELSE UNCHANGED txs
      /\ Goto(r, IF ok THEN "next" ELSE Refused(r))
      /\ UNCHANGED <<accounts, statements, categories, rules>>

\* The loop is over: an import still looks up its held-back lines.
FinishRows(r) ==
  /\ At(r, "next") /\ req[r].todo = {}
  /\ Goto(r, IF req[r].op = "import" THEN "pending" ELSE "done")
  /\ UNCHANGED Tables

\* reapplyRules(ruleId): every row that is not manual and that the rule matches.
LoadCandidates(r) ==
  LET u == req[r].pick.rule
      hit(i) == /\ txs[i].src # "manual"
                /\ req[r].pick.scope \in {None, txs[i].account}
                /\ Matches(u, txs[i].desc, txs[i].amount)
  IN  /\ At(r, "applyLoad")
      /\ req' = [req EXCEPT ![r].pc = "next",
                            ![r].todo = {SnapshotOf(i) : i \in {j \in DOMAIN txs : hit(j)}}]
      /\ Leave(r, "next")
      /\ UNCHANGED Tables

\* Fault: the loop does not advance.
SameCandidate(r) ==
  /\ At(r, "next") /\ req[r].op = "apply"
  /\ \E s \in req[r].todo :
       /\ req' = [req EXCEPT ![r].pc = "write", ![r].cur = s]
       /\ Leave(r, "write")
  /\ UNCHANGED Tables

NextCandidate(r) ==
  /\ At(r, "next") /\ req[r].op = "apply"
  /\ \E s \in req[r].todo :
       /\ req' = [req EXCEPT ![r].pc = "write", ![r].todo = @ \ {s}, ![r].cur = s]
       /\ Leave(r, "write")
  /\ UNCHANGED Tables

-----------------------------------------------------------------------------
(* Handlers of the transaction routes.                                     *)

Given(field, old) == IF field = None THEN old ELSE field

\* TransactionRepoImpl.update: the hash is recomputed from the body and, for
\* the fields it leaves out, from the row as read before.
PatchTransaction(r) ==
  LET f  == req[r].form
      i  == req[r].cur.id
      hashed == f.desc # None \/ f.amount # None
      hash   == HashOf(req[r].cur.account, Given(f.desc, req[r].cur.desc),
                       Given(f.amount, req[r].cur.amount))
      ok == i \notin DOMAIN txs \/ f.cat \in categories \cup {None}
  IN  /\ At(r, "patch")
      /\ IF ok
         THEN Update(i, [txs[i] EXCEPT
                !.desc = Given(f.desc, txs[i].desc), !.amount = Given(f.amount, txs[i].amount),
                !.hash = IF hashed THEN hash ELSE txs[i].hash,
                !.edited = txs[i].edited \/ hashed,
                !.cat = Given(f.cat, txs[i].cat),
                !.src = IF f.cat # None THEN "manual" ELSE txs[i].src,
                !.tax = IF f.tax THEN "user" ELSE txs[i].tax])
         ELSE UNCHANGED txs
      /\ Goto(r, IF ok THEN "done" ELSE Refused(r))
      /\ UNCHANGED <<accounts, statements, categories, rules>>

\* approve-suggestion: the suggestion that was read becomes the category.
ApproveSuggestion(r) ==
  LET i  == req[r].cur.id
      ok == i \notin DOMAIN txs \/ req[r].cur.sugg \in categories
  IN  /\ At(r, "approve")
      /\ IF ok THEN Update(i, [txs[i] EXCEPT !.cat = req[r].cur.sugg, !.src = "manual"])
               ELSE UNCHANGED txs
      /\ Goto(r, IF ok THEN "done" ELSE Refused(r))
      /\ UNCHANGED <<accounts, statements, categories, rules>>

\* DELETE /transactions and /transactions/:id: one statement.
DeleteTransactions(ids) ==
  /\ "delete" \in Ops /\ turn = None
  /\ ids # {} /\ ids \subseteq DOMAIN txs
  /\ txs' = Restricted(txs, DOMAIN txs \ ids)
  /\ UNCHANGED <<accounts, statements, categories, rules, req, turn>>

-----------------------------------------------------------------------------
(* Handlers of the other routes: one statement each.                       *)

\* DELETE /accounts/:id cascades to statements and transactions and clears
\* rules.account_id, which turns a rule of that account into a general one.
DeleteAccount(a) ==
  /\ "deleteAccount" \in Ops /\ turn = None
  /\ accounts[a].live
  /\ accounts' = [accounts EXCEPT ![a].live = FALSE]
  /\ statements' = {s \in statements : s[1] # a}
  /\ txs' = Restricted(txs, {i \in DOMAIN txs : txs[i].account # a})
  /\ rules' = [u \in Rule |-> IF RuleLive(u) /\ rules[u].scope = a
                              THEN [rules[u] EXCEPT !.scope = None] ELSE rules[u]]
  /\ UNCHANGED <<categories, req, turn>>

\* PATCH /accounts/:id with another accountKind.
ChangeAccountKind(a, kind) ==
  /\ "kind" \in Ops /\ turn = None
  /\ accounts[a].live /\ accounts[a].kind # kind
  /\ accounts' = [accounts EXCEPT ![a].kind = kind]
  /\ UNCHANGED <<statements, txs, categories, rules, req, turn>>

\* DELETE /rules/:id
DeleteRule(u) ==
  /\ "deleteRule" \in Ops /\ turn = None
  /\ RuleLive(u)
  /\ rules' = [rules EXCEPT ![u] = None]
  /\ txs' = [i \in DOMAIN txs |-> ForgetRefs(txs[i], {}, {u})]
  /\ UNCHANGED <<accounts, statements, categories, req, turn>>

\* Foreign keys of a rule row.
RuleRefsLive(row) ==
  row.cat \in categories /\ (row.scope # None => accounts[row.scope].live)

\* POST /rules: of the body, row, everything but its taxDescription is stored.
CreateRule(u, row) ==
  /\ "createRule" \in Ops /\ turn = None
  /\ rules[u] = NotYet /\ RuleRefsLive(row)
  /\ rules' = [rules EXCEPT ![u] = [cat |-> row.cat, scope |-> row.scope, tax |-> FALSE]]
  /\ UNCHANGED <<accounts, statements, txs, categories, req, turn>>

\* PATCH /rules/:id: every field of the web client's form is stored.
ChangeRule(u, row) ==
  /\ "changeRule" \in Ops /\ turn = None
  /\ RuleLive(u) /\ RuleRefsLive(row)
  /\ rules' = [rules EXCEPT ![u] = row]
  /\ UNCHANGED <<accounts, statements, txs, categories, req, turn>>

\* POST or PATCH of a rule whose category or account is gone by now.
RefuseRule(row) ==
  /\ Ops \cap {"createRule", "changeRule"} # {} /\ turn = None
  /\ ~RuleRefsLive(row)
  /\ Lose(Running)

\* DELETE /categories/:id: rules of the category cascade, references are cleared.
DeleteCategory(c) ==
  LET dead == {u \in Rule : RuleLive(u) /\ rules[u].cat = c}
  IN  /\ "deleteCategory" \in Ops /\ turn = None
      /\ c \in categories
      /\ categories' = categories \ {c}
      /\ rules' = [u \in Rule |-> IF u \in dead THEN None ELSE rules[u]]
      /\ txs' = [i \in DOMAIN txs |-> ForgetRefs(txs[i], {c}, dead)]
      /\ UNCHANGED <<accounts, statements, req, turn>>

\* The process dies and restarts: handlers are lost where they stand.
Crash ==
  /\ "crash" \in Ops
  /\ Running # {}
  /\ Lose(Running)

-----------------------------------------------------------------------------
Arrive(r) ==
  \/ \E a \in Account, p \in Period, f \in Files, parser \in {"template", "other"} :
       BeginImport(r, a, p, f, parser)
  \/ \E q \in Request : \E keep \in SUBSET DOMAIN req[q].held : BeginResolve(r, q, keep)
  \/ \E u \in Rule : BeginApply(r, u)
  \/ \E i \in DOMAIN txs, form \in Forms : BeginPatch(r, i, form)
  \/ \E i \in DOMAIN txs : BeginApprove(r, i)

Continue(r) ==
  \/ FindStatement(r) \/ CreateStatement(r) \/ FindExistingHashes(r) \/ BulkCreate(r)
  \/ UpdateLastPeriod(r) \/ LoadStatement(r) \/ ReviewPending(r)
  \/ FindRule(r) \/ WriteRule(r) \/ SetRuleId(r)
  \/ SuggestFromHistory(r) \/ WriteSuggestion(r) \/ SetSuggested(r) \/ FinishRows(r)
  \/ LoadCandidates(r) \/ NextCandidate(r)
  \/ PatchTransaction(r) \/ ApproveSuggestion(r)

Maintain ==
  \/ \E ids \in SUBSET DOMAIN txs : DeleteTransactions(ids)
  \/ \E a \in Account : DeleteAccount(a)
  \/ \E a \in Account, kind \in {"bank", "credit_card"} : ChangeAccountKind(a, kind)
  \/ \E u \in Rule : DeleteRule(u)
  \/ \E u \in Rule, row \in RuleRow : CreateRule(u, row) \/ ChangeRule(u, row)
  \/ \E row \in RuleRow : RefuseRule(row)
  \/ \E c \in Category : DeleteCategory(c)
  \/ \E r \in Request : Reject(r)
  \/ Crash

Next == Maintain \/ \E r \in Request : Arrive(r) \/ Continue(r)

Spec == Init /\ [][Next]_vars

\* A started handler is driven by the event loop and the database answers.
FairSpec == Spec /\ \A r \in Request : WF_vars(Continue(r)) /\ WF_vars(Reject(r))

-----------------------------------------------------------------------------
(* Properties.                                                             *)

\* The ledger seen as an ImportBook: a row's account, hash and history.
Book == INSTANCE ImportBook WITH
  book <- [i \in DOMAIN txs |-> [account |-> txs[i].account, hash |-> txs[i].hash,
                                 origin |-> txs[i].origin, edited |-> txs[i].edited]]

\* The import handlers, statement by statement, implement the atomic import of
\* ImportBook: no file enters with a line the account already knew.
ImplementsBook == Book!Spec

\* Two rows of an account share a hash only when they came in one file, the
\* user kept a held-back duplicate, or the user edited one of them: persistParsed
\* holds every other duplicate back (importService.ts, "Partition").
NoSilentDuplicate == Book!NoSilentDuplicate

\* The stored hash is the hash of the stored fields, whatever imports and edits
\* came before (TransactionRepoImpl.update recomputes it).
HashCoherent ==
  \A i \in DOMAIN txs : txs[i].hash = HashOf(txs[i].account, txs[i].desc, txs[i].amount)

\* Every reference of a row resolves: its statement and account exist, and so do
\* its category, its suggestion and its rule, through every cascade.
ReferencesResolve ==
  /\ \A s \in statements : accounts[s[1]].live
  /\ \A u \in Rule : RuleLive(u) => RuleRefsLive(rules[u])
  /\ \A i \in DOMAIN txs :
       /\ <<txs[i].account, txs[i].period>> \in statements
       /\ {txs[i].cat, txs[i].sugg} \subseteq categories \cup {None}
       /\ txs[i].rule # None => RuleLive(txs[i].rule)

\* Categorization never takes a row away from the user ("the user is the source
\* of truth", categorizationService.ts): once manual, always manual, and a tax
\* description that the user wrote is never replaced by a rule's.
UserStands ==
  [][\A i \in DOMAIN txs \cap DOMAIN txs' :
       /\ txs[i].src = "manual" => txs'[i].src = "manual"
       /\ txs[i].tax = "user" => txs'[i].tax = "user"]_vars

\* No handler runs for ever, whatever rows disappear under it.
HandlersFinish ==
  \A r \in Request : (req[r].pc # "idle") ~> (req[r].pc \in Resting)
=============================================================================
