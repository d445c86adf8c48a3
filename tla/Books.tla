-------------------------------- MODULE Books --------------------------------
(***************************************************************************)
(* The transactions page and the books under it: rows, the split of a row  *)
(* over several categories, and the two reports that are drawn from them.  *)
(*                                                                         *)
(*   web/src/pages/Transactions.tsx, Categories.tsx                        *)
(*   web/src/components/SplitModal.tsx, EditTransactionModal.tsx,          *)
(*                      AiAssistModal.tsx, ConfirmModal.tsx                *)
(*   server/src/routes/transactions.ts, categories.ts, reports.ts          *)
(*   server/src/repos/impl/TransactionRepoImpl.ts                          *)
(*   server/src/services/aiAssistService.ts                                *)
(*                                                                         *)
(* The database is SQLite, whose statements never wait, so the server does *)
(* each request of the page in one step, the AI suggestion in two. Other   *)
(* tabs and other users change the same tables. Amounts are cents; lines   *)
(* of a split with one category are taken as one line. Descriptions, dates *)
(* and tax texts are left out; Ledger models what rules do with them.      *)
(***************************************************************************)
EXTENDS Integers, FiniteSets, FiniteSetsExt

CONSTANTS
  Tx,            \* bound: transactions
  Category,      \* bound: categories
  Known,         \* those there are at the start
  Transfer,      \* those of kind transfer at the start
  Start,         \* Tx -> its amount at the start
  Amount,        \* the amounts of a row, in cents
  Part,          \* the amounts of a split line, in cents
  Ops,           \* the operations of the page in this instance
  Call,          \* bound: requests in flight
  MaxActs,       \* bound: clicks of the user that send a request or set ticks
  MaxElsewhere,  \* bound: changes that come from elsewhere, and answers that are lost
  None

ASSUME BooksAssumption ==
  /\ Transfer \subseteq Known /\ Known \subseteq Category /\ None \notin Category \cup Tx
  /\ Amount \subseteq Int /\ Part \subseteq Int \ {0}
  /\ Start \in [Tx -> Amount]
  /\ IsFiniteSet(Tx) /\ IsFiniteSet(Category)
  /\ MaxActs \in Nat /\ MaxElsewhere \in Nat

VARIABLES
  rows,        \* transactions
  splits,      \* transaction_splits: row -> category -> amount, empty when there is none
  categories,  \* the categories there are
  transfers,   \* those of kind transfer, which the reports leave out
  page,        \* the transactions page, see PageOK
  calls,       \* requests of the page and their answers
  past         \* history: what is bounded, and the split rows that got another amount

tables == <<rows, splits, categories, transfers>>
vars == <<tables, page, calls, past>>

-----------------------------------------------------------------------------
Some(S) == S \cup {None}
Partial(S, T) == UNION {[D -> T] : D \in SUBSET S}
Restricted(f, S) == [x \in S |-> f[x]]
With(f, x, y) == [z \in DOMAIN f \cup {x} |-> IF z = x THEN y ELSE f[z]]
Sum(f) == MapThenSumSet(LAMBDA x : f[x], DOMAIN f)

Row == [amount : Amount, cat : Some(Category), sugg : Some(Category),
        src : {"manual", "rule", "suggested", None}]
Split == Partial(Category, Part)

\* "busy" is the call that the dialog's buttons wait for, "loading" the one that fills it.
Dialog == [kind : {"bulk", "delete", "edit", "split", "rule", "ai"}, tx : Some(Tx),
           amount : Some(Amount), busy : Some(Call), loading : Some(Call), advice : Some(Category)]

\* The dialog of a new category: the row that it was opened for.
Creation == [tx : Some(Tx), busy : Some(Call)]

Answer == {"sent", "ok", "bad"}

TablesOK ==
  /\ DOMAIN rows \subseteq Tx /\ rows \in [DOMAIN rows -> Row]
  /\ splits \in [DOMAIN rows -> Split]
  /\ categories \in SUBSET Category /\ transfers \in SUBSET categories
  \* the foreign keys to categories
  /\ \A t \in DOMAIN rows : /\ {rows[t].cat, rows[t].sugg} \subseteq Some(categories)
                            /\ DOMAIN splits[t] \subseteq categories

PageOK ==
  /\ DOMAIN page.list \subseteq Tx
  /\ page \in [only : BOOLEAN, list : [DOMAIN page.list -> Row], cats : SUBSET Category,
               ticked : SUBSET Tx, dialog : Some(Dialog), creating : Some(Creation)]

TypeOK ==
  /\ TablesOK /\ PageOK
  /\ DOMAIN calls \subseteq Call
  /\ \A c \in DOMAIN calls : calls[c].only \in BOOLEAN /\ calls[c].step \in Answer
  /\ past \in [acts : 0..MaxActs, elsewhere : 0..MaxElsewhere, edited : SUBSET Tx]

NoSplit == Restricted(<<>>, {})
NewRow(a, s) == [amount |-> a, cat |-> None, sugg |-> s, src |-> IF s = None THEN None ELSE "suggested"]

\* TransactionRepoImpl.findAll with the filter "uncategorized".
Listed(only) ==
  Restricted(rows, {t \in DOMAIN rows : only => /\ rows[t].cat = None
                                                /\ rows[t].src \in {None, "suggested"}})

Init ==
  /\ rows = [t \in Tx |-> NewRow(Start[t], None)]
  /\ splits = [t \in Tx |-> NoSplit]
  /\ categories = Known /\ transfers = Transfer
  /\ page = [only |-> FALSE, list |-> rows, cats |-> categories, ticked |-> {},
             dialog |-> None, creating |-> None]
  /\ calls = Restricted(<<>>, {})
  /\ past = [acts |-> 0, elsewhere |-> 0, edited |-> {}]

-----------------------------------------------------------------------------
(* The tables: what a request of anyone does to them.                      *)

\* Deleting rows deletes their splits.
DeleteRows(S) ==
  /\ rows' = Restricted(rows, DOMAIN rows \ S)
  /\ splits' = Restricted(splits, DOMAIN rows \ S)
  /\ UNCHANGED <<categories, transfers>>

\* PATCH /transactions/:id: the splits stay as they are.
Changed(row, change) == [f \in DOMAIN row |-> IF f \in DOMAIN change THEN change[f] ELSE row[f]]
PatchRow(t, change) ==
  /\ rows' = [rows EXCEPT ![t] = Changed(@, change)]
  /\ UNCHANGED <<splits, categories, transfers>>
Edited(t, change) ==
  IF "amount" \in DOMAIN change /\ splits[t] # NoSplit THEN past.edited \cup {t} ELSE past.edited

\* Fault: the server trusts the sum that the dialog checked.
Trusts(t, lines) == TRUE

\* PUT /transactions/:id/splits: the lines must add up to the amount that the row has
\* now. One cent of difference passes or not, as the floating-point numbers fall.
Accepts(t, lines) == lines = NoSplit \/ Sum(lines) - rows[t].amount \in -1..1
Refuses(t, lines) == lines # NoSplit /\ Sum(lines) # rows[t].amount

PutSplits(t, lines) ==
  /\ splits' = [splits EXCEPT ![t] = lines]
  /\ UNCHANGED <<rows, categories, transfers>>

\* Fault: a split does not keep its category.
Unrestricted(c) == TRUE

\* The foreign key of transaction_splits restricts, those of transactions set NULL.
Removable(c) == \A t \in DOMAIN rows : c \notin DOMAIN splits[t]
RemoveCategory(c) ==
  /\ categories' = categories \ {c} /\ transfers' = transfers \ {c}
  /\ rows' = [t \in DOMAIN rows |->
                [rows[t] EXCEPT !.cat = IF @ = c THEN None ELSE @, !.sugg = IF @ = c THEN None ELSE @]]
  /\ UNCHANGED splits

\* POST /rules/:id/apply: every row that the rule matches and that is not manual.
ApplyRule(S, c) ==
  /\ rows' = [t \in DOMAIN rows |->
                IF t \in S /\ rows[t].src # "manual"
                  THEN [rows[t] EXCEPT !.cat = c, !.src = "rule"] ELSE rows[t]]
  /\ UNCHANGED <<splits, categories, transfers>>

AddCategory(c, transfer) ==
  /\ categories' = categories \cup {c}
  /\ transfers' = IF transfer THEN transfers \cup {c} ELSE transfers
  /\ UNCHANGED <<rows, splits>>

-----------------------------------------------------------------------------
(* The user at the page.                                                    *)

CanAct == past.acts < MaxActs
Counted == CanAct /\ past' = [past EXCEPT !.acts = @ + 1]

\* Nothing covers the list.
Idle == CanAct /\ page.dialog = None /\ page.creating = None
Shows(kind) == page.dialog # None /\ page.dialog.kind = kind
SetDialog(f, x) == page' = [page EXCEPT !.dialog[f] = x]

\* The filter is the one on the page when the user clicks; a load that follows uses it too.
Request(op, arg) ==
  [op |-> op, arg |-> arg, only |-> page.only, step |-> "sent", got |-> None]

Send(c, op, arg) ==
  /\ op \in Ops
  /\ c \in Call \ DOMAIN calls
  /\ calls' = With(calls, c, Request(op, arg))
  /\ Counted
  /\ UNCHANGED tables

\* Promise.all of three reads; the accounts are left out.
NoReads == [rows |-> None, cats |-> None]
Load(only) == [op |-> "load", arg |-> None, only |-> only, step |-> "sent", got |-> NoReads]

Begin(load) == \E c \in Call \ DOMAIN calls : calls' = With(calls, c, load)

\* "Uncategorized" and the refresh button. A load that is under way is not cancelled.
Filter ==
  /\ Idle /\ "load" \in Ops
  /\ \E only \in BOOLEAN : page' = [page EXCEPT !.only = only] /\ Begin(Load(only))
  /\ Counted /\ UNCHANGED tables

\* The checkboxes, one row or all of a page. Search and paging hide rows, ticked or not.
Tick ==
  /\ Idle /\ "bulk" \in Ops
  /\ \E S \in SUBSET DOMAIN page.list : page' = [page EXCEPT !.ticked = S]
  /\ Counted /\ UNCHANGED <<tables, calls>>

\* updateCategory
Categorize(t, k, c) ==
  /\ Idle /\ t \in DOMAIN page.list /\ k \in page.cats
  /\ Send(c, "patch", [tx |-> t, change |-> [cat |-> k, src |-> "manual"]])
  /\ UNCHANGED page

\* approve
Approve(t, c) ==
  /\ Idle /\ t \in DOMAIN page.list /\ page.list[t].src = "suggested"
  /\ Send(c, "approve", t)
  /\ UNCHANGED page

\* saveTaxDescription, when the text differs from the page's.
SaveTax(t, c) ==
  /\ Idle /\ t \in DOMAIN page.list
  /\ Send(c, "tax", t)
  /\ UNCHANGED page

Shown(kind, t) == [kind |-> kind, tx |-> t, amount |-> IF t = None THEN None ELSE page.list[t].amount,
                   busy |-> None, loading |-> None, advice |-> None]

\* The buttons of a row; the cards of a narrow window have no boxes to tick and no split.
CardOffers == {"delete", "edit", "rule", "ai"}
RowOffers == CardOffers \cup {"split"}

\* A button, and "Delete selected".
Open(kind) ==
  /\ Idle /\ kind \in (RowOffers \ {"split", "ai"}) \cap Ops
  /\ \E t \in DOMAIN page.list : page' = [page EXCEPT !.dialog = Shown(kind, t)]
  /\ UNCHANGED <<tables, calls, past>>

OpenBulk ==
  /\ Idle /\ page.ticked # {}
  /\ page' = [page EXCEPT !.dialog = Shown("bulk", None)]
  /\ UNCHANGED <<tables, calls, past>>

\* Split and AI ask the server first.
OpenLoading(kind, t, c) ==
  /\ Idle /\ kind \in RowOffers \cap {"split", "ai"} /\ t \in DOMAIN page.list
  /\ Send(c, kind, t)
  /\ page' = [page EXCEPT !.dialog = [Shown(kind, t) EXCEPT !.loading = c]]

\* Cancel, Escape or a click beside the dialog, also while it is busy.
Close ==
  /\ \/ page.creating # None /\ page' = [page EXCEPT !.creating = None]
     \/ page.dialog # None /\ page' = [page EXCEPT !.dialog = None]
  /\ UNCHANGED <<tables, calls, past>>

\* doDelete: the button stays enabled, a second click sends a second request.
Confirm(c) ==
  /\ page.dialog # None /\ page.dialog.kind \in {"bulk", "delete"}
  /\ Send(c, page.dialog.kind, IF Shows("bulk") THEN page.ticked ELSE {page.dialog.tx})
  /\ UNCHANGED page

\* The dialogs with a busy flag: "arg" is what their form holds.
Submit(kind, op, arg, c) ==
  /\ Shows(kind) /\ page.creating = None /\ page.dialog.busy = None
  /\ Send(c, op, arg)
  /\ SetDialog("busy", c)

SaveEdit(a, c) ==
  /\ Shows("edit") /\ a # page.dialog.amount
  /\ Submit("edit", "edit", [tx |-> page.dialog.tx, change |-> [amount |-> a]], c)

\* The lines that the form can hold: its comboboxes list the categories of the page.
FormLines == {lines \in Split : DOMAIN lines \subseteq page.cats}

\* save: the dialog checks the sum against the amount it was opened with.
SaveSplits(lines, c) ==
  /\ Shows("split") /\ page.dialog.loading = None
  /\ lines # NoSplit /\ Sum(lines) = page.dialog.amount
  /\ Submit("split", "put", [tx |-> page.dialog.tx, lines |-> lines], c)

ClearSplits(c) ==
  Shows("split") /\ Submit("split", "put", [tx |-> page.dialog.tx, lines |-> NoSplit], c)

\* CreateRuleDialog: the rule matches this row alone, or all rows; "now" applies it.
SaveRule(k, all, now, c) ==
  /\ k \in page.cats
  /\ Shows("rule")
  /\ Submit("rule", "rule",
       [cat |-> k, hits |-> IF ~now THEN {} ELSE IF all THEN Tx ELSE {page.dialog.tx}], c)

\* AiAssistModal.apply: a PATCH, a rule, or one after the other.
ApplyAdvice(patch, rule, c) ==
  /\ Shows("ai") /\ page.dialog.advice # None
  /\ Submit("ai", "apply",
       [tx |-> page.dialog.tx, cat |-> page.dialog.advice, patch |-> patch, rule |-> rule], c)

\* "Create category" of a row, of the split dialog (which stays) and of the rule dialog.
For(t) == [tx |-> t, busy |-> None]

OfferCategory ==
  /\ CanAct /\ page.creating = None /\ "create" \in Ops
  /\ \/ /\ Idle
        /\ \E t \in DOMAIN page.list : page' = [page EXCEPT !.creating = For(t)]
     \/ /\ Shows("split")
        /\ page' = [page EXCEPT !.creating = For(page.dialog.tx)]
     \/ /\ Shows("rule")
        /\ page' = [page EXCEPT !.creating = For(page.dialog.tx), !.dialog = None]
  /\ UNCHANGED <<tables, calls, past>>

CreateCategory(k, transfer, c) ==
  /\ page.creating # None /\ page.creating.busy = None /\ k \notin categories
  /\ Send(c, "create", [tx |-> page.creating.tx, cat |-> k, transfer |-> transfer])
  /\ page' = [page EXCEPT !.creating.busy = c]

-----------------------------------------------------------------------------
(* The server.                                                              *)

Asked(c, op) == c \in DOMAIN calls /\ calls[c].step = "sent" /\ calls[c].op = op
Answers(c, step, got) == calls' = [calls EXCEPT ![c].step = step, ![c].got = got]
Refuse(c) == Answers(c, "bad", None) /\ UNCHANGED <<tables, page, past>>

\* What the page makes of a request that fails: the rule dialog ignores that its rule,
\* which was made, is not applied.
Failed(q) ==
  IF q.op = "rule" /\ q.got # None THEN [q EXCEPT !.step = "ok"]
                                   ELSE [q EXCEPT !.step = "bad", !.got = None]

\* A statement fails outside any try: the rejection is not handled, the process exits
\* and every request that it was working on fails.
Exit ==
  /\ calls' = [c \in DOMAIN calls |->
                 IF calls[c].step = "sent" THEN Failed(calls[c]) ELSE calls[c]]
  /\ UNCHANGED <<tables, page, past>>

\* The reads of a load, in any order.
ServeLoad(c) ==
  /\ Asked(c, "load")
  /\ LET g == calls[c].got
     IN  \/ g.rows = None /\ Answers(c, IF g.cats = None THEN "sent" ELSE "ok",
                                     [g EXCEPT !.rows = Listed(calls[c].only)])
         \/ g.cats = None /\ Answers(c, IF g.rows = None THEN "sent" ELSE "ok",
                                     [g EXCEPT !.cats = categories])
  /\ UNCHANGED <<tables, page, past>>

\* DELETE /transactions answers with a count, DELETE /transactions/:id with 404.
ServeDelete(c) ==
  \/ /\ Asked(c, "bulk") \/ Asked(c, "delete")
     /\ LET S == calls[c].arg
        IN  IF S = {} \/ (calls[c].op = "delete" /\ S \cap DOMAIN rows = {})
              THEN Refuse(c)
              ELSE DeleteRows(S) /\ Answers(c, "ok", None) /\ UNCHANGED <<page, past>>

Patched(c, t, change) ==
  IF t \notin DOMAIN rows THEN Refuse(c)
  ELSE IF "cat" \in DOMAIN change /\ change.cat \notin categories THEN Exit
  ELSE /\ PatchRow(t, change) /\ Answers(c, "ok", None)
       /\ past' = [past EXCEPT !.edited = Edited(t, change)]
       /\ UNCHANGED page

ServePatch(c) ==
  /\ Asked(c, "patch") \/ Asked(c, "edit")
  /\ Patched(c, calls[c].arg.tx, calls[c].arg.change)

ServeTax(c) == Asked(c, "tax") /\ Patched(c, calls[c].arg, NoSplit)

\* POST /transactions/:id/approve-suggestion
ServeApprove(c) ==
  /\ Asked(c, "approve")
  /\ LET t == calls[c].arg
     IN  IF t \in DOMAIN rows /\ rows[t].src = "suggested" /\ rows[t].sugg # None
           THEN Patched(c, t, [cat |-> rows[t].sugg, src |-> "manual"])
           ELSE Refuse(c)

\* GET and PUT /transactions/:id/splits
ServeSplits(c) ==
  /\ Asked(c, "split")
  /\ IF calls[c].arg \in DOMAIN rows
       THEN Answers(c, "ok", None) /\ UNCHANGED <<tables, page, past>>
       ELSE Refuse(c)

ServePut(c) ==
  /\ Asked(c, "put")
  /\ LET t == calls[c].arg.tx
         lines == calls[c].arg.lines
     IN  IF t \notin DOMAIN rows THEN Refuse(c)
         ELSE \/ Refuses(t, lines) /\ Refuse(c)
              \/ /\ Accepts(t, lines)
                 /\ IF DOMAIN lines \subseteq categories
                      THEN /\ PutSplits(t, lines) /\ Answers(c, "ok", None)
                           /\ past' = [past EXCEPT !.edited = @ \ {t}]
                           /\ UNCHANGED page
                      ELSE Exit

\* CreateRuleDialog: POST /rules and then, when the dialog asks for it, POST
\* /rules/:id/apply, for which a rule that went with its category is not there.
ServeRule(c) ==
  /\ Asked(c, "rule")
  /\ LET a == calls[c].arg
         applies == a.hits # {}
     IN  IF calls[c].got = None /\ a.cat \notin categories THEN Exit
         ELSE /\ IF calls[c].got # None /\ a.cat \in categories
                   THEN ApplyRule(a.hits, a.cat) ELSE UNCHANGED tables
              /\ IF calls[c].got = None /\ applies THEN Answers(c, "sent", "made")
                                                  ELSE Answers(c, "ok", calls[c].got)
              /\ UNCHANGED <<page, past>>

\* aiAssist.suggest: only a category that was there before the model was asked.
AskModel(c) ==
  /\ Asked(c, "ai") /\ calls[c].got = None
  /\ IF calls[c].arg \in DOMAIN rows
       THEN Answers(c, "sent", categories) /\ UNCHANGED <<tables, page, past>>
       ELSE Refuse(c)

ServeAdvice(c) ==
  /\ Asked(c, "ai") /\ calls[c].got # None
  /\ \/ \E k \in Some(calls[c].got) : Answers(c, "ok", k) /\ UNCHANGED <<tables, page, past>>
     \/ Refuse(c)

\* The modal sends the PATCH and then the rule.
ServeApply(c) ==
  /\ Asked(c, "apply")
  /\ LET a == calls[c].arg
     IN  IF a.patch /\ calls[c].got = None
           THEN IF a.tx \notin DOMAIN rows THEN Refuse(c)
                ELSE IF a.cat \notin categories THEN Exit
                ELSE /\ PatchRow(a.tx, [cat |-> a.cat, src |-> "manual"])
                     /\ Answers(c, IF a.rule THEN "sent" ELSE "ok", "patched")
                     /\ UNCHANGED <<page, past>>
           ELSE IF a.rule /\ a.cat \notin categories THEN Exit
           ELSE Answers(c, "ok", None) /\ UNCHANGED <<tables, page, past>>

\* POST /categories: a name that is taken fails the unique index.
ServeCreate(c) ==
  /\ Asked(c, "create")
  /\ IF calls[c].arg.cat \in categories THEN Exit
     ELSE /\ AddCategory(calls[c].arg.cat, calls[c].arg.transfer)
          /\ Answers(c, "ok", None) /\ UNCHANGED <<page, past>>

-----------------------------------------------------------------------------
(* The page takes an answer.                                                *)

Answered(c, ops, step) == c \in DOMAIN calls /\ calls[c].op \in ops /\ calls[c].step = step
Gone(c) == Restricted(calls, DOMAIN calls \ {c})

\* onSaved and onApplied start a load, with the filter of the click.
Reload(c) == calls' = [calls EXCEPT ![c] = Load(calls[c].only)]

\* onClose of a dialog: it closes whichever dialog of that kind is open by now.
Closing(kinds) == IF page.dialog # None /\ page.dialog.kind \in kinds THEN None ELSE page.dialog

\* Fault: the ticks survive a load.
KeepTicks(list) == page.ticked

\* The effect that depends on "transactions".
TicksAfter(list) == {}

TakeList(c) ==
  /\ Answered(c, {"load"}, "ok")
  /\ page' = [page EXCEPT !.list = calls[c].got.rows, !.cats = calls[c].got.cats,
                          !.ticked = TicksAfter(calls[c].got.rows)]
  /\ calls' = Gone(c) /\ UNCHANGED <<tables, past>>

\* setTransactions(prev => prev.map(...)): the same rows, and no reload.
TakeTax(c) ==
  /\ Answered(c, {"tax"}, "ok")
  /\ page' = [page EXCEPT !.ticked = TicksAfter(page.list)]
  /\ calls' = Gone(c) /\ UNCHANGED <<tables, past>>

DialogOf == [patch |-> {}, approve |-> {}, bulk |-> {"bulk", "delete"}, delete |-> {"bulk", "delete"},
             edit |-> {"edit"}, put |-> {"split"}, rule |-> {"rule"}, apply |-> {"ai"}]

TakeDone(c) ==
  /\ Answered(c, DOMAIN DialogOf, "ok")
  /\ page' = [page EXCEPT !.dialog = Closing(DialogOf[calls[c].op])]
  /\ Reload(c) /\ UNCHANGED <<tables, past>>

\* An answer for the dialog that asked: what the server had (the user may change the lines
\* to any others), or an error to show.
\* A dialog that was closed meanwhile, and opened anew, does not take it.
TakeLoaded(c, step) ==
  /\ Answered(c, {"split", "ai"}, step)
  /\ page' = IF page.dialog # None /\ page.dialog.loading = c
               THEN [page EXCEPT !.dialog.loading = None, !.dialog.advice = calls[c].got]
               ELSE page
  /\ calls' = Gone(c) /\ UNCHANGED <<tables, past>>

\* onCreated: the row that the dialog was opened for gets the new category.
TakeCreated(c) ==
  /\ Answered(c, {"create"}, "ok")
  /\ page' = [page EXCEPT !.creating = None]
  /\ calls' = [calls EXCEPT ![c] =
                 [Request("patch", [tx |-> calls[c].arg.tx,
                                    change |-> [cat |-> calls[c].arg.cat, src |-> "manual"]])
                  EXCEPT !.only = calls[c].only]]
  /\ UNCHANGED <<tables, past>>

\* Errors are shown in the dialogs that have a place for them; nothing is loaded again.
TakeError(c) ==
  /\ Answered(c, {"load", "tax", "create"} \cup DOMAIN DialogOf, "bad")
  /\ page' = IF page.dialog # None /\ page.dialog.busy = c
               THEN [page EXCEPT !.dialog.busy = None]
             ELSE IF page.creating # None /\ page.creating.busy = c
               THEN [page EXCEPT !.creating.busy = None]
             ELSE page
  /\ calls' = Gone(c) /\ UNCHANGED <<tables, past>>

Elsewhere(next) == past.elsewhere < MaxElsewhere /\ past' = [next EXCEPT !.elsewhere = @ + 1]

\* The request or its answer does not arrive.
Lose(c) ==
  /\ c \in DOMAIN calls /\ calls[c].step # "bad"
  /\ calls' = [calls EXCEPT ![c] = Failed(@)]
  /\ Elsewhere(past)
  /\ UNCHANGED <<tables, page>>

-----------------------------------------------------------------------------
(* Elsewhere: other tabs, other users, imports.                             *)

Import(t, a, s) ==
  /\ t \in Tx \ DOMAIN rows /\ s \in Some(categories)
  /\ rows' = With(rows, t, NewRow(a, s)) /\ splits' = With(splits, t, NoSplit)
  /\ Elsewhere([past EXCEPT !.edited = @ \ {t}])
  /\ UNCHANGED <<categories, transfers, page, calls>>

Amend(t, a) ==
  /\ t \in DOMAIN rows /\ a # rows[t].amount
  /\ PatchRow(t, [amount |-> a])
  /\ Elsewhere([past EXCEPT !.edited = Edited(t, [amount |-> a])])
  /\ UNCHANGED <<page, calls>>

Remove(t) == t \in DOMAIN rows /\ DeleteRows({t}) /\ Elsewhere(past) /\ UNCHANGED <<page, calls>>

\* DELETE /categories/:id
DeleteCategory(k) ==
  /\ k \in categories
  /\ \/ Removable(k) /\ RemoveCategory(k) /\ Elsewhere(past) /\ UNCHANGED <<page, calls>>
     \/ ~Removable(k) /\ Exit

\* The editor of the categories page: a new category, or another kind for an old one.
EditCategory(k, transfer) ==
  /\ IF k \in categories
       THEN /\ transfers' = IF transfer THEN transfers \cup {k} ELSE transfers \ {k}
            /\ transfers' # transfers
            /\ UNCHANGED <<rows, splits, categories>>
       ELSE AddCategory(k, transfer)
  /\ Elsewhere(past) /\ UNCHANGED <<page, calls>>

-----------------------------------------------------------------------------
User(c) ==
  \/ \E t \in Tx, k \in Category : Categorize(t, k, c)
  \/ \E t \in Tx : Approve(t, c) \/ SaveTax(t, c)
  \/ \E t \in Tx, kind \in {"split", "ai"} : OpenLoading(kind, t, c)
  \/ Confirm(c)
  \/ \E a \in Amount : SaveEdit(a, c)
  \/ \E lines \in FormLines : SaveSplits(lines, c)
  \/ ClearSplits(c)
  \/ \E k \in Category, all, now \in BOOLEAN : SaveRule(k, all, now, c)
  \/ \E patch, rule \in BOOLEAN : ApplyAdvice(patch, rule, c)
  \/ \E k \in Category, transfer \in BOOLEAN : CreateCategory(k, transfer, c)

Server(c) ==
  \/ ServeLoad(c) \/ ServeDelete(c) \/ ServePatch(c) \/ ServeTax(c) \/ ServeApprove(c)
  \/ ServeSplits(c) \/ ServePut(c) \/ ServeRule(c) \/ AskModel(c) \/ ServeAdvice(c)
  \/ ServeApply(c) \/ ServeCreate(c)

Take(c) ==
  \/ TakeList(c) \/ TakeTax(c) \/ TakeDone(c) \/ TakeCreated(c) \/ TakeError(c)
  \/ \E step \in {"ok", "bad"} : TakeLoaded(c, step)

Next ==
  \/ Filter \/ Tick \/ OpenBulk \/ Close \/ OfferCategory
  \/ \E kind \in {"delete", "edit", "rule"} : Open(kind)
  \/ \E c \in Call : User(c) \/ Server(c) \/ Take(c) \/ Lose(c)
  \/ \E t \in Tx, a \in Amount, s \in Some(Category) : Import(t, a, s)
  \/ \E t \in Tx, a \in Amount : Amend(t, a)
  \/ \E t \in Tx : Remove(t)
  \/ \E k \in Category : DeleteCategory(k)
  \/ \E k \in Category, transfer \in BOOLEAN : EditCategory(k, transfer)

Spec == Init /\ [][Next]_vars

-----------------------------------------------------------------------------
(* Reports over the rows S of a year: routes/reports.ts.                    *)

Unsplit(S) == {t \in S : splits[t] = NoSplit}
Total(S) == Sum([t \in S |-> rows[t].amount])

\* reportByCategory: rows without splits by their category, the others by their lines.
ByCategory(S) ==
  [k \in Some(categories) \ transfers |->
     Total({t \in Unsplit(S) : rows[t].cat = k})
     + Sum([t \in {u \in S : k \in DOMAIN splits[u]} |-> splits[t][k]])]

\* reportCashflow: every row by its own category; the months are left out.
Cashflow(S) ==
  LET counted == {t \in S : rows[t].cat \notin transfers}
  IN  [income   |-> Total({t \in counted : rows[t].amount > 0}),
       expenses |-> -Total({t \in counted : rows[t].amount < 0})]

\* The line "YTD" of the reports page.
YearNet(S) == Cashflow(S).income - Cashflow(S).expenses

-----------------------------------------------------------------------------
(* Properties.                                                              *)

\* The two reports agree on the rows of a year, to a cent for every split row, unless
\* a row moves money between accounts in its own category or in one of its lines, or
\* its amount was edited after it was split: every split was checked against the
\* amount of the row at the time, though the dialog knew an older one.
ReportsAgree ==
  \A S \in SUBSET (DOMAIN rows \ past.edited) :
    (\A t \in S : transfers \cap ({rows[t].cat} \cup DOMAIN splits[t]) = {})
    => LET d == Sum(ByCategory(S)) - YearNet(S)
           n == Cardinality(S \ Unsplit(S))
       IN  -n <= d /\ d <= n

\* Whatever arrives late, the rows that a bulk deletion takes are rows of the list that
\* the page shows: ticks do not survive the list they were set on.
TicksAreListed == page.ticked \subseteq DOMAIN page.list
=============================================================================
