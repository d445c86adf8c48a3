# A verification project for KeepMyLedger

KeepMyLedger is a bookkeeping service: a TypeScript server (Express 4) over SQLite or PostgreSQL, a React
client, Stripe for the subscriptions, a language model for suggestions, and S3 or Google Drive for receipts.
This directory holds TLA+ specifications of its core, TLC configurations that check them on small instances,
and theorems about them that TLAPS checks for every value of the constants.

`tlc -config <run>.cfg MC<Module>.tla` repeats a run, `tlapm <Module>Proofs.tla` repeats the proofs.
`PROJECT.json` lists the components, the runs, the mutated definitions that show each property can fail, the
source lines of every definition, the hazards, and the theorems.

## 1. The system

| Component | Source | State it keeps | Operations | Module |
|---|---|---|---|---|
| Import and deduplication | `services/importService.ts`, `routes/imports.ts` | statements, transactions, `last_statement_period` | preview, commit, one-shot import, resolve held-back lines | `Ledger`, `ImportBook` |
| Transactions and their page | `routes/transactions.ts`, `TransactionRepoImpl.ts`, `web/src/pages/Transactions.tsx`, `SplitModal.tsx`, `AiAssistModal.tsx` | transaction rows, splits; the list, the ticks and the dialog of the page | list, patch, approve, delete, bulk delete, split, ask the model | `Ledger` (without splits), `Books` (with the page) |
| Categorization | `services/categorizationService.ts`, `routes/rules.ts`, `routes/categories.ts` | rules, categories, suggestions | categorize, re-apply, create, change, delete | `Ledger` |
| Accounts | `routes/accounts.ts` | accounts | create, change the kind, delete | `Ledger` |
| Billing | `routes/billing.ts`, `services/stripeService.ts`, `routes/admin.ts` | one subscription row per organization; Stripe's customers and subscriptions | set-up, subscribe, cancel, reactivate, webhook, grant, revoke, extend | `Billing` |
| AI quota | `routes/transactions.ts` (ai-suggest), `AiUsageRepoImpl.ts`, `services/tierService.ts` | counts per user and day | check, answer, count | `AiQuota` |
| Sign-up and sign-in | `routes/localAuth.ts`, `auth/passport.ts`, `UserRepoImpl.ts`, `seedBusiness.ts` | users, identities, second factors, reset tokens | register, login, OAuth, set-up of a user; second factor, reset | `Tenancy` (who the user is), `Access` (what lets the user in) |
| Sessions, scheduler, email | `auth/sessionStore/SqliteSessionStore.ts`, `scheduler.ts`, `services/emailService.ts`, `routes/emailWebhook.ts` | session rows, the reminder mark, the bounce mark | store, touch, regenerate, destroy; remind, deliver, bounce | `Access` |
| Organizations | `routes/orgs.ts`, `routes/invites.ts`, `routes/account.ts` | organizations, memberships, businesses, invites | create, rename, delete, invite, accept, remove, leave | `Tenancy` |
| Request context and browser | `middleware/requireUser.ts`, `web/src/auth/AuthContext.tsx`, `web/src/api/client.ts` | the header and the selection of a tab | resolve, refresh, switch, reload | `Tenancy` |
| Receipts, logos, Drive | `routes/receipts.ts`, `routes/orgs.ts`, `services/storage/*`, `services/driveService.ts`, `ReceiptPicker.tsx` | receipt rows, links, logo keys, objects, Drive tokens and folder | upload, pick, link, unlink, delete, prefer, consent, delete a business | `Files` |
| Uploads and the import wizard | `routes/imports.ts`, `services/importService.ts`, `web/src/pages/Import.tsx` | the upload directory, the remembered mapping, bank hints, format samples; the wizard and its requests | preview, parse again, ask the model, report a format, commit, abandon, reap | `Uploads` |
| Parsers | `parsers/*` | none | file to lines | `Parsers` |
| Categories and reports | `routes/categories.ts`, `routes/reports.ts`, `web/src/pages/Categories.tsx`, `Reports.tsx` | categories and their kind | create, change, delete; by category, cash flow | `Books` |
| Migrations, subscription gate, encryption, audit log, scripts | `db/*`, `middleware/requireActiveSubscription.ts`, `auth/crypto.ts`, `scripts/*` | | | none, see section 7 |

How the parts meet. All handlers share one database and one event loop. Every request passes `requireUser`,
which turns the session and the `x-business-id` header into a user, an organization, a business and a role, and
the repositories are built for that business. Stripe calls the server back with webhooks. The client keeps the
selected business in a module variable, in localStorage and in React state.

What is hard. A handler is a row of awaited statements with (almost) no transactions, so everything between two
statements can be interrupted: on PostgreSQL by other handlers, on both backends by a crash, and around calls to
Stripe, the language model, argon2, the bucket and Google by everything. Express 4 ignores the promise of an async handler, so a
statement that fails outside a `try` is an unhandled rejection. Webhooks come late, twice or not in order. Foreign keys
cascade or set NULL under handlers that have read the rows before.

What makes each part correct:

* import: a line that is already known never enters unseen;
* categorization: the user's choice is never overwritten;
* references: nothing dangles, whatever is deleted meanwhile;
* billing: at most one subscription is billed, and the row ends up telling which; a grant and a bill exclude each other, except for a subscription of whose creation the server never heard;
* quota: the limits are passed by a bounded number of answers only;
* files: a name in a row resolves unless its deletion was cut short, nothing but faults leaves objects behind, a link stays
  within one business, a consent given once is never lost;
* access: no session without the code while a second factor is on, and no second factor that the user cannot pass; what was ended stays ended;
* books: what a bulk deletion takes is in the list that the page holds, and the two reports agree on what has been split;
* parsers: what a bank wrote is what is read, in the forms of section 4 (section 6 has forms that are misread);
* uploads: what is imported is the file that the user chose last, once, as far as the page has kept hold of its uploads; retries pay for nothing twice;
* tenancy: a person is one user, a sign-in repairs what a crash left, an organization keeps a business, an invite
  admits one user, a page shows the organization that it works on.

## 2. Plan

Done, in this order: `Ledger` with `ImportBook` as its abstract specification, and their proofs; `Billing` against an external
Stripe; `AiQuota`; `Tenancy`; `Uploads`; `Files`; `Access`; `Books`; `Parsers`; each with its proofs.

Left, in this order:

1. What the PDF readers of `Parsers` give for every page and what `InferMappingFromContent` makes of a CSV without headings, as the other readers are proved now.
2. The subscription gate as a guard of the actions of `Ledger`, which composes it with `Billing`.
3. The migration runners, with a crash between two files, and `scripts/sqliteToPg.ts`.

## 3. Modules

### One step

One action is one awaited SQL statement (or one `db.transaction`) together with the code up to the next await. The
constant `Backend` chooses what may come between two steps. `SqliteAdapter` wraps better-sqlite3, which is synchronous, in promises that are already
resolved: the handler continues in the microtask queue, before any other handler gets the event loop. So with
`"sqlite"` the variable `turn` keeps the event loop with a handler until it rests. With `"pg"` every
statement is a round trip and any handler may run. Both are supported by the server (`makeAdapter`).

`Ops` names the handlers that the clients of an instance call, so a run can look closely at some of them. The actions are the same in
every run. Definitions under "Fault" comments are alternatives that no specification uses; replacing
a definition by one of them shows which property notices.

### Ledger

State: `accounts`, `statements`, `txs`, `categories`, `rules` are the tables; `req` maps a request to the program
counter, arguments and locals of its handler; `turn` is above. A statement's id is its account and period. The date
of a line is part of its description; notes are left out; a tax text is reduced to who wrote it. A rule's pattern
and amount range are the relation `Matches`, the 0.4 token overlap the relation `Similar`, the hash the function
`HashOf`. Created accounts and categories are there from the start.

`BeginImport` is `persistParsed` up to the first write (it flips the amounts of credit cards, then hashes), `FindStatement` to
`ReviewPending` the statements that follow, `FindRule` to `FinishRows` `categorizeAll` for one row, `LoadCandidates` and
`NextCandidate` `reapplyRules`. A read-back that only builds the answer has no step. Two fields of a row are history: how it
came in and whether the user edited it.

Failure: a foreign key that fails inside the import routes is caught and answered with 422 (`Refused`). Elsewhere nobody
catches it; the handler is `rejected`, and `Reject` either ends the process (every running handler is lost between two
of its statements) or, with the Sentry listener that `bootstrap` may install, leaves this one request without an answer. `Crash` is a kill from outside.

`ImportBook` is the promise of `importService.ts` without statements or handlers: a file enters an account as a whole and brings no
line that the account knows, or it is a reviewed duplicate. Which of its lines enter is left open, so a line that is dropped between two statements (`importService.ts:230`, on PostgreSQL) is not noticed. `Ledger` implements it (`ImplementsBook`, by
`INSTANCE ... WITH`).

### Billing

State: `user`, the subscription `row`, Stripe's `customers`, `subs` and the `events` under way, handlers in `req`. Stripe is
external: it changes subscriptions when asked, when a payment succeeds or fails, when it gives up and when the period ends, and
it sends one event for each change. `Delivery` is `"ordered"` (each event once, in order) or `"any"` (any event, again and again).
`Faults` may contain `"stripe"` (a call fails before it took effect, `CallFails`, or after it, `AnswerLost`) and `"crash"`.
Stripe moves a subscription at any moment (`StripeMoves`), also between its answer to a handler and the write of that handler. Two marks are history: `lost` of a subscription says
that the server got no answer when it was created, `late` of the row that a subscribe wrote a status from which its subscription had moved on (`MovedOn`).
Left out: seats, invoices, the billing portal. A trial is a row whose end is in the future. `RowTellsBilling` relates the row to
Stripe when no event is under way: a live subscription is the one that the row names, and when all have ended the row is not active, unless a late write said so. `PaidHasTier` and `GrantedIsNotBilled` excuse `lost` subscriptions:
the handler then answers 500 and writes nothing, so the webhook stores the subscription under the plan that was there, and a revoke makes it free.
What the source promises about the write after a subscribe does not hold, neither of the tier nor of the status (section 6).

### AiQuota

One call for a suggestion reads the tier, then the count, asks the model and counts. Every statement is an interleaving
point, on both backends: the model's answer takes long. The tier changes at any time and midnight comes up to `MaxDay`
times. The lifetime quota is the sum over days, the daily one today's row.

### Tenancy

State: the tables `users`, `identities`, `orgs`, `members`, `businesses`, `trials`, `invites`; `tabs` holds each browser's session,
header and page state; `calls` the request in flight; `admitted` is history. The default categories and the default rules of a
business are one field each: the `user_id` they carry, because a deleted user takes those rows along; for the nine rules it is that of any one of them, whose `INSERT` others precede and follow. `AddOrg` to `StartTrial` are the
statements of `provisionDefaults`. `Resolve` is `requireUser`, `AsOwner` is `requireOrgOwner`. `Refresh` and `List` are the two halves of `refresh()`
in the client, `Picked` its end. `Scenarios` is a set of sets of operations, and `ops` the one that the browsers of a behaviour keep to: one run looks closely at
sign-up, at organizations and at their deletion in turn. On SQLite a handler lets others in while a password is hashed (`Hashed`) and while Stripe is
called (`Erase`). `None` and `Gone` stand for a row that is not there yet and one that was deleted. Inputs are what the client's pages offer: an owner can remove every member but oneself, the
page names businesses it shows, and so on. A person has one email, which never changes (`PATCH /api/auth/local/email` is left out), one username and one Google account.
Not in it: OAuth profiles without an email, the second factor (`Access`), logos (`Files`), `POST /orgs` (the client never calls it).

### Uploads

State: `files` is the upload directory, `saved` the mapping of the account, `hints` and `samples` two tables, `page` the wizard,
`calls` its requests in flight, `drops` the DELETE requests that an effect of the page sends and forgets. `book` records what commits
handed to `persistParsed`; what that does line by line is `Ledger`'s. `past` is history: the file of each token, uploads that
the answer for another upload or a cancel that failed took off the page (`lost`), commits whose answer was not heard, and the counts that are bounded.

A user action (`SubmitPreview` to `Leave`) checks what enables its button and sends one request. `Render` is a render with the
effect of `Import.tsx` that abandons an open preview: whenever the token or the stage changes, the old token is dropped.
`After` is what each answer does to the page. It does not ask whether the answer is still wanted, because the page does not;
only a page that was left hears nothing. The handlers are split where they await something that matters to others: the
file, a row, the model. `trackLlmHit` is a promise that nobody awaits (`hints.todo`, `hints.describing`).

Parsing is a relation: which CSV reads under which mapping, which PDF the templates read, which file is refused. QIF and OFX behave as
PDFs without a model. The reaper deletes files that are an hour old; a user can pause for an hour anywhere, so `Reap`
may delete any files at any time. A request that never arrives is not told from one that a crash cuts short. Left out: the
one-shot import (no page calls it), debug routes, the rate limiter, a change of the account, and the review after a commit, which is in `Ledger`.

### Files

State: `logos`, `txs`, `receipts`, `links`, `pref` and `grant` are columns and tables; `bucket` and `drive` are what S3 and Google
hold; `calls` the handlers that wait for one of them, `deletes` the deletions of objects that `void storage.delete(...)` sends and
forgets. A receipt is named by its object key or Drive file, as its unique indexes have it. `past` is history: keys ever used,
receipts whose deletion was cut short, objects that a fault left behind.

On SQLite a handler runs from one answer of the outside to its next request, which is one action: `ToBucket`, `PutObject`, `RecordObject` are an
upload to the bucket; `ToDrive`, `MakeFolder`, `MakeFile` one to the Drive; `EraseObject`, `DeleteRow` a deletion; `SetLogo` a logo. `Drop` is the
batch of the picker, whose files go one by one and stop at the first that fails (`Answer`). `DeleteBusiness` deletes a business with its rows and
collects the objects that go with it. Outside: the bucket may store an object and fail to say so, Google may refuse or expire a token, the
process may die. `MergeTokens` is what both writers of the tokens, the callback of a consent (`Exchange`) and a client that renews its access (`Refresh`), do to the row.

### Access

One account, its browsers and their tabs. State: `account` (password, second factor, mail marks, trial), `tokens` of resets, `sessions` by id, the `cookie` of each
browser, `pages` as the tabs show them, `calls` in flight with the copy of the session that `express-session` read, `mails` under way, `known`
(what the user's app and mailbox hold) and `past` (ids ever given, sessions ended, links used, secrets confirmed).

A request is one action, unless it waits for argon2 (`Login`, `Reset`), for the drawing of a QR code (`Setup`) or, as
`Work`, for anything else. What comes after the wait is `Refuse`, `Admit`, `AskForCode`, `SetPassword`, `Drawn`, `Worked`. `Touch` is what the end of a request does to a
session that it did not change. A tab whose page is stale still sends what its buttons offer (`Card`).
Passwords, secrets and links are numbers in the order of their making. The user may type any old or coming password and any code of a secret the app has seen.

### Books

State: `rows`, `splits`, `categories`, `transfers` are the tables; `page` is `Transactions.tsx` with its list, filter, ticks and dialog; `calls` are its requests
and their answers. The server does a request in one action (`ServeLoad` reads one table at a time), the suggestion of the model in two, a rule that is made and applied in two, for which the page sends two requests. `creating` is the dialog of a new category, which may be closed and opened again while its request is under way. `TakeList` to `TakeError` are what an answer does to the page: a
load replaces the list, whichever comes last; a mutation starts a load with the filter that was set when the user clicked; a dialog closes
although another one may be open by now. `Import`, `Amend`, `Remove`, `DeleteCategory` and `EditCategory` are what another tab or user does to the same tables, `Lose` is an answer that does not arrive. `Exit` is the end of the process
after a statement that fails outside any `try`, which here fails every request under way.

`ByCategory` and `Cashflow` are the two aggregations of `routes/reports.ts`, the former with the lines of splits in place of their row, both without categories of kind transfer. `ReportsAgree` allows a cent
for each split row, which is the tolerance of the server's check.

### Parsers

Cells (words, numbers, dates) take the place of strings, a file is a sequence of symbols (CSV), of lines (QIF), of leaves (OFX) or of positioned
fragments (PDF). `ParseCsv`, `ParseQif`, `ParseOfx` and `ParseStatement` translate the readers of `parsers/*`. A symbol stands for what the reader
tells apart: a delimiter, a quote, a sign, a date with four, two or no digits of a year (`NoYear`, so that 00 is a year). Columns count from one; a mapping that leaves a column out has 0 there, and one that says so as the type documents it has -1 (`none` of a form), which
`ParseRow` and `RowLooksLikeData` do not treat alike.

The other half is the bank, which is external: `CsvFile`, `QifFile`, `OfxFile`, `PdfFile` write the transactions `txs` in the form `form`. One step
reads, and `StatementIsRead` says that the reader gives back what was written. `FileSpec` is the specification, since the proofs extend this module and `AiQuota` together. Amounts are cents; thousands separators, currency marks, white
space and the text inside words are left out.

## 4. Runs

| Run | Instance | Distinct states | What it shows |
|---|---|---|---|
| `ledger_import` | SQLite, 3 requests, 2 periods, files with equal and with new lines, edits, deletions, a kind that changes | 132 000 | `TypeOK`, `NoSilentDuplicate`, `HashCoherent`, and the refinement `ImplementsBook` |
| `ledger_categorize` | SQLite, 3 requests, 2 categories, a rule that comes late, crashes | 503 000 | `UserStands`: neither category nor tax text of the user is taken back |
| `ledger_refs_pg` | PostgreSQL, 2 requests, deletions of everything | 208 000 | `ReferencesResolve`, and `HandlersFinish` under fairness |
| `billing_page` | one page, 2 customers, 2 subscriptions, 2 events under way, crashes, ordered events | 956 000 | `TypeOK`, `OneLiveSubscription`, `RowTellsBilling`, `DeletedInSyncIsNotBilled`, and `SubscriptionIsLearnt` under fairness |
| `billing_admin` | one page, one administrator, Stripe calls that fail before or after they took effect, events in any order | 3 332 000 | `PaidHasTier`, `GrantedIsNotBilled` |
| `aiquota` | 3 calls, limits of 2, one midnight | 6 500 | `TypeOK`, `OvershootBounded` |
| `tenancy` | SQLite, 2 people, 2 browsers, 2 user ids, 2 businesses, one invite, one crash; three scenarios | 414 000 | `TypeOK`, `OneUserPerPerson`, `SignInSetsUp`, `InviteIsUsedOnce`, `OrgKeepsABusiness`, `PageShowsItsOrg` |
| `uploads` | a CSV, a PDF that only the model reads, a file that is refused, 2 uploads, 2 requests in flight, 5 requests, one fault | 626 000 | `TypeOK`, `ImportsTheChosenFile`, `ImportedOnce`, `DoneOnce` |
| `files` | 2 businesses with a transaction each, 3 keys, 2 Drive files, 2 calls, 4 requests, 2 consents, one fault | 121 000 | `TypeOK`, `NamesResolve`, `NothingLeftBehind`, `LinksStayInBusiness`, `KeepsConsent` |
| `access` | a browser with 2 tabs, 3 passwords, 2 secrets, a reset link, 3 sessions, 5 requests, one fault | 361 000 | `TypeOK`, `EnabledIsConfirmed`, `CodeBeforeSession`, `EndedStaysEnded`, `UsedLinkIsDead` |
| `books` | 2 rows, 3 categories of which one is a transfer and one comes late, 2 calls, 2 actions of the user, one from elsewhere | 461 000 | `TypeOK`, `TicksAreListed`, `ReportsAgree` |
| `parsers` | one to three of four transactions that cross the year, in 62 forms | 4 960 | `StatementIsRead` |

Bounds. Requests of `Ledger` are used once: three of them are an import, another import of the same file or period, and a review or an edit
between them, and every hazard listed needs no more; two suffice where every statement interleaves. Two lines
are enough for a file that contains a duplicate of itself and for one that is half known. In `Billing` the slots are reused, and `MaxEvents`
bounds the events under way, not the length of a history; two subscriptions and two customers are one more than the code means to have. In `AiQuota` the
overshoot grows with the number of calls and the theorem is for any number. In `Tenancy` user ids, business ids
and invites are never reused, so the bounds are on how many are ever made: two users are a founder and a guest, two businesses are either two
of one organization, one of which may go, or one in each of two organizations, and one crash reaches each place in the set-up.
In `Uploads` five requests are two previews, a request about the first one that is still under way, and
a commit with its retry; leaving the page counts as one; each property's fault shows within them. Two tokens and two requests in flight are the
one wanted and the one that comes late. One fault is a lost answer, a crash, or a failure of the model or of the storing.
In `Files` a batch of two, a second request and a third that deletes or links reach every pair of handlers that can wait at the same time, with keys
to spare for a logo and its successor. In `Access` two tabs are the one that acts and the one that is stale, and three passwords the
first, the one set by a link and the one set by another request with it. In `Books` two actions of the user are one that is under way and one that
meets it; the third actor comes from elsewhere. In `Parsers` the four transactions hold between them each special sign, both signs of an amount, both years and a repeated payee. Its forms are those that the readers are meant for and read;
the ones that they misread are in section 6.
In `Tenancy`, `MaxBusiness = 3` passes too (1 750 000 states) and takes too long to be the run that is kept.

Deadlock is checked in `aiquota` only: everywhere else the system may rest, when the requests, ids or acts that a bound allows are used up, when a
user is deleted in `Billing`, when the file is read in `Parsers`. Symmetry is used over requests, tabs, people, ids, keys, calls and
rows in runs without liveness properties, wherever the constants do not tell them apart.

Fairness. `FairSpec` of `Ledger`: a handler whose next statement can run runs it (the event loop and the pool do not
starve a promise) and a rejection is acted on. `FairSpec` of `Billing`: the same for handlers, and strong fairness for the delivery of
webhooks, because Stripe retries for days. Nothing is assumed of users, crashes, or Stripe's decisions.

Every property of a passing run has a fault in `PROJECT.json` under which TLC finds it violated.

## 5. Proofs

| Theorem | Module | Statement |
|---|---|---|
| `TypeCorrect` | `LedgerProofs` | `Spec => []TypeOK` |
| `NoDanglingReference` | `LedgerProofs` | `Spec => []ReferencesResolve`, on both backends |
| `SerialImplementsBook` | `LedgerProofs` | on SQLite, `Spec => ImplementsBook` |
| `SerialNoSilentDuplicate` | `LedgerProofs` | on SQLite, `Spec => []NoSilentDuplicate` |
| `SerialUserStands` | `LedgerProofs` | on SQLite, `Spec => UserStands` |
| `SerialHashCoherent` | `LedgerProofs` | on SQLite, `Spec => []HashCoherent` |
| `NeverSilent` | `LedgerProofs` | the abstract book has no silent duplicate |
| `TypeCorrect`, `FreeOvershoot`, `DailyOvershoot`, `Overshoot` | `StandaloneProofs` | the quota's types, its bounds, and both as `OvershootBounded` |
| `TypeCorrect` | `AccessProofs` | `Spec => []TypeOK` |
| `EndedStays` | `AccessProofs` | `Spec => EndedStaysEnded` |
| `CodeComesFirst` | `AccessProofs` | `Spec => CodeBeforeSession` |
| `FactorIsConfirmed` | `AccessProofs` | `Spec => []EnabledIsConfirmed` |
| `LinksAreUsedOnce` | `AccessProofs` | `Spec => UsedLinkIsDead` |
| `TypeCorrect` | `FilesProofs` | `Spec => []TypeOK` |
| `ConsentStays` | `FilesProofs` | `Spec => KeepsConsent` |
| `LinksHold` | `FilesProofs` | `Spec => []LinksStayInBusiness` |
| `RowsNameObjects` | `FilesProofs` | `Spec => []NamesResolve` |
| `NothingStays` | `FilesProofs` | `Spec => []NothingLeftBehind` |
| `TypeCorrect` | `BillingProofs` | `Spec => []TypeOK` |
| `NeverTwoSubscriptions` | `BillingProofs` | with one page, `Spec => []OneLiveSubscription` |
| `RowIsTold` | `BillingProofs` | with one page and events in order, `Spec => []RowTellsBilling` |
| `DeletedIsNotBilled` | `BillingProofs` | with one page, events in order and no failing call, `Spec => []DeletedInSyncIsNotBilled` |
| `PaidUsersHaveTheirTier` | `BillingProofs` | on SQLite without crashes, `Spec => []PaidHasTier` |
| `GrantedUsersAreNotBilled` | `BillingProofs` | on SQLite without crashes, `Spec => []GrantedIsNotBilled` |
| `TypeCorrect` | `UploadsProofs` | `Spec => []TypeOK` |
| `NothingIsPaidTwice` | `UploadsProofs` | `Spec => []DoneOnce` |
| `NoSecondImport` | `UploadsProofs` | `Spec => []ImportedOnce` |
| `TheChosenFile` | `UploadsProofs` | `Spec => []ImportsTheChosenFile` |
| `TypeCorrect` | `TenancyProofs` | `Spec => []TypeOK` |
| `OnePerson` | `TenancyProofs` | `Spec => []OneUserPerPerson`, on both backends |
| `PageIsRight` | `TenancyProofs` | `Spec => []PageShowsItsOrg`, on both backends |
| `AnOrgKeepsABusiness` | `TenancyProofs` | on SQLite, `Spec => OrgKeepsABusiness` |
| `SignInCompletes` | `TenancyProofs` | on SQLite, `Spec => SignInSetsUp` |
| `InvitesAreUsedOnce` | `TenancyProofs` | on SQLite, `Spec => []InviteIsUsedOnce` |
| `TypeCorrect` | `BooksProofs` | `Spec => []TypeOK` |
| `TicksStayListed` | `BooksProofs` | `Spec => []TicksAreListed` |
| `TheReportsAgree` | `BooksProofs` | `Spec => []ReportsAgree` |
| `QifIsRead` | `StandaloneProofs` | `FileSpec => [](QifSays => StatementIsRead)` |
| `OfxIsRead` | `StandaloneProofs` | `FileSpec => [](OfxSays => StatementIsRead)` |
| `CsvIsRead` | `StandaloneProofs` | `FileSpec => [](CsvSays => StatementIsRead)` |
| `ChaseIsRead` | `StandaloneProofs` | for every statement of a period, `Chase` gives its rows their years |

All of them hold for any sets of accounts, rules, requests, lines and files, from the assumptions named in the modules
(`LedgerAssumption` says that amounts are closed under negation, that files and forms are well typed and that the
sentinel values are not data; `QuotaAssumption` that the limits are numbers and the calls finite; `AccessAssumption` that the bounds are numbers and `None` is
not; `FilesAssumption` that keys and Drive files differ and every transaction has a business; `GrantAssumption` that `None` is no consent and no grant;
`BillingAssumption` that ids are numbers and pages are not administrators; `UploadsAssumption` what a parser does to a file; `TenancyAssumption` and the two
`RowAssumption`s that `None` and `Gone` are neither ids nor rows; `BooksAssumption` that there are finitely many rows and categories
and that a line of a split is not zero). SQLite, one page, ordered events and the like are hypotheses of a theorem where the code needs
them: section 6 says what happens without them, and the instances of section 4 satisfy them.

*Types.* `TypeOK` is not inductive: a handler that inserts needs to know that its account and period are set. `TypeInv` adds `Shape`, which says
which locals are present at which program counter.

*References.* Per action: inserted rows refer to a statement that the same statement checks by its foreign key, deletions go through
`ForgetRefs`. No invariant of the handlers is needed beyond `TypeInv`, which is why it holds under every interleaving.

*Refinement.* With SQLite, `SerialInv` adds `OneAtATime` (only the request that has the turn is between two statements) and
`FreshRows` (the rows that a handler is about to insert have hashes that the account does not know). `FreshRows` is what the partition
establishes, and it survives to the insertion only because nobody else moves: this is the reason why the theorem needs `Serial`.
Every step then maps to a step of `ImportBook` or leaves the book alone. `NoSilentDuplicate` follows from the refinement and `NeverSilent`.

*The user's choice.* `UserInv` adds `LeavesTheUser` to `SerialInv`: a handler that is about to write a category or a tax text to a row does so to a row that
is not the user's, or does what the user asks. A handler learns this when it reads the row and writes several statements later; that the row is
still the same then is again `OneAtATime`. *Hashes.* `HashInv` adds that rows about to be inserted carry their own hash (`PreparedHashed`) and that an edit
still knows the fields of the row as they are (`PatchReads`), so that the hash it recomputes is the hash of what results.

*Quota.* `FreeInv`: the answers given plus the calls already admitted are at most the limit, less one, plus the number of calls. The proof needs that a
call leaves the admitted set exactly when it answers or fails. `DailyInv` also separates the calls that were admitted on an earlier day.

*Access.* `SidInv`: session ids are given once, so an ended one and one that a request remembers lie among those given, and a request without a session carries a
fresh copy in which nobody is signed in. A save can then only bring back the session that the request remembers, which is the exception that the property names. `FactorInv`:
`EnabledIsConfirmed` is inductive with the types, since a new secret switches the factor off and only a code for the stored one switches it on. `LinkInv`: a link that the
page, the mail or a request knows has been issued, and one that has set a password is used.

*Files.* Types need `HasGrant`, since a handler that talks to the Drive merges tokens into a grant that it assumes to be there. Links need `KeysInv`: the key that a
handler puts is fresh, no other handler's and no receipt's, so a row that is inserted late never takes the place of one that is linked. The objects need `OneOwner`: a key belongs to
the handler that puts it, then to a logo or to a receipt, then to the deletions; a deletion of a receipt that is under way may be late, but its key never becomes a logo and is never put again.
From it follows that what is deleted is named by nobody (`ObjectStays`), which gives `StoredInv`, and that what loses its row is deleted, spared or was erased before (`SweptInv`).

*Billing.* `OneLiveSubscription` is not inductive. `OneCustomer` adds that everything at Stripe belongs to the customer of the row, so that a handler that lists the subscriptions of
its customer sees all of them; `OneLive` that a page creates only when none is live, and that the one it is about to store is. Both rest on the single page: its handler is the only one
that creates. `Learns` follows the news: a live subscription is announced by an event that will be stored, with no event of another one behind it, or the row names it; `Ended`
is its counterpart when nothing is billed. Each event delivered shortens the queue and keeps both, and an empty queue gives `RowTellsBilling`. `Leaving` says what a deletion knows when
it was asked for with an empty queue. `Granting` and `Known` are about any number of pages: what an administrator's handler has checked holds when it
writes, because it keeps the event loop, and a subscription that was ever made is in the row or about to be, or its answer was lost; only a revoke takes the tier from a row with a subscription (`TierKept`). Stripe's moves change statuses alone, so
these invariants hold at whatever moment they fall; a status that is written late marks the row, which is all that `Ended` gives up.

*Uploads.* `Once` ties the paid descriptions to the count of hits. `Flow` says who waits for what: one preview or commit of the open page at a time (`OneBusy`), requests of an earlier page are about other
uploads (`Apart`), one commit of an upload runs (`OneCommit`), an upload is known to its own preview only until that is answered (`Private`). `Stored` then says that what is in the books is settled: its file
is gone, or the commit that stored it is about to delete it, and no other commit has read it. For `ImportsTheChosenFile`, `Chosen` distinguishes the uploads whose file is there and that the page let go of properly
(`Held`): the page shows the only one of them, or waits for it (`Shown`, `Asked`), so a commit that was sent is for it or finds no file (`Confirmed`, `Gone`).

*Tenancy.* `Fit` gives the locals at each program counter. `OnePerson` needs only that a handler about to link an identity holds the user of its person (`People`): whatever came between the check
of the email and the insertion, the unique index decides. `PageIsRight` needs that a page names businesses that were made (`Fine`) and that a business keeps its organization and never
comes back (`Stays`); then no event elsewhere can make the page wrong. The other three are about SQLite and use `Turns`, that a handler between two statements has the event loop, so that all others are at a place where they let it go.
`Drops`: a handler that is about to delete a business leaves another one of the same organization. `SignInCompletes` needs `Owners` and `Inviting`: only the founder owns an
organization, and who accepts an invite is never made a plain member of the own one, because an invite exists only where the founder has been made the owner or is gone. `Setting` is what `provisionDefaults` has established at each statement.
`Sparing`: an invite that is pending has admitted at most one user per crash, unless the handler that admitted one is about to mark it; `Admitting`: who is about to admit still finds the invite pending.

*Books.* The types need `Shape`, what a call of each kind carries while it is asked and when it is answered: a list that arrives is a list of rows, advice is a category or nothing. `ReportsAgree`
rests on `SplitsFit`, which is inductive: a row that was not edited since has, to a cent, the amount that its split adds up to, because the server compares the lines with the amount that it reads
itself. The rest is arithmetic of two aggregations. The library proves nothing about `MapThenSumSet`, and its induction theorems take an operator. `SetInduction` takes a set instead: a set of
finite sets that holds the empty one, and each whose smaller ones it holds, holds them all; it follows from `Least`, the minimum of a set of numbers. From it come
the laws of `Sum` (`SumParts`: one element more; `SumPlus`: pointwise; `SumSupport`: zeros). `ByCategoryStep` and `YearNetStep` say what one row more does to
either report, `ShareSum` that the parts of a row, spread over the categories, add up to it, and `FittingReportsAgree` is an induction over the rows.

*Readers.* A reader is a fold, and the library says nothing about folds. `ReadingExists` shows that the function which a fold chooses exists, by an
induction over the number of lines (`UpTo`, from the least element of a set); from it come the fold of one line more and of two files one after the
other. `QifIsRead` is then an induction over the transactions: after the lines of each the reader has kept it and what came before, and its record is empty,
whatever stood between. `OfxIsRead` reads block by block. The hypotheses say what a format can tell at all: `QifSays` that there is a transaction, that a year printed with two
digits is one of 1950 to 2049 and one printed in full has three digits at least, and that a memo of one word is not the payee again, which `Describe` leaves out; `OfxSays` that years are printed in full. All
the QIF and OFX forms of the run satisfy them.

`CsvIsRead` is read symbol by symbol. `Gives` says that a text, wherever it stands after a whole row, adds some rows and leaves no candidate for the delimiter (`Cands`) but
the delimiter itself outside quotes. It holds of a row (`GivesRow`: fields without signs, `PlainField`, and quoted ones with their quotes doubled, `QuotedWords`) and of
texts one after the other (`GivesBoth`, `GivesAll`), hence of the whole file (`TextGives`). So `DetectDelimiter` counts only the delimiter (`DelimiterIsFound`), and `ParseRows` gives the rows that were
written (`TableIsRead`), each of which is read as its transaction or, between two, as none. `CsvSays` asks for a date's and a description's column, no sign in a heading, no return and no tab among the words
and a year of 2000 to 2099 where two digits are printed; for a first column that is no description where there are no headings, since a quoted first field may hold another
candidate's sign; and for columns that are known (`Fits`): chosen by the user, with every amount in one column or, not zero, in two, or found as `Understood` says by `DetectMappingFromHeader`. A choice that says -1 for the column of amounts
needs headings (`NoneTold`): without them the first row is lost. All CSV forms of the run `parsers` satisfy `CsvSays` but `Bare`, which has neither headings nor a choice; the misread forms of section 6 do not.

`ChaseIsRead` needs `ClosingAssumption`: the months of a period of at most a year tell their years.

Model-checked only: everything under fairness (`HandlersFinish`, `SubscriptionIsLearnt`), which is out of the prover's reach; and `StatementIsRead` of PDF, where fragments are
sorted into lines, and of CSV without headings and without a choice, where columns are guessed by counting what they hold. Which headings are understood is evaluated by TLC too.

## 6. Where code and text disagree

Seen while modelling: read off the source, or shown by TLC with an instance of these modules that is not kept.

* A PATCH that names a category deleted meanwhile fails a foreign key in an async handler without a catch; it is never answered, though `index.ts:297` declares the handler that would.
* `attachAndSubscribe` lists and creates in two calls without an idempotency key: two pages that subscribe at once create two subscriptions (`stripeService.ts:105`, "Avoid creating a duplicate subscription").
* A commit parses the file again, with the mapping or the templates; what the model found and the page showed is not stored (`Import.tsx:621`, "You can review all extracted transactions before confirming the import", against `imports.ts:267`).
* `GET /orgs/:orgId/businesses` ignores `:orgId`, so the switcher never shows the businesses of a second organization (`AuthContext.tsx:13`). Deleting an account leaves the organization, its businesses and their books (`Settings.tsx:262`).
* Two requests that parse a CSV again share one `reparsing` flag: the first answer enables Confirm, which then sends a mapping whose preview has not been shown. A late preview, or a second cancel, makes the effect of the page drop the file that is newer.
  With three requests in flight a file can be imported that the user replaced: the late answer to a double cancel takes the second upload off the page while its deletion is under way, a late answer to a
  parse brings it back after a third file was shown, and Confirm commits it. `ImportsTheChosenFile` excuses what was taken off like this (`past.lost`) and nothing else.
* No parser reads the bank hint, and one whose first description fails is never described again, since only the first hit asks for it (`Import.tsx:617`, "future imports from this bank won't need AI").
* `sampleState` survives an import, so "Sample submitted" can stand beside a file that was never reported; a retry after a lost answer gets 409 and shows a failure. A commit whose answer is lost is told "Preview expired" although it was imported.
* On PostgreSQL: two imports of one file both insert its lines; a rule overwrites a choice made meanwhile; two edits can store the hash of a row that never was; an
  older period that finishes last moves `last_statement_period` back. Setting `Backend = "pg"` in the ledger runs shows each. Two deletions that count the businesses together leave none; a subscription made during a grant is overwritten.
* `rules.ts:47` promises that re-applying a rule leaves rows of other rules alone; `reapplyRules` takes every row that is not manual. A second import into a statement categorizes the old rows again (`importService.ts:219` says newly inserted ones).
* The tax text of a new rule is not stored by `POST /rules` although the form sends it (`Rules.tsx:278`).
* Subscribing with an existing subscription writes the requested tier, and no event reconciles it (`billing.ts:202`, "will reconcile state"). The status written after a subscribe may be older than the one a webhook has written, and stays (the same comment).
  When `subscriptions.create` takes effect and its answer is lost, the user is told of a failure, a granted row gets a subscription that is billed, and revoking the grant leaves it without a tier. A late event of an ended subscription can make the row name it, so that a deletion cancels the wrong one. A grant is refused for ever after a first subscription. A trial never expires by itself: the gate reads only the status.
* Each OAuth sign-in inserts deleted default categories and rules again (`passport.ts:126`, "no-op if already done"). A crash between the user row and the set-up leaves a local user who gets 503 for ever, since `POST /login` never runs the set-up. A founder who deletes the account takes the default categories and rules of a shared business along.
* A crash between the membership and the status of an invite lets the invite admit a second user. The role of an invite is never set, and no email is sent although the page says so.
* Form uploads (`client.ts:71`) and the invite page send no `x-business-id`, so they work on the user's business with the lowest id (`client.ts:27` speaks of every request). `requireUser` calls that one the personal organization's, which it need not be. A header whose business is out of reach makes `refresh()` end with no business, not with the first one.
* `AcceptInvite.tsx:27` sends a signed-out user to `/login?next=`, which the login page ignores.

Files:

* An object that is uploaded while its business is deleted is never removed (`orgs.ts:186`, `receipts.ts:120`). When the transaction has gone, the upload answers 400 though the receipt's row exists, and a retry makes a second one. A batch that fails half-way is dropped again as a whole, and the page is not refreshed (`ReceiptPicker.tsx:41`).
* Two first uploads create two Drive folders. A Drive file that another business has taken breaks a unique index outside any `try`, so `POST /from-drive` is never answered (`receipts.ts:159`).
* On PostgreSQL two uploads of a logo can leave an object behind, and a late refresh can bring an old refresh token back. No page calls `api.receipts.delete` or `linkFromDrive`.

Access:

* A sign-in that needs a code and was verifying its password when the session was logged out stores that session back (`localAuth.ts:124`); `EndedStaysEnded` names this exception.
* A settings page that is stale calls `GET /setup`, which switches an enabled second factor off without a code (`localAuth.ts:364`), although `/disable` "Requires a valid TOTP code". On PostgreSQL a set-up between the read and the write of `/enable` leaves a secret enabled that nobody confirmed.
* The mail says that a reset link expires in 24 hours (`emailService.ts:181`), the code and the page say one hour. Older links stay valid after a newer one was used, and two requests that hash with one link both set a password.
* `password_changed_at` is never read: other sessions stay signed in after a reset, and a sign-in that verified the old password, or waits for its code, completes after it.
* The reminder is marked before SES takes the mail; the mark of a bounce is never cleared.

Books:

* Loads are neither cancelled nor ordered: a late one shows the list of an older filter. Search and paging hide ticked rows, which bulk delete still deletes. A second click on the confirmation sends the deletion again.
* Editing the amount of a split row leaves splits that no longer add up (`transactions.ts:155`, "Validates that split amounts sum to the parent transaction amount"). The sign that `001_init.sql:330` asks of them is not enforced. On PostgreSQL two replacements of a split can both stay.
* Deleting a category that a split uses fails a foreign key that restricts, in a handler without a catch. Creating a category from the split dialog recategorizes the row. A late answer closes a dialog that was opened since.
* The two reports disagree when a split involves a category of kind transfer, which is why `ReportsAgree` leaves those rows out, as it does rows edited after their split. Rows whose category was deleted stay `manual` and are not under "uncategorized". `categories.ts:17` ignores the `isBusiness` that the editor sends (`Categories.tsx:271`). A year changed twice in `Reports.tsx:20` can show two years side by side.

Parsers, each seen with TLC by giving the reader that form:

* A mapping with debit and credit columns and -1 for the amount, as `csv.ts:27` documents it, loses the first row of a file without headings: `csv.ts:380` asks only whether the amount is a number.
* CSV headings "amount debit" and "amount credit" (listed as synonyms, `csv.ts:42`) contain "amount", so the debit column becomes the signed amount: money out is stored as income and the credits are skipped (`csv.ts:6`, "amount = credit - debit"). A heading "value date" is taken as the amount.
* A file without headings and with more credits than debits has its amount columns sorted by count (`csv.ts:329`), so every sign turns (`csv.ts:340`, "Default: first = debit, second = credit").
* A CSV with `;` is detected but its decimal comma is dropped ("12,50" is read as 1250), while QIF and OFX handle it. Two-digit years are always 20xx in CSV, and from 50 on 19xx in QIF and in the heuristic reader.
* The heuristic reader drops genuine identical lines and leaves "-12.00" in the description. A Chase statement that mentions American Express or M&T goes to that template, which finds nothing, and then to the heuristic reader, which dates every row in the current year; a Chase statement without its period takes the clock's year as well.
* An OFX record whose `DTPOSTED` is empty ignores its `DTUSER`. When the second, clarifying question to the model fails, the first reading is lost (`llm.ts`).

## 7. What is not modelled

* The migration runners and the maintenance scripts: run once, by hand or at start-up, before any request.
* The subscription gate and the checks of administrators: pure tests of one row, which `Billing` changes.
* Encryption, email hashes and the audit log: conversions, and a log that nothing reads.
* The language model's prompts, redaction and wire format; what its answer does is in `Books` and `Uploads`.
* Notes of transactions, CSV exports, accounts' names; seats, invoices and the billing portal; debug routes and the one-shot import.
* The text inside cells: thousands separators, currency marks, white space, the tags of OFX.
* The pages of the client other than the wizard, the transactions page, the receipt picker, the category editor, the second factor's card and what `Tenancy` says of the selection; to them the modules let the client send any request at any time.
