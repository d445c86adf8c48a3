------------------------------- MODULE Uploads -------------------------------
(***************************************************************************)
(* The way of a file into the books: the upload directory, the handlers    *)
(* that preview, commit and drop an uploaded file, and the wizard of the   *)
(* browser that calls them.                                                *)
(*                                                                         *)
(*   server/src/routes/imports.ts            handlers, reaper              *)
(*   server/src/services/importService.ts    previews, bank hints          *)
(*   server/src/repos/impl/{LlmBankHint,UnknownFormatSample}RepoImpl.ts    *)
(*   web/src/pages/Import.tsx                the wizard                    *)
(*                                                                         *)
(* What a commit does to the books line by line is Ledger's; here it is    *)
(* one step. The business has one account, all statements are of one bank. *)
(***************************************************************************)
EXTENDS Integers, FiniteSets

CONSTANTS
  Csv, Pdf,     \* the files a user may choose; QIF and OFX are PDFs without a model
  Unusable,     \* files that validateUpload or the PDF reader refuses
  Mapping,      \* column mappings of a CSV
  Readable,     \* pairs of a CSV and a mapping that finds transactions in it
  Detect,       \* CSV -> the mapping inspectCsv finds, or None
  Legible,      \* PDFs in which the templates or the heuristics find transactions
  UseModel,     \* isLlmConfigured()
  Call,         \* bound: requests of the wizard in flight, 1..n
  Token,        \* bound: uploads, 1..n
  MaxRequests,  \* bound: requests of the user, and times the page is left
  MaxFaults,    \* bound: lost answers, crashes, failures of the model and of imports
  None

ASSUME UploadsAssumption ==
  /\ Csv \cap Pdf = {} /\ Legible \subseteq Pdf /\ Unusable \subseteq Csv \cup Pdf
  /\ Readable \subseteq Csv \X Mapping /\ Detect \in [Csv -> Mapping \cup {None}]
  /\ UseModel \in BOOLEAN /\ MaxFaults \in Nat
  /\ Call \subseteq Nat /\ Token \subseteq Nat /\ MaxRequests \in Nat
  /\ None \notin Csv \cup Pdf \cup Mapping \cup Token

VARIABLES
  files,      \* data/uploads: the tokens of the files that are there
  saved,      \* accounts.csv_mapping
  hints,      \* llm_bank_hints, and the calls of trackLlmHit that run
  samples,    \* unknown_format_samples: token -> number of rows
  book,       \* what commits have handed to persistParsed
  page,       \* the state of the wizard
  calls,      \* its requests in flight
  drops,      \* DELETE requests in flight that nobody waits for
  past        \* history, see TypeOK

vars == <<files, saved, hints, samples, book, page, calls, drops, past>>
Server == <<files, saved, hints, samples, book>>

-----------------------------------------------------------------------------
File == Csv \cup Pdf

\* Transactions that were found, and how: a mapping, the parsers or the model.
Parsed == [file : File, by : Mapping \cup {"parser", "model"}]

\* Fault: a CSV without a mapping is no error.
ParseAnything(f, m) ==
  IF f \in Csv THEN [file |-> f, by |-> IF m = None THEN Detect[f] ELSE m]
  ELSE IF f \in Legible THEN [file |-> f, by |-> "parser"] ELSE None

\* previewCsv, previewPdf: what a file yields, or None when it yields no line.
Parse(f, m) ==
  LET how == IF m = None THEN Detect[f] ELSE m
  IN  CASE f \in Csv /\ <<f, how>> \in Readable -> [file |-> f, by |-> how]
        [] f \in Legible                        -> [file |-> f, by |-> "parser"]
        [] OTHER                                -> None

Op == {"preview", "reparse", "enhance", "sample", "commit", "cancel"}

\* "sent" to the server, in one of its steps, or on the way back.
PC == {"sent", "written", "asking", "read", "stored", "ok", "failed"}

\* "live" says that the page that sent it is still open, "map" is its mapping,
\* "found" the parse it will answer or store; "chosen" (history) is whether the
\* preview is of the file chosen last.
Request == [op : Op, pc : PC, token : Token \cup {None}, file : File \cup {None},
            map : Mapping \cup {None}, keep : BOOLEAN, found : Parsed \cup {None}, live : BOOLEAN,
            chosen : BOOLEAN]

\* "file" (history) is the file submitted last.
Page == [stage : {"upload", "preview", "done"}, file : File \cup {None}, token : Token \cup {None},
         shown : Parsed \cup {None}, map : Mapping \cup {None}, loading : BOOLEAN,
         reparsing : BOOLEAN, llm : {"idle", "loading"},
         sample : {"idle", "loading", "submitted", "error"}]

NewPage == [stage |-> "upload", file |-> None, token |-> None, shown |-> None, map |-> None,
            loading |-> FALSE, reparsing |-> FALSE, llm |-> "idle", sample |-> "idle"]

\* An import: of the chosen file, of an upload imported before.
Import == [token : Token, chosen : BOOLEAN, again : BOOLEAN]

\* Counters stop at 2, "more than one".
Count == 0..2
Inc(n) == IF n = 2 THEN 2 ELSE n + 1

TypeOK ==
  /\ files \in SUBSET Token
  /\ saved \in Mapping \cup {None}
  /\ hints \in [hits : Count, todo : Count, describing : Count, hint : BOOLEAN]
  /\ DOMAIN samples \in SUBSET Token /\ samples \in [DOMAIN samples -> 1..2]
  /\ book \in SUBSET Import
  /\ page \in Page
  /\ DOMAIN calls \in SUBSET Call /\ calls \in [DOMAIN calls -> Request]
  /\ drops \in SUBSET Token
  \* the tokens ever given out and their files, those that the answer for another one
  \* or a cancel that failed took off the page, those whose commit was not answered, how
  \* often the bank was described, and the numbers of requests and of faults
  /\ DOMAIN past.given \in SUBSET Token
  /\ past \in [given : [DOMAIN past.given -> File], lost : SUBSET Token, unheard : SUBSET Token,
               described : Count, sent : 0..MaxRequests, faults : 0..MaxFaults]

Init ==
  /\ files = {} /\ samples = [t \in {} |-> None]
  /\ saved \in Mapping \cup {None}
  /\ hints = [hits |-> 0, todo |-> 0, describing |-> 0, hint |-> FALSE]
  /\ book = {}
  /\ page = NewPage
  /\ calls = [c \in {} |-> None]
  /\ drops = {}
  /\ past = [given |-> [t \in {} |-> None], lost |-> {}, unheard |-> {}, described |-> 0,
             sent |-> 0, faults |-> 0]

-----------------------------------------------------------------------------
Without(f, ts) == [t \in DOMAIN f \ ts |-> f[t]]
With(f, t, x) == [s \in DOMAIN f \cup {t} |-> IF s = t THEN x ELSE f[s]]

Blank == [op |-> "cancel", pc |-> "sent", token |-> None, file |-> None, map |-> None, keep |-> FALSE,
          found |-> None, live |-> TRUE, chosen |-> FALSE]

\* One more fault, after which "past" is "next".
Faulty(next) ==
  past.faults < MaxFaults /\ past' = [next EXCEPT !.faults = @ + 1]

\* The page sends a request.
Send(request) ==
  /\ past.sent < MaxRequests /\ past' = [past EXCEPT !.sent = @ + 1]
  /\ \E c \in Call \ DOMAIN calls :
       /\ \A d \in Call \ DOMAIN calls : c <= d
       /\ calls' = With(calls, c, request)
  /\ UNCHANGED Server

\* The page renders "next". The effect that abandons an outstanding preview cleans
\* up after the old render whenever the token or the stage is another one.
Render(next) ==
  /\ page' = next
  /\ drops' = IF /\ page.stage = "preview" /\ page.token # None
                 /\ <<next.token, next.stage>> # <<page.token, page.stage>>
              THEN drops \cup {page.token}
              ELSE drops

-----------------------------------------------------------------------------
(* The user at the wizard.                                                  *)

Uploading == {c \in DOMAIN calls : calls[c].op = "preview" /\ calls[c].pc = "sent"}

SubmitPreview(f) ==
  /\ page.stage = "upload" /\ ~page.loading
  /\ Cardinality(DOMAIN past.given) + Cardinality(Uploading) < Cardinality(Token)
  /\ Render([page EXCEPT !.file = f, !.loading = TRUE])
  /\ Send([Blank EXCEPT !.op = "preview", !.file = f])

\* The wizard shows the preview of a file of that kind; the token tells the kind.
Previewing(kind) ==
  page.stage = "preview" /\ page.token # None /\ past.given[page.token] \in kind

SetMapping(m) ==
  /\ Previewing(Csv)
  /\ Render([page EXCEPT !.map = m, !.reparsing = TRUE])
  /\ Send([Blank EXCEPT !.op = "reparse", !.token = page.token, !.map = m])

\* The model is offered for a PDF that it has not parsed yet.
EnhanceWithLlm ==
  /\ Previewing(Pdf) /\ UseModel /\ page.llm = "idle"
  /\ (page.shown # None => page.shown.by # "model")
  /\ Render([page EXCEPT !.llm = "loading"])
  /\ Send([Blank EXCEPT !.op = "enhance", !.token = page.token])

\* A sample is asked for when a PDF yields nothing.
SubmitSample ==
  /\ Previewing(Pdf) /\ page.shown = None /\ page.sample \in {"idle", "error"}
  /\ Render([page EXCEPT !.sample = "loading"])
  /\ Send([Blank EXCEPT !.op = "sample", !.token = page.token])

\* "keep" is rememberMapping.
Commit(keep) ==
  /\ Render([page EXCEPT !.loading = TRUE])
  /\ Send([Blank EXCEPT !.op = "commit", !.token = page.token, !.keep = keep,
                        !.map = IF Previewing(Csv) THEN page.map ELSE None,
                        !.chosen = past.given[page.token] = page.file])

\* Fault: the button stays enabled while a commit runs.
ConfirmTwice(keep) ==
  /\ Previewing(File) /\ page.shown # None /\ ~page.reparsing
  /\ (keep => Previewing(Csv) /\ page.map # None)
  /\ Commit(keep)

Confirm(keep) ==
  /\ Previewing(File) /\ page.shown # None /\ ~page.loading /\ ~page.reparsing
  /\ (keep => Previewing(Csv) /\ page.map # None)
  /\ Commit(keep)

Cancel ==
  /\ Previewing(File) /\ ~page.loading
  /\ Send([Blank EXCEPT !.token = page.token])
  /\ UNCHANGED <<page, drops>>

Restart ==
  /\ page.stage = "done"
  /\ Render([page EXCEPT !.stage = "upload"])
  /\ UNCHANGED Server /\ UNCHANGED <<calls, past>>

\* The user opens another page: late answers find no wizard.
Leave ==
  /\ page # NewPage
  /\ past.sent < MaxRequests /\ past' = [past EXCEPT !.sent = @ + 1]
  /\ Render(NewPage)
  /\ calls' = [c \in DOMAIN calls |-> [calls[c] EXCEPT !.live = FALSE]]
  /\ UNCHANGED Server

-----------------------------------------------------------------------------
(* The handlers.                                                            *)

At(c, op, pc) == c \in DOMAIN calls /\ calls[c].op = op /\ calls[c].pc = pc

\* The handler of c goes on with these locals, or answers.
Go(c, request) == calls' = [calls EXCEPT ![c] = request] /\ UNCHANGED <<page, drops>>

\* An answer with an error.
Failed(request) == [Blank EXCEPT !.op = request.op, !.pc = "failed", !.live = request.live]
Fail(c) == Go(c, Failed(calls[c]))

\* An answer with a result; "map" goes with a preview only.
Answer(c, found) ==
  Go(c, [Blank EXCEPT !.op = calls[c].op, !.pc = "ok", !.live = calls[c].live,
                      !.token = calls[c].token, !.found = found])

\* resolveToken: the file is still in the upload directory.
Resolved(c) == calls[c].token \in files

FileOf(c) == past.given[calls[c].token]

Refuse(c) ==
  /\ ~Resolved(c)
  /\ Fail(c)
  /\ UNCHANGED Server /\ UNCHANGED past

StoreUpload(c) ==
  /\ At(c, "preview", "sent")
  /\ \E t \in Token \ DOMAIN past.given :
       /\ \A u \in Token \ DOMAIN past.given : t <= u
       /\ files' = files \cup {t}
       /\ past' = [past EXCEPT !.given = With(past.given, t, calls[c].file)]
       /\ Go(c, [calls[c] EXCEPT !.pc = "written", !.token = t, !.file = None])
  /\ UNCHANGED <<saved, hints, samples, book>>

\* A file that cannot be used is deleted, one that yields nothing is kept. For a CSV
\* the mapping that the account remembers precedes the one that is detected.
Preview(c) ==
  /\ At(c, "preview", "written")
  /\ LET f   == FileOf(c)
         map == IF f \notin Csv THEN None ELSE IF saved # None THEN saved ELSE Detect[f]
     IN  IF f \in Unusable
         THEN /\ files' = files \ {calls[c].token}
              /\ Fail(c)
         ELSE /\ files' = files
              /\ Go(c, [calls[c] EXCEPT !.pc = "ok", !.map = map, !.found = Parse(f, map)])
  /\ UNCHANGED <<saved, hints, samples, book, past>>

Reparse(c) ==
  /\ At(c, "reparse", "sent")
  /\ \/ Refuse(c)
     \/ /\ Resolved(c)
        /\ Answer(c, Parse(FileOf(c), calls[c].map))
        /\ UNCHANGED Server /\ UNCHANGED past

Enhance(c) ==
  /\ At(c, "enhance", "sent")
  /\ \/ Refuse(c)
     \/ /\ Resolved(c)
        /\ Go(c, [calls[c] EXCEPT !.pc = "asking"])
        /\ UNCHANGED Server /\ UNCHANGED past

\* The text has been read: the file may be gone by now. The hit is counted beside
\* the answer, by a promise that nobody awaits.
ModelAnswers(c) ==
  /\ At(c, "enhance", "asking")
  /\ \/ /\ hints.todo < 2
        /\ hints' = [hints EXCEPT !.todo = @ + 1]
        /\ Answer(c, [file |-> FileOf(c), by |-> "model"])
        /\ past' = past
     \/ /\ Faulty(past)
        /\ Fail(c)
        /\ hints' = hints
  /\ UNCHANGED <<files, saved, samples, book>>

\* incrementHitCount counts and reads in one statement.
Threshold(hits) == hits = 1 /\ ~hints.hint

TrackHit ==
  /\ hints.todo > 0 /\ hints.describing < 2
  /\ LET hits  == Inc(hints.hits)
         first == Threshold(hits)
     IN  /\ hints' = [hints EXCEPT !.todo = @ - 1, !.hits = hits,
                                   !.describing = IF first THEN @ + 1 ELSE @]
         /\ past' = [past EXCEPT !.described = IF first THEN Inc(@) ELSE @]
  /\ UNCHANGED <<files, saved, samples, book, page, calls, drops>>

SaveHint ==
  /\ hints.describing > 0
  /\ \/ hints' = [hints EXCEPT !.describing = @ - 1, !.hint = TRUE] /\ past' = past
     \/ hints' = [hints EXCEPT !.describing = @ - 1] /\ Faulty(past)
  /\ UNCHANGED <<files, saved, samples, book, page, calls, drops>>

ReportUnknown(c) ==
  /\ At(c, "sample", "sent")
  /\ \/ Refuse(c)
     \/ /\ Resolved(c)
        /\ Go(c, [calls[c] EXCEPT !.pc = "read"])
        /\ UNCHANGED Server /\ UNCHANGED past

\* Fault: without the UNIQUE.
InsertAnySample(c) ==
  /\ At(c, "sample", "read")
  /\ LET t == calls[c].token
     IN  /\ Answer(c, None)
         /\ samples' = With(samples, t, IF t \in DOMAIN samples THEN 2 ELSE 1)
  /\ UNCHANGED <<files, saved, hints, book, past>>

\* UNIQUE(preview_token) turns a second sample into 409.
InsertSample(c) ==
  /\ At(c, "sample", "read")
  /\ LET t == calls[c].token
     IN  IF t \in DOMAIN samples
         THEN Fail(c) /\ samples' = samples
         ELSE Answer(c, None) /\ samples' = With(samples, t, 1)
  /\ UNCHANGED <<files, saved, hints, book, past>>

\* The file is parsed again, with the mapping of the request. A CSV without a line is
\* an error and the file goes; a PDF without one is imported as nothing.
ReadCommit(c) ==
  /\ At(c, "commit", "sent")
  /\ \/ Refuse(c)
     \/ /\ Resolved(c)
        /\ LET found == Parse(FileOf(c), calls[c].map)
           IN  IF FileOf(c) \in Csv /\ found = None
               THEN /\ Fail(c)
                    /\ files' = files \ {calls[c].token}
               ELSE /\ Go(c, [calls[c] EXCEPT !.pc = "read", !.found = found])
                    /\ files' = files
        /\ UNCHANGED <<saved, hints, samples, book, past>>

\* persistParsed.
StoreImport(c) ==
  /\ At(c, "commit", "read")
  /\ book' = book \cup {[token |-> calls[c].token, chosen |-> calls[c].chosen,
                         again |-> \E i \in book : i.token = calls[c].token]}
  /\ Go(c, [calls[c] EXCEPT !.pc = "stored"])
  /\ UNCHANGED <<files, saved, hints, samples, past>>

RememberMapping(c) ==
  /\ At(c, "commit", "stored") /\ calls[c].keep
  /\ saved' = calls[c].map
  /\ Go(c, [calls[c] EXCEPT !.keep = FALSE])
  /\ UNCHANGED <<files, hints, samples, book, past>>

\* The finally block.
FinishCommit(c) ==
  /\ At(c, "commit", "stored") /\ ~calls[c].keep
  /\ files' = files \ {calls[c].token}
  /\ Answer(c, None)
  /\ UNCHANGED <<saved, hints, samples, book, past>>

\* persistParsed fails, before or after it has stored lines: 422, and the file goes.
FailCommit(c) ==
  /\ At(c, "commit", "read") \/ At(c, "commit", "stored")
  /\ Faulty(past)
  /\ files' = files \ {calls[c].token}
  /\ Fail(c)
  /\ UNCHANGED <<saved, hints, samples, book>>

\* Fault: the answer leaves before the file does.
AbandonLater(c) ==
  /\ At(c, "cancel", "sent")
  /\ Answer(c, None)
  /\ UNCHANGED Server /\ UNCHANGED past

Abandon(c) ==
  /\ At(c, "cancel", "sent")
  /\ \/ Refuse(c)
     \/ /\ Resolved(c)
        /\ files' = files \ {calls[c].token}
        /\ Answer(c, None)
        /\ UNCHANGED <<saved, hints, samples, book, past>>

\* The same handler for a request of the effect.
Drop(t) ==
  /\ t \in drops
  /\ drops' = drops \ {t}
  /\ files' = files \ {t}
  /\ UNCHANGED <<saved, hints, samples, book, page, calls, past>>

Handler(c) ==
  \/ StoreUpload(c) \/ Preview(c) \/ Reparse(c)
  \/ Enhance(c) \/ ModelAnswers(c)
  \/ ReportUnknown(c) \/ InsertSample(c)
  \/ ReadCommit(c) \/ StoreImport(c) \/ RememberMapping(c) \/ FinishCommit(c)
  \/ FailCommit(c)
  \/ Abandon(c)

-----------------------------------------------------------------------------
(* The answers at the wizard.                                               *)

\* setPreview: the answer decides which file is shown.
Shows(p, call) == [p EXCEPT !.token = call.token, !.shown = call.found]

\* The state after an answer. Nothing checks that the answer is still wanted.
After(p, call, ok) ==
  CASE call.op = "preview" ->
         IF ok THEN [Shows(p, call) EXCEPT !.map = call.map, !.stage = "preview", !.loading = FALSE]
               ELSE [p EXCEPT !.loading = FALSE]
    [] call.op = "reparse" -> [IF ok THEN Shows(p, call) ELSE p EXCEPT !.reparsing = FALSE]
    [] call.op = "enhance" -> [IF ok THEN Shows(p, call) ELSE p EXCEPT !.llm = "idle"]
    [] call.op = "sample"  -> [p EXCEPT !.sample = IF ok THEN "submitted" ELSE "error"]
    [] call.op = "commit"  ->
         IF ok THEN [p EXCEPT !.stage = "done", !.token = None, !.shown = None, !.loading = FALSE]
               ELSE [p EXCEPT !.loading = FALSE]
    [] call.op = "cancel"  ->
         [p EXCEPT !.token = None, !.shown = None, !.map = None, !.llm = "idle", !.sample = "idle",
                   !.stage = "upload"]

Receive(c) ==
  LET next == IF calls[c].live THEN After(page, calls[c], calls[c].pc = "ok") ELSE page
  IN  /\ c \in DOMAIN calls /\ calls[c].pc \in {"ok", "failed"}
      /\ Render(next)
      /\ calls' = Without(calls, {c})
      /\ past' = [past EXCEPT !.lost =
           IF page.stage = "preview" /\ page.token \notin {next.token, calls[c].token}
           THEN @ \cup ({page.token} \ {None}) ELSE @]
      /\ UNCHANGED Server

-----------------------------------------------------------------------------
(* Time, the network and crashes.                                           *)

\* reapOldUploads, on a timer and at the start of the server. The hour of a file is over
\* at any time: a user may pause between any two steps.
Reap ==
  /\ \E old \in SUBSET files \ {{}} : files' = files \ old
  /\ UNCHANGED <<saved, hints, samples, book, page, calls, drops, past>>

Tokens(op, pcs) == {calls[c].token : c \in {d \in DOMAIN calls : calls[d].op = op /\ calls[d].pc \in pcs}}

\* An answer does not arrive.
Lose(c) ==
  /\ c \in DOMAIN calls /\ calls[c].pc = "ok"
  /\ Faulty([past EXCEPT !.unheard = @ \cup IF calls[c].op = "commit" THEN {calls[c].token} ELSE {}])
  /\ Fail(c)
  /\ UNCHANGED Server

\* The server stops, with the promises it runs, and starts again.
Crash ==
  /\ (DOMAIN calls # {} \/ drops # {} \/ hints.todo + hints.describing > 0)
  /\ calls' = [c \in DOMAIN calls |->
                IF calls[c].pc \in {"ok", "failed"} THEN calls[c] ELSE Failed(calls[c])]
  /\ Faulty([past EXCEPT !.unheard = @ \cup Tokens("commit", {"read", "stored"})])
  /\ hints' = [hints EXCEPT !.todo = 0, !.describing = 0]
  /\ drops' = {}
  /\ UNCHANGED <<files, saved, samples, book, page>>

-----------------------------------------------------------------------------
User ==
  \/ \E f \in File : SubmitPreview(f)
  \/ \E m \in Mapping : SetMapping(m)
  \/ EnhanceWithLlm \/ SubmitSample
  \/ \E keep \in BOOLEAN : Confirm(keep)
  \/ Cancel \/ Restart \/ Leave

Next ==
  \/ User
  \/ \E c \in Call : Handler(c) \/ Receive(c) \/ Lose(c)
  \/ \E t \in Token : Drop(t)
  \/ TrackHit \/ SaveHint \/ Reap \/ Crash

Spec == Init /\ [][Next]_vars

-----------------------------------------------------------------------------
(* Properties.                                                              *)

\* What enters the books is the file that the user had chosen last when confirming,
\* although a late answer can put an earlier preview back on the page: the earlier
\* file is gone by then, unless what took it off the page was the answer for another
\* upload, or a cancel that failed: nothing waits for the deletion of such a file.
ImportsTheChosenFile == \A i \in book : i.chosen \/ i.token \in past.lost

\* An upload is imported a second time only when the first commit was not answered,
\* through retries, crashes between two statements of a commit and late answers.
ImportedOnce == \A i \in book : i.again => i.token \in past.unheard

\* A preview leaves one sample at most, also when the user submits again because the answer
\* was lost, and trackLlmHit pays for one description of a bank, however many statements of
\* it are parsed at the same time.
DoneOnce == past.described <= 1 /\ \A t \in DOMAIN samples : samples[t] = 1
=============================================================================
