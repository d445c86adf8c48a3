---------------------------- MODULE UploadsProofs ----------------------------
(***************************************************************************)
(* Proofs about Uploads, for every value of its constants.                 *)
(***************************************************************************)
EXTENDS Uploads, FiniteSetTheorems, TLAPS

(* What a request carries by the time it gets to a step, given the uploads. *)
Fit(r, given) ==
  /\ r.token \in DOMAIN given \cup {None}
  /\ r.op = "preview" /\ r.pc = "sent" => r.file \in File
  /\ r.op = "preview" /\ r.pc = "written" => r.token # None
  /\ r.op = "enhance" /\ r.pc = "asking" => r.token # None
  /\ r.op = "sample" /\ r.pc = "read" => r.token # None
  /\ r.op = "cancel" /\ r.pc = "sent" => r.token # None
  /\ r.op = "commit" /\ r.pc \in {"read", "stored", "ok"} => r.token # None

(* Every token in use was given out. *)
TypeInv ==
  /\ TypeOK
  /\ files \subseteq DOMAIN past.given /\ drops \subseteq DOMAIN past.given
  /\ page.token \in DOMAIN past.given \cup {None}
  /\ \A c \in DOMAIN calls : Fit(calls[c], past.given)

LEMMA NoneIsNothing == None \notin Token /\ None \notin File /\ None \notin Mapping
BY UploadsAssumption DEF File

LEMMA Unfolded ==
  ASSUME TypeInv
  PROVE  /\ files \subseteq Token /\ drops \subseteq Token /\ page \in Page
         /\ calls \in [DOMAIN calls -> Request] /\ DOMAIN calls \subseteq Call
         /\ \A c \in DOMAIN calls : calls[c] \in Request /\ Fit(calls[c], past.given)
         /\ DOMAIN past.given \subseteq Token
         /\ past \in [given : [DOMAIN past.given -> File], lost : SUBSET Token, unheard : SUBSET Token,
                      described : Count, sent : 0..MaxRequests,
                      faults : 0..MaxFaults]
BY DEF TypeInv, TypeOK

(* The parts of the history, and what changes when one of them does.       *)
History(given) == [given : given, lost : SUBSET Token, unheard : SUBSET Token,
                   described : Count, sent : 0..MaxRequests, faults : 0..MaxFaults]

LEMMA PastParts ==
  ASSUME TypeInv
  PROVE  /\ past \in History([DOMAIN past.given -> File])
         /\ past.given \in [DOMAIN past.given -> File] /\ DOMAIN past.given \subseteq Token
         /\ past.lost \subseteq Token /\ past.unheard \subseteq Token
         /\ past.described \in Count /\ past.sent \in 0..MaxRequests /\ past.faults \in 0..MaxFaults
BY DEF TypeInv, TypeOK, History

LEMMA WithOK ==
  ASSUME NEW D, NEW S, NEW f \in [D -> S], NEW t, NEW x \in S
  PROVE  /\ DOMAIN With(f, t, x) = D \cup {t}
         /\ With(f, t, x) \in [D \cup {t} -> S]
         /\ With(f, t, x)[t] = x
         /\ \A s \in D : s # t => With(f, t, x)[s] = f[s]
BY DEF With

LEMMA WithoutOK ==
  ASSUME NEW f, NEW ts
  PROVE  /\ DOMAIN Without(f, ts) = DOMAIN f \ ts
         /\ \A s \in DOMAIN f \ ts : Without(f, ts)[s] = f[s]
BY DEF Without

-----------------------------------------------------------------------------
(* What a step of a handler, or the loss of its answer, does to its request. *)

Moves(c, r) ==
  /\ c \in DOMAIN calls /\ calls' = [calls EXCEPT ![c] = r]
  /\ r \in Request /\ r.op = calls[c].op /\ r.live = calls[c].live
  /\ UNCHANGED <<page, drops>>

(* It gives out a token,                                                   *)
Stores(c, r) ==
  /\ calls[c].op = "preview" /\ calls[c].pc = "sent" /\ r.pc = "written"
  /\ r.token \in Token \ DOMAIN past.given /\ files' = files \cup {r.token}
  /\ past' = [past EXCEPT !.given = With(past.given, r.token, calls[c].file)]
  /\ UNCHANGED <<saved, hints, samples, book>>

(* or keeps the tokens as they are,                                        *)
Keeps(c, r) ==
  /\ files' \subseteq files /\ Fit(r, past.given)
  /\ r.token \in {calls[c].token, None}
  /\ r.pc \in {"ok", "read", "stored"} => r.token = calls[c].token
  /\ r.op = "preview" => r.pc \in {"ok", "failed"}
  /\ r.pc = "failed" => r.token = None
  /\ r.op \in {"cancel", "commit"} /\ r.pc = "ok" => r.token \notin files'
  /\ past'.given = past.given /\ past'.lost = past.lost
  /\ past.unheard \subseteq past'.unheard /\ past'.described = past.described
  /\ past' \in History([DOMAIN past.given -> File])

(* and only a commit puts something into the books.                        *)
Books(c, r) ==
  \/ r.op # "commit" /\ book' = book
  \/ /\ r.op = "commit" /\ book' = book /\ calls[c].pc = "sent" /\ r.pc = "read"
     /\ calls[c].token \in files /\ files' = files /\ r.chosen = calls[c].chosen
  \/ /\ r.op = "commit" /\ calls[c].pc = "read" /\ r.pc = "stored" /\ files' = files
     /\ book' = book \cup {[token |-> calls[c].token, chosen |-> calls[c].chosen,
                            again |-> \E i \in book : i.token = calls[c].token]}
  \/ r.op = "commit" /\ book' = book /\ calls[c].pc = "stored" /\ r.pc = "stored" /\ files' = files
  \/ /\ r.op = "commit" /\ book' = book /\ r.pc \in {"ok", "failed"}
     /\ calls[c].pc # "ok" => calls[c].token \notin files'

LEMMA GoMoves ==
  ASSUME NEW c \in DOMAIN calls, NEW r \in Request, Go(c, r),
         r.op = calls[c].op, r.live = calls[c].live
  PROVE  Moves(c, r)
BY DEF Go, Moves

LEMMA SamePast ==
  ASSUME TypeInv, UNCHANGED past
  PROVE  /\ past'.given = past.given /\ past'.lost = past.lost
         /\ past.unheard \subseteq past'.unheard /\ past'.described = past.described
         /\ past' \in History([DOMAIN past.given -> File])
BY PastParts

LEMMA FaultyPast ==
  ASSUME TypeInv, Faulty(past)
  PROVE  /\ past'.given = past.given /\ past'.lost = past.lost
         /\ past.unheard \subseteq past'.unheard /\ past'.described = past.described
         /\ past' \in History([DOMAIN past.given -> File])
<1>1. past.faults + 1 \in 0..MaxFaults
  BY PastParts, UploadsAssumption DEF Faulty
<1>2. past' = [past EXCEPT !.faults = past.faults + 1]
  BY DEF Faulty
<1> QED BY <1>1, <1>2, PastParts DEF History

LEMMA BlankOK == Blank \in Request
BY DEF Blank, Request, Op, PC

LEMMA FailedOK ==
  ASSUME NEW q \in Request
  PROVE  /\ Failed(q) \in Request /\ Failed(q).op = q.op /\ Failed(q).pc = "failed"
         /\ Failed(q).live = q.live /\ Failed(q).token = None
<1>1. Failed(q) = [Blank EXCEPT !.op = q.op, !.pc = "failed", !.live = q.live]
  BY DEF Failed
<1>2. q.op \in Op /\ q.live \in BOOLEAN /\ "failed" \in PC /\ Blank.token = None
  BY DEF Request, PC, Blank
<1> QED BY <1>1, <1>2, BlankOK DEF Request

(* An answer with an error. *)
LEMMA FailKeeps ==
  ASSUME TypeInv, NEW c \in DOMAIN calls, Fail(c), files' \subseteq files,
         UNCHANGED past \/ Faulty(past)
  PROVE  \E r : Moves(c, r) /\ Keeps(c, r) /\ r.op = calls[c].op /\ r.pc = "failed" /\ r.token = None
<1> DEFINE r == Failed(calls[c])
<1>1. r \in Request /\ r.op = calls[c].op /\ r.pc = "failed" /\ r.live = calls[c].live /\ r.token = None
  BY Unfolded, FailedOK
<1>2. Go(c, r)
  BY DEF Fail
<1> HIDE DEF r
<1>3. Moves(c, r)
  BY <1>1, <1>2, GoMoves
<1>4. Fit(r, past.given)
  BY <1>1 DEF Fit
<1>5. /\ past'.given = past.given /\ past'.lost = past.lost
      /\ past.unheard \subseteq past'.unheard /\ past'.described = past.described
      /\ past' \in History([DOMAIN past.given -> File])
  BY SamePast, FaultyPast
<1>6. Keeps(c, r)
  BY <1>1, <1>4, <1>5 DEF Keeps
<1> QED BY <1>1, <1>3, <1>6

(* An answer with a result. *)
LEMMA AnswerKeeps ==
  ASSUME TypeInv, NEW c \in DOMAIN calls, NEW found \in Parsed \cup {None}, Answer(c, found),
         files' \subseteq files, UNCHANGED past \/ Faulty(past),
         calls[c].op \in {"cancel", "commit"} => calls[c].token \in Token /\ calls[c].token \notin files'
  PROVE  \E r : Moves(c, r) /\ Keeps(c, r) /\ r.op = calls[c].op /\ r.pc = "ok"
<1>1. calls[c] \in Request /\ Fit(calls[c], past.given)
  BY Unfolded
<1> DEFINE r == [Blank EXCEPT !.op = calls[c].op, !.pc = "ok", !.live = calls[c].live,
                              !.token = calls[c].token, !.found = found]
<1>2. Go(c, r)
  BY DEF Answer
<1>3. r \in Request /\ r.op = calls[c].op /\ r.pc = "ok" /\ r.live = calls[c].live
      /\ r.token = calls[c].token
  <2>1. calls[c].op \in Op /\ calls[c].live \in BOOLEAN /\ "ok" \in PC /\ calls[c].token \in Token \cup {None}
    BY <1>1 DEF Request, PC
  <2> QED BY <2>1, BlankOK DEF Request
<1> HIDE DEF r
<1>4. Moves(c, r)
  BY <1>2, <1>3, GoMoves
<1>5. Fit(r, past.given)
  BY <1>1, <1>3, NoneIsNothing DEF Fit
<1>6. /\ past'.given = past.given /\ past'.lost = past.lost
      /\ past.unheard \subseteq past'.unheard /\ past'.described = past.described
      /\ past' \in History([DOMAIN past.given -> File])
  BY SamePast, FaultyPast
<1>7. Keeps(c, r)
  BY <1>3, <1>5, <1>6 DEF Keeps
<1> QED BY <1>3, <1>4, <1>7

LEMMA RefuseKeeps ==
  ASSUME TypeInv, NEW c \in DOMAIN calls, Refuse(c)
  PROVE  \E r : Moves(c, r) /\ Keeps(c, r) /\ Books(c, r)
<1>1. Fail(c) /\ files' = files /\ UNCHANGED past /\ book' = book /\ calls[c].token \notin files
  BY DEF Refuse, Server, Resolved
<1>2. PICK r : Moves(c, r) /\ Keeps(c, r) /\ r.op = calls[c].op /\ r.pc = "failed"
  BY <1>1, FailKeeps
<1>3. Books(c, r)
  BY <1>1, <1>2 DEF Books
<1> QED BY <1>2, <1>3

LEMMA ParseOK ==
  ASSUME NEW f \in File, NEW m \in Mapping \cup {None}
  PROVE  Parse(f, m) \in Parsed \cup {None}
<1> DEFINE how == IF m = None THEN Detect[f] ELSE m
<1>1. f \in Csv /\ <<f, how>> \in Readable => how \in Mapping
  BY UploadsAssumption
<1>2. Parse(f, m) = CASE f \in Csv /\ <<f, how>> \in Readable -> [file |-> f, by |-> how]
                      [] f \in Legible                        -> [file |-> f, by |-> "parser"]
                      [] OTHER                                -> None
  BY DEF Parse
<1> HIDE DEF how
<1> QED BY <1>1, <1>2 DEF Parsed

HandlerOK(c) ==
  /\ c \in DOMAIN calls
  /\ \E r : Moves(c, r) /\ Books(c, r) /\ (Stores(c, r) \/ Keeps(c, r))

LEMMA StoreUploadOK == ASSUME TypeInv, NEW c, StoreUpload(c) PROVE HandlerOK(c)
<1>1. c \in DOMAIN calls /\ calls[c].op = "preview" /\ calls[c].pc = "sent"
  BY DEF StoreUpload, At
<1>2. calls[c] \in Request
  BY <1>1, Unfolded
<1>3. PICK t \in Token \ DOMAIN past.given :
        /\ files' = files \cup {t}
        /\ past' = [past EXCEPT !.given = With(past.given, t, calls[c].file)]
        /\ Go(c, [calls[c] EXCEPT !.pc = "written", !.token = t, !.file = None])
  BY DEF StoreUpload
<1> DEFINE r == [calls[c] EXCEPT !.pc = "written", !.token = t, !.file = None]
<1>4. r \in Request /\ r.op = "preview" /\ r.pc = "written" /\ r.live = calls[c].live /\ r.token = t
  BY <1>1, <1>2 DEF Request, PC
<1>5. Go(c, r)
  BY <1>3
<1> HIDE DEF r
<1>6. Moves(c, r)
  BY <1>1, <1>4, <1>5, GoMoves
<1>7. Stores(c, r)
  BY <1>1, <1>3, <1>4 DEF Stores, StoreUpload
<1>8. Books(c, r)
  BY <1>4 DEF Books, StoreUpload
<1> QED BY <1>1, <1>6, <1>7, <1>8 DEF HandlerOK

LEMMA PreviewOK == ASSUME TypeInv, NEW c, Preview(c) PROVE HandlerOK(c)
<1>1. c \in DOMAIN calls /\ calls[c].op = "preview" /\ calls[c].pc = "written"
  BY DEF Preview, At
<1>2. calls[c] \in Request /\ Fit(calls[c], past.given) /\ past.given \in [DOMAIN past.given -> File]
  BY <1>1, Unfolded, PastParts
<1> DEFINE f == FileOf(c)
           map == IF f \notin Csv THEN None ELSE IF saved # None THEN saved ELSE Detect[f]
           r == [calls[c] EXCEPT !.pc = "ok", !.map = map, !.found = Parse(f, map)]
<1>3. f \in File
  BY <1>1, <1>2 DEF FileOf, Fit
<1>4. map \in Mapping \cup {None}
  BY UploadsAssumption DEF TypeInv, TypeOK
<1>5. book' = book /\ UNCHANGED past
  BY DEF Preview
<1>6. CASE f \in Unusable
  <2>1. Fail(c) /\ files' \subseteq files
    BY <1>6 DEF Preview
  <2>2. PICK q : Moves(c, q) /\ Keeps(c, q) /\ q.op = calls[c].op
    BY <1>1, <1>5, <2>1, FailKeeps
  <2>3. Books(c, q)
    BY <1>1, <1>5, <2>2 DEF Books
  <2> QED BY <1>1, <2>2, <2>3 DEF HandlerOK
<1>7. CASE f \notin Unusable
  <2>1. Go(c, r) /\ files' = files
    BY <1>7 DEF Preview
  <2> HIDE DEF f
  <2>2. Parse(f, map) \in Parsed \cup {None}
    BY <1>3, <1>4, ParseOK
  <2> HIDE DEF map
  <2>3. r \in Request /\ r.op = "preview" /\ r.pc = "ok" /\ r.live = calls[c].live
        /\ r.token = calls[c].token
    BY <1>1, <1>2, <1>4, <2>2 DEF Request, PC
  <2> HIDE DEF r
  <2>4. Moves(c, r)
    BY <1>1, <2>1, <2>3, GoMoves
  <2>5. Fit(r, past.given)
    BY <1>2, <2>3 DEF Fit
  <2>6. Keeps(c, r)
    BY <1>5, <2>1, <2>3, <2>5, SamePast DEF Keeps
  <2>7. Books(c, r)
    BY <1>5, <2>3 DEF Books
  <2> QED BY <1>1, <2>4, <2>6, <2>7 DEF HandlerOK
<1> QED BY <1>6, <1>7

LEMMA ReparseOK == ASSUME TypeInv, NEW c, Reparse(c) PROVE HandlerOK(c)
<1>1. c \in DOMAIN calls /\ calls[c].op = "reparse"
  BY DEF Reparse, At
<1>2. CASE Refuse(c)
  BY <1>1, <1>2, RefuseKeeps DEF HandlerOK
<1>3. CASE ~Refuse(c)
  <2> DEFINE found == Parse(FileOf(c), calls[c].map)
  <2>1. Resolved(c) /\ Answer(c, found) /\ files' = files /\ UNCHANGED past /\ book' = book
    BY <1>3 DEF Reparse, Server
  <2>2. calls[c].map \in Mapping \cup {None} /\ FileOf(c) \in File
    BY <1>1, <2>1, Unfolded, PastParts DEF Resolved, FileOf, Request, TypeInv
  <2>3. found \in Parsed \cup {None}
    BY <2>2, ParseOK
  <2> HIDE DEF found
  <2>4. PICK r : Moves(c, r) /\ Keeps(c, r) /\ r.op = calls[c].op
    BY <1>1, <2>1, <2>3, AnswerKeeps
  <2>5. Books(c, r)
    BY <1>1, <2>1, <2>4 DEF Books
  <2> QED BY <1>1, <2>4, <2>5 DEF HandlerOK
<1> QED BY <1>2, <1>3

(* A handler that only goes on to its next step, for an upload that is there. *)
LEMMA ResolvedOK ==
  ASSUME TypeInv, NEW c \in DOMAIN calls, NEW to \in {"asking", "read"}, Resolved(c),
         calls[c].op \in {"enhance", "sample"},
         Go(c, [calls[c] EXCEPT !.pc = to]), UNCHANGED Server, UNCHANGED past
  PROVE  HandlerOK(c)
<1>1. calls[c] \in Request /\ Fit(calls[c], past.given) /\ calls[c].token # None
      /\ book' = book /\ files' = files
  BY Unfolded, NoneIsNothing DEF Resolved, Server
<1> DEFINE r == [calls[c] EXCEPT !.pc = to]
<1>2. r \in Request /\ r.op = calls[c].op /\ r.pc = to /\ r.live = calls[c].live
      /\ r.token = calls[c].token
  BY <1>1 DEF Request, PC
<1>3. Go(c, r)
  OBVIOUS
<1> HIDE DEF r
<1>4. Moves(c, r)
  BY <1>2, <1>3, GoMoves
<1>5. Fit(r, past.given)
  BY <1>1, <1>2 DEF Fit
<1>6. Keeps(c, r)
  BY <1>1, <1>2, <1>5, SamePast DEF Keeps
<1>7. Books(c, r)
  BY <1>1, <1>2 DEF Books
<1> QED BY <1>4, <1>6, <1>7 DEF HandlerOK

LEMMA EnhanceOK == ASSUME TypeInv, NEW c, Enhance(c) \/ ReportUnknown(c) PROVE HandlerOK(c)
<1>1. c \in DOMAIN calls /\ calls[c].op \in {"enhance", "sample"}
  BY DEF Enhance, ReportUnknown, At
<1>2. CASE Refuse(c)
  BY <1>1, <1>2, RefuseKeeps DEF HandlerOK
<1>3. CASE ~Refuse(c)
  <2>1. /\ Resolved(c) /\ UNCHANGED Server /\ UNCHANGED past
        /\ Go(c, [calls[c] EXCEPT !.pc = "asking"]) \/ Go(c, [calls[c] EXCEPT !.pc = "read"])
    BY <1>3 DEF Enhance, ReportUnknown
  <2> QED BY <1>1, <2>1, ResolvedOK
<1> QED BY <1>2, <1>3

LEMMA ModelAnswersOK == ASSUME TypeInv, NEW c, ModelAnswers(c) PROVE HandlerOK(c)
<1>1. c \in DOMAIN calls /\ calls[c].op = "enhance" /\ calls[c].pc = "asking"
      /\ files' = files /\ book' = book
  BY DEF ModelAnswers, At
<1> DEFINE found == [file |-> FileOf(c), by |-> "model"]
<1>2. found \in Parsed \cup {None}
  BY <1>1, Unfolded, PastParts DEF Fit, FileOf, Parsed
<1>3. (Answer(c, found) /\ UNCHANGED past) \/ (Fail(c) /\ Faulty(past))
  BY DEF ModelAnswers
<1> HIDE DEF found
<1>4. PICK r : Moves(c, r) /\ Keeps(c, r) /\ r.op = calls[c].op
  BY <1>1, <1>2, <1>3, AnswerKeeps, FailKeeps
<1>5. Books(c, r)
  BY <1>1, <1>4 DEF Books
<1> QED BY <1>1, <1>4, <1>5 DEF HandlerOK

LEMMA InsertSampleOK == ASSUME TypeInv, NEW c, InsertSample(c) PROVE HandlerOK(c)
<1>1. c \in DOMAIN calls /\ calls[c].op = "sample" /\ files' = files /\ book' = book /\ UNCHANGED past
      /\ (Fail(c) \/ Answer(c, None))
  BY DEF InsertSample, At
<1>4. PICK r : Moves(c, r) /\ Keeps(c, r) /\ r.op = calls[c].op
  BY <1>1, AnswerKeeps, FailKeeps
<1>5. Books(c, r)
  BY <1>1, <1>4 DEF Books
<1> QED BY <1>1, <1>4, <1>5 DEF HandlerOK

LEMMA ReadCommitOK == ASSUME TypeInv, NEW c, ReadCommit(c) PROVE HandlerOK(c)
<1>1. c \in DOMAIN calls /\ calls[c].op = "commit" /\ calls[c].pc = "sent"
  BY DEF ReadCommit, At
<1>2. CASE Refuse(c)
  BY <1>1, <1>2, RefuseKeeps DEF HandlerOK
<1>3. CASE ~Refuse(c)
  <2> DEFINE found == Parse(FileOf(c), calls[c].map)
  <2>1. Resolved(c) /\ UNCHANGED past /\ book' = book
    BY <1>3 DEF ReadCommit
  <2>2. \/ Fail(c) /\ files' = files \ {calls[c].token}
        \/ Go(c, [calls[c] EXCEPT !.pc = "read", !.found = found]) /\ files' = files
    BY <1>3 DEF ReadCommit
  <2>3. /\ calls[c] \in Request /\ Fit(calls[c], past.given)
        /\ calls[c].map \in Mapping \cup {None} /\ FileOf(c) \in File
        /\ calls[c].token \in files /\ calls[c].token # None
    BY <1>1, <2>1, Unfolded, PastParts, NoneIsNothing DEF Resolved, FileOf, Request, TypeInv
  <2>4. found \in Parsed \cup {None}
    BY <2>3, ParseOK
  <2> HIDE DEF found
  <2>5. CASE Fail(c) /\ files' = files \ {calls[c].token}
    <3>1. PICK r : Moves(c, r) /\ Keeps(c, r) /\ r.op = calls[c].op /\ r.pc = "failed"
      BY <1>1, <2>1, <2>5, FailKeeps
    <3>2. Books(c, r)
      BY <1>1, <2>1, <2>5, <3>1 DEF Books
    <3> QED BY <1>1, <3>1, <3>2 DEF HandlerOK
  <2>6. CASE Go(c, [calls[c] EXCEPT !.pc = "read", !.found = found]) /\ files' = files
    <3> DEFINE r == [calls[c] EXCEPT !.pc = "read", !.found = found]
    <3>1. r \in Request /\ r.op = "commit" /\ r.pc = "read" /\ r.live = calls[c].live
          /\ r.token = calls[c].token /\ r.chosen = calls[c].chosen
      BY <1>1, <2>3, <2>4 DEF Request, PC
    <3>2. Go(c, r)
      BY <2>6
    <3> HIDE DEF r
    <3>3. Moves(c, r)
      BY <1>1, <3>1, <3>2, GoMoves
    <3>4. Fit(r, past.given)
      BY <2>3, <3>1 DEF Fit
    <3>5. Keeps(c, r)
      BY <2>1, <2>6, <3>1, <3>4, SamePast DEF Keeps
    <3>6. Books(c, r)
      BY <1>1, <2>1, <2>3, <2>6, <3>1 DEF Books
    <3> QED BY <1>1, <3>3, <3>5, <3>6 DEF HandlerOK
  <2> QED BY <2>2, <2>5, <2>6
<1> QED BY <1>2, <1>3

LEMMA StoreImportOK == ASSUME TypeInv, NEW c, StoreImport(c) PROVE HandlerOK(c)
<1>1. /\ c \in DOMAIN calls /\ calls[c].op = "commit" /\ calls[c].pc = "read"
      /\ files' = files /\ UNCHANGED past
  BY DEF StoreImport, At
<1>2. calls[c] \in Request /\ Fit(calls[c], past.given)
  BY <1>1, Unfolded
<1> DEFINE r == [calls[c] EXCEPT !.pc = "stored"]
<1>3. r \in Request /\ r.op = "commit" /\ r.pc = "stored" /\ r.live = calls[c].live
      /\ r.token = calls[c].token
  BY <1>1, <1>2 DEF Request, PC
<1>4. Go(c, r)
  BY DEF StoreImport
<1> HIDE DEF r
<1>5. Moves(c, r)
  BY <1>1, <1>3, <1>4, GoMoves
<1>6. Fit(r, past.given)
  BY <1>1, <1>2, <1>3 DEF Fit
<1>7. Keeps(c, r)
  BY <1>1, <1>3, <1>6, SamePast DEF Keeps
<1>8. Books(c, r)
  BY <1>1, <1>3 DEF Books, StoreImport
<1> QED BY <1>1, <1>5, <1>7, <1>8 DEF HandlerOK

LEMMA RememberMappingOK == ASSUME TypeInv, NEW c, RememberMapping(c) PROVE HandlerOK(c)
<1>1. /\ c \in DOMAIN calls /\ calls[c].op = "commit" /\ calls[c].pc = "stored"
      /\ files' = files /\ UNCHANGED past /\ book' = book
  BY DEF RememberMapping, At
<1>2. calls[c] \in Request /\ Fit(calls[c], past.given)
  BY <1>1, Unfolded
<1> DEFINE r == [calls[c] EXCEPT !.keep = FALSE]
<1>3. r \in Request /\ r.op = "commit" /\ r.pc = "stored" /\ r.live = calls[c].live
      /\ r.token = calls[c].token
  BY <1>1, <1>2 DEF Request
<1>4. Go(c, r)
  BY DEF RememberMapping
<1> HIDE DEF r
<1>5. Moves(c, r)
  BY <1>1, <1>3, <1>4, GoMoves
<1>6. Fit(r, past.given)
  BY <1>1, <1>2, <1>3 DEF Fit
<1>7. Keeps(c, r)
  BY <1>1, <1>3, <1>6, SamePast DEF Keeps
<1>8. Books(c, r)
  BY <1>1, <1>3 DEF Books
<1> QED BY <1>1, <1>5, <1>7, <1>8 DEF HandlerOK

LEMMA EndsOK ==
  ASSUME TypeInv, NEW c, FinishCommit(c) \/ FailCommit(c) \/ Abandon(c) \/ Lose(c)
  PROVE  HandlerOK(c)
<1>1. CASE FinishCommit(c)
  <2>1. /\ c \in DOMAIN calls /\ calls[c].op = "commit" /\ calls[c].pc = "stored"
        /\ files' = files \ {calls[c].token} /\ UNCHANGED past /\ book' = book /\ Answer(c, None)
    BY <1>1 DEF FinishCommit, At
  <2>2. calls[c].token \in Token
    BY <2>1, Unfolded DEF Fit
  <2>3. PICK r : Moves(c, r) /\ Keeps(c, r) /\ r.op = calls[c].op /\ r.pc = "ok"
    BY <2>1, <2>2, AnswerKeeps
  <2>4. Books(c, r)
    BY <2>1, <2>3 DEF Books
  <2> QED BY <2>1, <2>3, <2>4 DEF HandlerOK
<1>2. CASE FailCommit(c)
  <2>1. /\ c \in DOMAIN calls /\ calls[c].op = "commit" /\ calls[c].pc \in {"read", "stored"}
        /\ files' = files \ {calls[c].token} /\ Faulty(past) /\ book' = book /\ Fail(c)
    BY <1>2 DEF FailCommit, At
  <2>2. PICK r : Moves(c, r) /\ Keeps(c, r) /\ r.op = calls[c].op /\ r.pc = "failed"
    BY <2>1, FailKeeps
  <2>3. Books(c, r)
    BY <2>1, <2>2 DEF Books
  <2> QED BY <2>1, <2>2, <2>3 DEF HandlerOK
<1>3. CASE Abandon(c)
  <2>1. c \in DOMAIN calls /\ calls[c].op = "cancel" /\ calls[c].pc = "sent"
    BY <1>3 DEF Abandon, At
  <2>2. CASE Refuse(c)
    BY <2>1, <2>2, RefuseKeeps DEF HandlerOK
  <2>3. CASE ~Refuse(c)
    <3>1. Resolved(c) /\ files' = files \ {calls[c].token} /\ Answer(c, None) /\ book' = book
          /\ UNCHANGED past
      BY <1>3, <2>3 DEF Abandon
    <3>2. calls[c].token \in Token
      BY <2>1, <3>1, Unfolded DEF Resolved
    <3>3. PICK r : Moves(c, r) /\ Keeps(c, r) /\ r.op = calls[c].op /\ r.pc = "ok"
      BY <2>1, <3>1, <3>2, AnswerKeeps
    <3>4. Books(c, r)
      BY <2>1, <3>1, <3>3 DEF Books
    <3> QED BY <2>1, <3>3, <3>4 DEF HandlerOK
  <2> QED BY <2>2, <2>3
<1>4. CASE Lose(c)
  <2>1. /\ c \in DOMAIN calls /\ calls[c].pc = "ok" /\ Fail(c) /\ files' = files /\ book' = book
        /\ Faulty([past EXCEPT !.unheard =
                     @ \cup IF calls[c].op = "commit" THEN {calls[c].token} ELSE {}])
    BY <1>4 DEF Lose, Server
  <2>2. calls[c] \in Request /\ Fit(calls[c], past.given)
    BY <2>1, Unfolded
  <2> DEFINE r == Failed(calls[c])
             U == past.unheard \cup IF calls[c].op = "commit" THEN {calls[c].token} ELSE {}
  <2>3. U \subseteq Token /\ past.unheard \subseteq U
    BY <2>1, <2>2, PastParts DEF Fit
  <2>4. past.faults + 1 \in 0..MaxFaults /\ past' = [past EXCEPT !.unheard = U, !.faults = past.faults + 1]
    <3> DEFINE next == [past EXCEPT !.unheard = U]
    <3>1. next.faults = past.faults
      BY PastParts DEF History
    <3>2. past.faults < MaxFaults /\ past' = [next EXCEPT !.faults = next.faults + 1]
      BY <2>1 DEF Faulty
    <3>3. past' = [past EXCEPT !.unheard = U, !.faults = past.faults + 1]
      BY <3>1, <3>2
    <3>4. past.faults < MaxFaults
      BY <3>2
    <3>5. past.faults + 1 \in 0..MaxFaults
      BY <3>4, PastParts, UploadsAssumption
    <3> QED BY <3>3, <3>5
  <2> HIDE DEF U
  <2>5. /\ past'.given = past.given /\ past'.lost = past.lost
        /\ past'.unheard = U /\ past'.described = past.described
        /\ past' \in History([DOMAIN past.given -> File])
    BY <2>3, <2>4, PastParts DEF History
  <2>6. r \in Request /\ r.op = calls[c].op /\ r.pc = "failed" /\ r.live = calls[c].live /\ r.token = None
    BY <2>2, FailedOK
  <2>7. Go(c, r)
    BY <2>1 DEF Fail
  <2> HIDE DEF r
  <2>8. Moves(c, r) /\ Fit(r, past.given)
    BY <2>1, <2>6, <2>7, GoMoves DEF Fit
  <2>9. Keeps(c, r)
    BY <2>1, <2>3, <2>5, <2>6, <2>8 DEF Keeps
  <2>10. Books(c, r)
    BY <2>1, <2>6 DEF Books
  <2> QED BY <2>1, <2>8, <2>9, <2>10 DEF HandlerOK
<1> QED BY <1>1, <1>2, <1>3, <1>4

LEMMA HandlerDoes == ASSUME TypeInv, NEW c, Handler(c) \/ Lose(c) PROVE HandlerOK(c)
BY StoreUploadOK, PreviewOK, ReparseOK, EnhanceOK, ModelAnswersOK, InsertSampleOK, ReadCommitOK,
   StoreImportOK, RememberMappingOK, EndsOK DEF Handler

-----------------------------------------------------------------------------
(* What the user, the page and time do.                                     *)

(* Nothing but "sent", the number of faults or the descriptions changed.    *)
SameHistory ==
  /\ past'.given = past.given /\ past'.lost = past.lost /\ past'.unheard = past.unheard
  /\ past' \in History([DOMAIN past.given -> File])

(* The page sends the request q: for the file just chosen or for the upload shown. *)
Sends(q) ==
  /\ q \in Request /\ q.pc = "sent" /\ q.live /\ Fit(q, past.given)
  /\ \E c \in Call \ DOMAIN calls : calls' = With(calls, c, q)
  /\ UNCHANGED Server /\ SameHistory /\ past'.described = past.described
  /\ page' \in Page /\ page'.token = page.token /\ page'.stage = page.stage /\ drops' = drops
  /\ \/ /\ q.op = "preview" /\ page.stage = "upload" /\ ~page.loading /\ page'.loading
        /\ q.token = None /\ q.file = page'.file
     \/ /\ page.stage = "preview" /\ q.token = page.token /\ page'.file = page.file
        /\ \/ /\ q.op = "commit" /\ ~page.loading /\ page'.loading
              /\ q.chosen = (past.given[page.token] = page.file)
           \/ q.op \notin {"preview", "commit"} /\ page'.loading = page.loading

(* Time passes, or the user starts again after an import. *)
Quiet ==
  /\ files' \subseteq files /\ drops' \subseteq drops /\ SameHistory
  /\ UNCHANGED <<saved, samples, book, calls>>
  /\ \/ page' = page
     \/ /\ page.stage = "done" /\ page' \in Page /\ page'.stage = "upload" /\ page'.token = page.token
        /\ page'.loading = page.loading

LEMMA SendPast ==
  ASSUME TypeInv, NEW q, Send(q)
  PROVE  /\ SameHistory /\ past'.described = past.described /\ UNCHANGED Server
         /\ \E c \in Call \ DOMAIN calls : calls' = With(calls, c, q)
<1>1. past.sent < MaxRequests /\ past' = [past EXCEPT !.sent = past.sent + 1]
  BY DEF Send
<1>2. past.sent + 1 \in 0..MaxRequests
  BY <1>1, PastParts, UploadsAssumption
<1>3. SameHistory /\ past'.described = past.described
  BY <1>1, <1>2, PastParts DEF SameHistory, History
<1>4. UNCHANGED Server /\ \E c \in Call \ DOMAIN calls : calls' = With(calls, c, q)
  BY DEF Send
<1> QED BY <1>3, <1>4

LEMMA BlankParts ==
  /\ Blank.op = "cancel" /\ Blank.pc = "sent" /\ Blank.token = None /\ Blank.live /\ Blank.chosen = FALSE
BY DEF Blank

LEMMA SubmitPreviewOK ==
  ASSUME TypeInv, NEW f \in File, SubmitPreview(f)
  PROVE  \E q : Sends(q)
<1> DEFINE q == [Blank EXCEPT !.op = "preview", !.file = f]
           p == [page EXCEPT !.file = f, !.loading = TRUE]
<1>1. page.stage = "upload" /\ ~page.loading /\ Render(p) /\ Send(q)
  BY DEF SubmitPreview
<1>2. q \in Request /\ q.op = "preview" /\ q.pc = "sent" /\ q.live /\ q.token = None /\ q.file = f
  BY BlankOK, BlankParts DEF Request, Op
<1>3. p \in Page /\ p.token = page.token /\ p.stage = page.stage /\ p.loading /\ p.file = f
  BY Unfolded DEF Page
<1> HIDE DEF p, q
<1>4. page' = p /\ drops' = drops
  BY <1>1 DEF Render
<1>5. Fit(q, past.given)
  BY <1>2 DEF Fit
<1>6. Sends(q)
  BY <1>1, <1>2, <1>3, <1>4, <1>5, SendPast DEF Sends
<1> QED BY <1>6

LEMMA ShownOK ==
  ASSUME TypeInv, NEW kind, Previewing(kind)
  PROVE  /\ page.stage = "preview" /\ page.token # None /\ page.token \in DOMAIN past.given
         /\ page.token \in Token
BY Unfolded DEF Previewing, TypeInv

(* A request for the upload shown, other than a commit. *)
LEMMA SmallSendsOK ==
  ASSUME TypeInv, NEW q, q \in Request, q.op \notin {"preview", "commit"}, q.pc = "sent", q.live,
         q.token = page.token, page.stage = "preview", page.token \in DOMAIN past.given,
         page.token # None, Send(q), NEW p \in Page, page' = p, drops' = drops,
         p.token = page.token, p.stage = page.stage, p.file = page.file, p.loading = page.loading
  PROVE  Sends(q)
<1>1. Fit(q, past.given)
  BY DEF Fit
<1> QED BY <1>1, SendPast DEF Sends

LEMMA SetMappingOK == ASSUME TypeInv, NEW m \in Mapping, SetMapping(m) PROVE \E q : Sends(q)
<1> DEFINE q == [Blank EXCEPT !.op = "reparse", !.token = page.token, !.map = m]
           p == [page EXCEPT !.map = m, !.reparsing = TRUE]
<1>1. Previewing(Csv) /\ Render(p) /\ Send(q)
  BY DEF SetMapping
<1>2. page.stage = "preview" /\ page.token # None /\ page.token \in DOMAIN past.given /\ page.token \in Token
  BY <1>1, ShownOK
<1>3. /\ q \in Request /\ q.op \notin {"preview", "commit"} /\ q.pc = "sent" /\ q.live
      /\ q.token = page.token
  BY <1>2, BlankOK, BlankParts DEF Request, Op
<1>4. p \in Page /\ p.token = page.token /\ p.stage = page.stage /\ p.file = page.file
      /\ p.loading = page.loading
  BY Unfolded DEF Page
<1> HIDE DEF p, q
<1>5. page' = p /\ drops' = drops
  BY <1>1, <1>4 DEF Render
<1>6. Sends(q)
  BY <1>1, <1>2, <1>3, <1>4, <1>5, SmallSendsOK
<1> QED BY <1>6

LEMMA EnhanceWithLlmOK == ASSUME TypeInv, EnhanceWithLlm PROVE \E q : Sends(q)
<1> DEFINE q == [Blank EXCEPT !.op = "enhance", !.token = page.token]
           p == [page EXCEPT !.llm = "loading"]
<1>1. Previewing(Pdf) /\ Render(p) /\ Send(q)
  BY DEF EnhanceWithLlm
<1>2. page.stage = "preview" /\ page.token # None /\ page.token \in DOMAIN past.given /\ page.token \in Token
  BY <1>1, ShownOK
<1>3. /\ q \in Request /\ q.op \notin {"preview", "commit"} /\ q.pc = "sent" /\ q.live
      /\ q.token = page.token
  BY <1>2, BlankOK, BlankParts DEF Request, Op
<1>4. p \in Page /\ p.token = page.token /\ p.stage = page.stage /\ p.file = page.file
      /\ p.loading = page.loading
  BY Unfolded DEF Page
<1> HIDE DEF p, q
<1>5. page' = p /\ drops' = drops
  BY <1>1, <1>4 DEF Render
<1>6. Sends(q)
  BY <1>1, <1>2, <1>3, <1>4, <1>5, SmallSendsOK
<1> QED BY <1>6

LEMMA SubmitSampleOK == ASSUME TypeInv, SubmitSample PROVE \E q : Sends(q)
<1> DEFINE q == [Blank EXCEPT !.op = "sample", !.token = page.token]
           p == [page EXCEPT !.sample = "loading"]
<1>1. Previewing(Pdf) /\ Render(p) /\ Send(q)
  BY DEF SubmitSample
<1>2. page.stage = "preview" /\ page.token # None /\ page.token \in DOMAIN past.given /\ page.token \in Token
  BY <1>1, ShownOK
<1>3. /\ q \in Request /\ q.op \notin {"preview", "commit"} /\ q.pc = "sent" /\ q.live
      /\ q.token = page.token
  BY <1>2, BlankOK, BlankParts DEF Request, Op
<1>4. p \in Page /\ p.token = page.token /\ p.stage = page.stage /\ p.file = page.file
      /\ p.loading = page.loading
  BY Unfolded DEF Page
<1> HIDE DEF p, q
<1>5. page' = p /\ drops' = drops
  BY <1>1, <1>4 DEF Render
<1>6. Sends(q)
  BY <1>1, <1>2, <1>3, <1>4, <1>5, SmallSendsOK
<1> QED BY <1>6

LEMMA CancelOK == ASSUME TypeInv, Cancel PROVE \E q : Sends(q)
<1> DEFINE q == [Blank EXCEPT !.token = page.token]
<1>1. Previewing(File) /\ Send(q) /\ page' = page /\ drops' = drops
  BY DEF Cancel
<1>2. page.stage = "preview" /\ page.token # None /\ page.token \in DOMAIN past.given /\ page.token \in Token
  BY <1>1, ShownOK
<1>3. /\ q \in Request /\ q.op \notin {"preview", "commit"} /\ q.pc = "sent" /\ q.live
      /\ q.token = page.token
  BY <1>2, BlankOK, BlankParts DEF Request, Op
<1> HIDE DEF q
<1>4. page \in Page
  BY Unfolded
<1>5. Sends(q)
  BY <1>1, <1>2, <1>3, <1>4, SmallSendsOK
<1> QED BY <1>5

LEMMA ConfirmOK == ASSUME TypeInv, NEW keep \in BOOLEAN, Confirm(keep) PROVE \E q : Sends(q)
<1> DEFINE map == IF Previewing(Csv) THEN page.map ELSE None
           chosen == (past.given[page.token] = page.file)
           q == [Blank EXCEPT !.op = "commit", !.token = page.token, !.keep = keep,
                              !.map = map, !.chosen = chosen]
           p == [page EXCEPT !.loading = TRUE]
<1>1. Previewing(File) /\ ~page.loading /\ Render(p) /\ Send(q)
  BY DEF Confirm, Commit
<1>2. page.stage = "preview" /\ page.token # None /\ page.token \in DOMAIN past.given /\ page.token \in Token
  BY <1>1, ShownOK
<1>3. map \in Mapping \cup {None} /\ chosen \in BOOLEAN
  BY Unfolded DEF Page
<1>4. /\ q \in Request /\ q.op = "commit" /\ q.pc = "sent" /\ q.live
      /\ q.token = page.token /\ q.chosen = chosen
  <2> HIDE DEF map, chosen
  <2> QED BY <1>2, <1>3, BlankOK, BlankParts DEF Request, Op
<1>5. p \in Page /\ p.token = page.token /\ p.stage = page.stage /\ p.file = page.file /\ p.loading
  BY Unfolded DEF Page
<1> HIDE DEF p, q
<1>6. page' = p /\ drops' = drops
  BY <1>1, <1>5 DEF Render
<1>7. Fit(q, past.given)
  BY <1>2, <1>4 DEF Fit
<1>8. Sends(q)
  BY <1>1, <1>2, <1>4, <1>5, <1>6, <1>7, SendPast DEF Sends
<1> QED BY <1>8

-----------------------------------------------------------------------------
(* An answer, the end of a page and the end of the server.                  *)

(* What the answer of "call" makes of the page p. *)
Turns(p, call, ok, n) ==
  /\ n \in Page /\ n.file = p.file
  /\ \/ /\ call.op = "preview" /\ ok
        /\ n.token = call.token /\ n.stage = "preview" /\ ~n.loading
     \/ /\ call.op \in {"preview", "commit"} /\ ~ok
        /\ n.token = p.token /\ n.stage = p.stage /\ ~n.loading
     \/ /\ call.op \in {"reparse", "enhance"} /\ ok
        /\ n.token = call.token /\ n.stage = p.stage /\ n.loading = p.loading
     \/ /\ call.op \in {"reparse", "enhance", "sample"}
        /\ n.token = p.token /\ n.stage = p.stage /\ n.loading = p.loading
     \/ call.op = "commit" /\ ok /\ n.token = None /\ n.stage = "done" /\ ~n.loading
     \/ call.op = "cancel" /\ n.token = None /\ n.stage = "upload" /\ n.loading = p.loading

Receives(c, n) ==
  /\ c \in DOMAIN calls /\ calls[c].pc \in {"ok", "failed"}
  /\ calls' = Without(calls, {c}) /\ UNCHANGED Server
  /\ page' = n
  /\ \/ calls[c].live /\ Turns(page, calls[c], calls[c].pc = "ok", n)
     \/ ~calls[c].live /\ n = page
  /\ drops' \subseteq DOMAIN past.given
  /\ past'.given = past.given /\ past'.unheard = past.unheard /\ past'.described = past.described
  /\ past.lost \subseteq past'.lost /\ past' \in History([DOMAIN past.given -> File])
  /\ page.stage = "preview" /\ page.token \notin {n.token, calls[c].token, None}
     => page.token \in past'.lost

Leaves ==
  /\ page' = NewPage /\ UNCHANGED Server /\ SameHistory /\ past'.described = past.described
  /\ drops' \subseteq DOMAIN past.given
  /\ calls' = [c \in DOMAIN calls |-> [calls[c] EXCEPT !.live = FALSE]]

Crashes ==
  /\ UNCHANGED <<files, saved, samples, book, page>> /\ drops' = {}
  /\ calls' = [c \in DOMAIN calls |->
                IF calls[c].pc \in {"ok", "failed"} THEN calls[c] ELSE Failed(calls[c])]
  /\ past'.given = past.given /\ past'.lost = past.lost /\ past'.described = past.described
  /\ past'.unheard = past.unheard \cup Tokens("commit", {"read", "stored"})
  /\ past' \in History([DOMAIN past.given -> File])

LEMMA ShowsOK ==
  ASSUME NEW p \in Page, NEW call \in Request
  PROVE  /\ Shows(p, call) \in Page /\ Shows(p, call).token = call.token
         /\ Shows(p, call).file = p.file /\ Shows(p, call).stage = p.stage
         /\ Shows(p, call).loading = p.loading
BY DEF Shows, Page, Request

LEMMA AfterTurns ==
  ASSUME NEW p \in Page, NEW call \in Request, NEW ok \in BOOLEAN
  PROVE  Turns(p, call, ok, After(p, call, ok))
<1> DEFINE s == IF ok THEN Shows(p, call) ELSE p
<1>1. call.op \in Op /\ call.token \in Token \cup {None} /\ call.map \in Mapping \cup {None}
  BY DEF Request
<1>2. s \in Page /\ s.token = (IF ok THEN call.token ELSE p.token) /\ s.file = p.file
      /\ s.stage = p.stage /\ s.loading = p.loading
  BY ShowsOK
<1>3. CASE call.op = "preview" /\ ok
  <2>1. After(p, call, ok)
          = [s EXCEPT !.map = call.map, !.stage = "preview", !.loading = FALSE]
    BY <1>3 DEF After
  <2> HIDE DEF s
  <2> QED BY <1>1, <1>2, <1>3, <2>1 DEF Turns, Page
<1>4. CASE call.op = "preview" /\ ~ok
  <2>1. After(p, call, ok) = [p EXCEPT !.loading = FALSE]
    BY <1>4 DEF After
  <2> QED BY <1>4, <2>1 DEF Turns, Page
<1>5. CASE call.op = "reparse"
  <2>1. After(p, call, ok) = [s EXCEPT !.reparsing = FALSE]
    BY <1>5 DEF After
  <2> HIDE DEF s
  <2> QED BY <1>2, <1>5, <2>1 DEF Turns, Page
<1>6. CASE call.op = "enhance"
  <2>1. After(p, call, ok) = [s EXCEPT !.llm = "idle"]
    BY <1>6 DEF After
  <2> HIDE DEF s
  <2> QED BY <1>2, <1>6, <2>1 DEF Turns, Page
<1>7. CASE call.op = "sample"
  <2>1. After(p, call, ok) = [p EXCEPT !.sample = IF ok THEN "submitted" ELSE "error"]
    BY <1>7 DEF After
  <2> QED BY <1>7, <2>1 DEF Turns, Page
<1>8. CASE call.op = "commit" /\ ok
  <2>1. After(p, call, ok)
          = [p EXCEPT !.stage = "done", !.token = None, !.shown = None, !.loading = FALSE]
    BY <1>8 DEF After
  <2> QED BY <1>8, <2>1 DEF Turns, Page
<1>9. CASE call.op = "commit" /\ ~ok
  <2>1. After(p, call, ok) = [p EXCEPT !.loading = FALSE]
    BY <1>9 DEF After
  <2> QED BY <1>9, <2>1 DEF Turns, Page
<1>10. CASE call.op = "cancel"
  <2>1. After(p, call, ok)
          = [p EXCEPT !.token = None, !.shown = None, !.map = None, !.llm = "idle",
                      !.sample = "idle", !.stage = "upload"]
    BY <1>10 DEF After
  <2> QED BY <1>10, <2>1 DEF Turns, Page
<1> QED BY <1>1, <1>3, <1>4, <1>5, <1>6, <1>7, <1>8, <1>9, <1>10 DEF Op

LEMMA RenderDrops ==
  ASSUME TypeInv, NEW n, Render(n)
  PROVE  page' = n /\ drops' \subseteq DOMAIN past.given
<1>1. drops \subseteq DOMAIN past.given /\ page.token \in DOMAIN past.given \cup {None}
  BY DEF TypeInv
<1> QED BY <1>1 DEF Render

LEMMA ReceiveOK == ASSUME TypeInv, NEW c, Receive(c) PROVE \E n : Receives(c, n)
<1> DEFINE n == IF calls[c].live THEN After(page, calls[c], calls[c].pc = "ok") ELSE page
           L == IF page.stage = "preview" /\ page.token \notin {n.token, calls[c].token}
                THEN past.lost \cup ({page.token} \ {None}) ELSE past.lost
<1>1. /\ c \in DOMAIN calls /\ calls[c].pc \in {"ok", "failed"} /\ Render(n)
      /\ calls' = Without(calls, {c}) /\ UNCHANGED Server /\ past' = [past EXCEPT !.lost = L]
  BY DEF Receive
<1>2. calls[c] \in Request /\ page \in Page
  BY <1>1, Unfolded
<1>3. \/ calls[c].live /\ Turns(page, calls[c], calls[c].pc = "ok", n)
      \/ ~calls[c].live /\ n = page
  BY <1>2, AfterTurns
<1> HIDE DEF n
<1>4. page.token \in Token \cup {None}
  BY <1>2 DEF Page
<1>5. past.lost \subseteq L /\ L \subseteq Token
  BY <1>4, PastParts
<1>6. page.stage = "preview" /\ page.token \notin {n.token, calls[c].token, None} => page.token \in L
  OBVIOUS
<1> HIDE DEF L
<1>7. /\ past'.given = past.given /\ past'.unheard = past.unheard /\ past'.described = past.described
      /\ past'.lost = L /\ past' \in History([DOMAIN past.given -> File])
  BY <1>1, <1>5, PastParts DEF History
<1>8. page' = n /\ drops' \subseteq DOMAIN past.given
  BY <1>1, RenderDrops
<1>9. Receives(c, n)
  BY <1>1, <1>3, <1>5, <1>6, <1>7, <1>8 DEF Receives
<1> QED BY <1>9

LEMMA LeaveOK == ASSUME TypeInv, Leave PROVE Leaves
<1>1. past.sent < MaxRequests /\ past' = [past EXCEPT !.sent = past.sent + 1]
  BY DEF Leave
<1>2. past.sent + 1 \in 0..MaxRequests
  BY <1>1, PastParts, UploadsAssumption
<1>3. SameHistory /\ past'.described = past.described
  BY <1>1, <1>2, PastParts DEF SameHistory, History
<1>4. page' = NewPage /\ drops' \subseteq DOMAIN past.given
  BY RenderDrops DEF Leave
<1> QED BY <1>3, <1>4 DEF Leaves, Leave

LEMMA CrashOK == ASSUME TypeInv, Crash PROVE Crashes /\ hints' = [hints EXCEPT !.todo = 0, !.describing = 0]
<1> DEFINE U == past.unheard \cup Tokens("commit", {"read", "stored"})
<1>1. U \subseteq Token
  <2>1. ASSUME NEW t \in Tokens("commit", {"read", "stored"}) PROVE t \in Token
    <3>1. PICK c \in DOMAIN calls : calls[c].op = "commit" /\ calls[c].pc \in {"read", "stored"}
                                    /\ t = calls[c].token
      BY DEF Tokens
    <3> QED BY <3>1, Unfolded DEF Fit
  <2> QED BY <2>1, PastParts
<1> DEFINE next == [past EXCEPT !.unheard = U]
<1>2. next.faults = past.faults
  BY PastParts DEF History
<1>3. Faulty(next)
  BY DEF Crash
<1>4. past.faults < MaxFaults /\ past' = [next EXCEPT !.faults = past.faults + 1]
  BY <1>2, <1>3 DEF Faulty
<1>5. past.faults + 1 \in 0..MaxFaults
  <2> HIDE DEF next, U
  <2> QED BY <1>4, PastParts, UploadsAssumption
<1> HIDE DEF U
<1>6. /\ past'.given = past.given /\ past'.lost = past.lost /\ past'.described = past.described
      /\ past'.unheard = U /\ past' \in History([DOMAIN past.given -> File])
  BY <1>1, <1>4, <1>5, PastParts DEF History
<1> QED BY <1>6 DEF Crashes, Crash, U

LEMMA QuietOK ==
  ASSUME TypeInv, (\E t \in Token : Drop(t)) \/ TrackHit \/ SaveHint \/ Reap \/ Restart \/ UNCHANGED vars
  PROVE  Quiet
<1>1. past \in History([DOMAIN past.given -> File])
  BY PastParts
<1>2. CASE UNCHANGED past
  <2>1. SameHistory
    BY <1>1, <1>2 DEF SameHistory
  <2>2. page \in Page
    BY Unfolded
  <2>3. CASE Restart
    <3> DEFINE n == [page EXCEPT !.stage = "upload"]
    <3>1. n \in Page /\ n.stage = "upload" /\ n.token = page.token /\ n.loading = page.loading
      BY <2>2 DEF Page
    <3>2. page.stage = "done" /\ Render(n) /\ UNCHANGED Server /\ UNCHANGED <<calls, past>>
      BY <2>3 DEF Restart
    <3> HIDE DEF n
    <3>3. page' = n /\ drops' = drops
      BY <3>2 DEF Render
    <3> QED BY <2>1, <3>1, <3>2, <3>3 DEF Quiet, Server
  <2>4. CASE \E t \in Token : Drop(t)
    BY <2>1, <2>4 DEF Quiet, Drop
  <2>5. CASE Reap
    BY <2>1, <2>5 DEF Quiet, Reap
  <2>6. CASE TrackHit \/ SaveHint
    BY <2>1, <2>6 DEF Quiet, TrackHit, SaveHint
  <2>7. CASE UNCHANGED vars
    BY <2>1, <2>7 DEF Quiet, vars
  <2> QED BY <2>3, <2>4, <2>5, <2>6, <2>7
<1>3. CASE past' # past
  <2>1. CASE TrackHit
    <3> DEFINE d == IF Threshold(Inc(hints.hits)) THEN Inc(past.described) ELSE past.described
    <3>1. past' = [past EXCEPT !.described = d] /\ UNCHANGED <<files, saved, samples, book, page, calls, drops>>
      BY <2>1 DEF TrackHit
    <3>2. d \in Count
      BY PastParts DEF Inc, Count
    <3> HIDE DEF d
    <3>3. SameHistory
      BY <1>1, <3>1, <3>2 DEF SameHistory, History
    <3> QED BY <3>1, <3>3 DEF Quiet
  <2>2. CASE SaveHint
    <3>1. Faulty(past) /\ UNCHANGED <<files, saved, samples, book, page, calls, drops>>
      BY <1>3, <2>2 DEF SaveHint
    <3>2. past.faults + 1 \in 0..MaxFaults
      BY <3>1, PastParts, UploadsAssumption DEF Faulty
    <3>3. past' = [past EXCEPT !.faults = past.faults + 1]
      BY <3>1 DEF Faulty
    <3>4. SameHistory
      BY <1>1, <3>2, <3>3 DEF SameHistory, History
    <3> QED BY <3>1, <3>4 DEF Quiet
  <2> QED BY <1>3, <2>1, <2>2 DEF Drop, Reap, Restart, vars
<1> QED BY <1>2, <1>3

(* A step of the system is one of these. *)
LEMMA StepIs ==
  ASSUME TypeInv, [Next]_vars
  PROVE  \/ \E q : Sends(q)
         \/ \E c : HandlerOK(c)
         \/ \E c, n : Receives(c, n)
         \/ Leaves \/ Crashes \/ Quiet
<1>1. CASE User
  BY <1>1, SubmitPreviewOK, SetMappingOK, EnhanceWithLlmOK, SubmitSampleOK, ConfirmOK, CancelOK,
     QuietOK, LeaveOK DEF User
<1>2. CASE \E c \in Call : Handler(c) \/ Receive(c) \/ Lose(c)
  BY <1>2, HandlerDoes, ReceiveOK
<1>3. CASE (\E t \in Token : Drop(t)) \/ TrackHit \/ SaveHint \/ Reap \/ UNCHANGED vars
  BY <1>3, QuietOK
<1>4. CASE Crash
  BY <1>4, CrashOK
<1> QED BY <1>1, <1>2, <1>3, <1>4 DEF Next

-----------------------------------------------------------------------------
(* Types.                                                                   *)

Hints == [hits : Count, todo : Count, describing : Count, hint : BOOLEAN]

(* What stands beside the files: the mapping, the hints and the samples.    *)
SidesOK ==
  /\ saved' \in Mapping \cup {None}
  /\ hints' \in Hints /\ hints'.hits = hints.hits
  /\ DOMAIN samples' \subseteq Token /\ samples' \in [DOMAIN samples' -> 1..2]
  /\ (\A t \in DOMAIN samples : samples[t] = 1) => \A t \in DOMAIN samples' : samples'[t] = 1

LEMMA SameSides ==
  ASSUME TypeInv, UNCHANGED <<saved, samples>>, hints' \in Hints, hints'.hits = hints.hits
  PROVE  SidesOK
BY DEF SidesOK, TypeInv, TypeOK

LEMMA SidesTyped ==
  ASSUME TypeInv
  PROVE  /\ saved \in Mapping \cup {None} /\ hints \in Hints
         /\ DOMAIN samples \subseteq Token /\ samples \in [DOMAIN samples -> 1..2]
BY DEF TypeInv, TypeOK, Hints

LEMMA HandlerSides == ASSUME TypeInv, NEW c, Handler(c) \/ Lose(c) PROVE SidesOK
<1>1. CASE UNCHANGED <<saved, hints, samples>>
  BY <1>1, SidesTyped, SameSides
<1>2. CASE RememberMapping(c)
  <2>1. c \in DOMAIN calls /\ saved' = calls[c].map /\ UNCHANGED <<hints, samples>>
    BY <1>2 DEF RememberMapping, At
  <2>2. saved' \in Mapping \cup {None}
    BY <2>1, Unfolded DEF Request
  <2> QED BY <2>1, <2>2, SidesTyped DEF SidesOK
<1>3. CASE ModelAnswers(c)
  <2>1. /\ UNCHANGED <<saved, samples>>
        /\ hints' = hints \/ (hints.todo < 2 /\ hints' = [hints EXCEPT !.todo = hints.todo + 1])
    BY <1>3 DEF ModelAnswers
  <2>2. hints.todo < 2 => hints.todo + 1 \in Count
    BY SidesTyped DEF Hints, Count
  <2>3. hints' \in Hints /\ hints'.hits = hints.hits
    BY <2>1, <2>2, SidesTyped DEF Hints
  <2> QED BY <2>1, <2>3, SameSides
<1>4. CASE InsertSample(c)
  <2> DEFINE t == calls[c].token
  <2>1. /\ c \in DOMAIN calls /\ calls[c].op = "sample" /\ calls[c].pc = "read"
        /\ UNCHANGED <<saved, hints>>
        /\ samples' = samples \/ samples' = With(samples, t, 1)
    BY <1>4 DEF InsertSample, At
  <2>2. t \in Token
    BY <2>1, Unfolded DEF Fit
  <2> HIDE DEF t
  <2>3. CASE samples' = samples
    BY <2>1, <2>3, SidesTyped, SameSides
  <2>4. CASE samples' = With(samples, t, 1)
    <3>1. /\ DOMAIN samples' = DOMAIN samples \cup {t} /\ samples' \in [DOMAIN samples \cup {t} -> 1..2]
          /\ samples'[t] = 1 /\ \A s \in DOMAIN samples : s # t => samples'[s] = samples[s]
      BY <2>4, SidesTyped DEF With
    <3> QED BY <2>1, <2>2, <3>1, SidesTyped DEF SidesOK
  <2> QED BY <2>1, <2>3, <2>4
<1>5. CASE StoreUpload(c) \/ Preview(c) \/ Reparse(c) \/ Enhance(c) \/ ReportUnknown(c)
  BY <1>1, <1>5 DEF StoreUpload, Preview, Reparse, Enhance, ReportUnknown, Refuse, Server
<1>6. CASE ReadCommit(c) \/ StoreImport(c) \/ FinishCommit(c) \/ FailCommit(c) \/ Abandon(c) \/ Lose(c)
  BY <1>1, <1>6 DEF ReadCommit, StoreImport, FinishCommit, FailCommit, Abandon, Lose, Refuse, Server
<1> QED BY <1>2, <1>3, <1>4, <1>5, <1>6 DEF Handler

LEMMA TypeFrom ==
  ASSUME DOMAIN past'.given \subseteq Token, past' \in History([DOMAIN past'.given -> File]),
         files' \subseteq DOMAIN past'.given, drops' \subseteq DOMAIN past'.given,
         page' \in Page, page'.token \in DOMAIN past'.given \cup {None},
         DOMAIN calls' \subseteq Call, calls' \in [DOMAIN calls' -> Request],
         \A c \in DOMAIN calls' : Fit(calls'[c], past'.given),
         book' \subseteq Import,
         saved' \in Mapping \cup {None}, hints' \in Hints,
         DOMAIN samples' \subseteq Token, samples' \in [DOMAIN samples' -> 1..2]
  PROVE  TypeInv'
BY DEF TypeInv, TypeOK, History, Hints

LEMMA BookTyped ==
  ASSUME TypeInv, NEW c \in DOMAIN calls, NEW r, Books(c, r), Moves(c, r)
  PROVE  book' \subseteq Import
<1>1. book \subseteq Import
  BY DEF TypeInv, TypeOK
<1>2. CASE book' = book
  BY <1>1, <1>2
<1>3. CASE book' # book
  <2> DEFINE again == \E i \in book : i.token = calls[c].token
  <2>1. /\ calls[c].op = "commit" /\ calls[c].pc = "read"
        /\ book' = book \cup {[token |-> calls[c].token, chosen |-> calls[c].chosen, again |-> again]}
    BY <1>3 DEF Books, Moves
  <2>2. calls[c].token \in Token /\ calls[c].chosen \in BOOLEAN
    BY <2>1, Unfolded DEF Fit, Request
  <2>3. again \in BOOLEAN
    OBVIOUS
  <2> HIDE DEF again
  <2> QED BY <1>1, <2>1, <2>2, <2>3 DEF Import
<1> QED BY <1>2, <1>3

LEMMA MovesCalls ==
  ASSUME TypeInv, NEW c, NEW r, Moves(c, r)
  PROVE  /\ c \in DOMAIN calls /\ DOMAIN calls' = DOMAIN calls /\ calls'[c] = r
         /\ \A d \in DOMAIN calls : d # c => calls'[d] = calls[d]
         /\ DOMAIN calls' \subseteq Call /\ calls' \in [DOMAIN calls' -> Request]
         /\ page' = page /\ drops' = drops
BY Unfolded DEF Moves

LEMMA StoresHistory ==
  ASSUME TypeInv, NEW c \in DOMAIN calls, NEW r, Stores(c, r)
  PROVE  /\ DOMAIN past'.given = DOMAIN past.given \cup {r.token} /\ past'.given[r.token] = calls[c].file
         /\ past' \in History([DOMAIN past'.given -> File]) /\ DOMAIN past'.given \subseteq Token
         /\ \A t \in DOMAIN past.given : past'.given[t] = past.given[t]
         /\ past'.lost = past.lost /\ past'.unheard = past.unheard /\ past'.described = past.described
<1> DEFINE g == With(past.given, r.token, calls[c].file)
<1>1. calls[c].file \in File /\ r.token \in Token \ DOMAIN past.given
  BY Unfolded DEF Fit, Stores
<1>2. /\ DOMAIN g = DOMAIN past.given \cup {r.token} /\ g[r.token] = calls[c].file
      /\ g \in [DOMAIN past.given \cup {r.token} -> File]
      /\ \A t \in DOMAIN past.given : t # r.token => g[t] = past.given[t]
  BY <1>1, PastParts DEF With
<1>3. past' = [past EXCEPT !.given = g]
  BY DEF Stores
<1> HIDE DEF g
<1>4. /\ past'.given = g /\ past' \in History([DOMAIN g -> File])
      /\ past'.lost = past.lost /\ past'.unheard = past.unheard /\ past'.described = past.described
  BY <1>2, <1>3, PastParts DEF History
<1> QED BY <1>1, <1>2, <1>4, PastParts

LEMMA FitGrows ==
  ASSUME NEW q, NEW g, NEW h, Fit(q, g), DOMAIN g \subseteq DOMAIN h
  PROVE  Fit(q, h)
BY DEF Fit

LEMMA HandlerTypes ==
  ASSUME TypeInv, NEW c, HandlerOK(c), SidesOK
  PROVE  TypeInv'
<1>1. PICK r : Moves(c, r) /\ Books(c, r) /\ (Stores(c, r) \/ Keeps(c, r))
  BY DEF HandlerOK
<1>2. /\ c \in DOMAIN calls /\ DOMAIN calls' = DOMAIN calls /\ calls'[c] = r
      /\ \A d \in DOMAIN calls : d # c => calls'[d] = calls[d]
      /\ DOMAIN calls' \subseteq Call /\ calls' \in [DOMAIN calls' -> Request]
      /\ page' = page /\ drops' = drops
  BY <1>1, MovesCalls
<1>3. book' \subseteq Import
  BY <1>1, <1>2, BookTyped
<1>4. /\ files \subseteq DOMAIN past.given /\ drops \subseteq DOMAIN past.given /\ page \in Page
      /\ page.token \in DOMAIN past.given \cup {None}
      /\ \A d \in DOMAIN calls : calls[d] \in Request /\ Fit(calls[d], past.given)
  BY Unfolded DEF TypeInv
<1>5. CASE Stores(c, r)
  <2>1. /\ DOMAIN past'.given = DOMAIN past.given \cup {r.token}
        /\ past' \in History([DOMAIN past'.given -> File]) /\ DOMAIN past'.given \subseteq Token
    BY <1>2, <1>5, StoresHistory
  <2>2. /\ files' = files \cup {r.token} /\ calls[c].op = "preview" /\ r.pc = "written"
        /\ r.token \in Token
    BY <1>5 DEF Stores
  <2>3. Fit(r, past'.given)
    <3>1. r.op = "preview"
      BY <1>1, <2>2 DEF Moves
    <3> QED BY <2>1, <2>2, <3>1, NoneIsNothing DEF Fit
  <2>4. \A d \in DOMAIN calls' : Fit(calls'[d], past'.given)
    BY <1>2, <1>4, <2>1, <2>3, FitGrows
  <2> QED BY <1>2, <1>3, <1>4, <2>1, <2>2, <2>4, TypeFrom DEF SidesOK
<1>6. CASE Keeps(c, r)
  <2>1. /\ past'.given = past.given /\ past' \in History([DOMAIN past'.given -> File])
        /\ files' \subseteq files /\ Fit(r, past'.given)
    BY <1>6 DEF Keeps
  <2>2. \A d \in DOMAIN calls' : Fit(calls'[d], past'.given)
    BY <1>2, <1>4, <2>1
  <2> QED BY <1>2, <1>3, <1>4, <2>1, <2>2, PastParts, TypeFrom DEF SidesOK
<1> QED BY <1>1, <1>5, <1>6

LEMMA SendsCalls ==
  ASSUME TypeInv, NEW q, Sends(q)
  PROVE  \E c \in Call \ DOMAIN calls :
           /\ DOMAIN calls' = DOMAIN calls \cup {c} /\ calls'[c] = q
           /\ \A d \in DOMAIN calls : calls'[d] = calls[d]
           /\ DOMAIN calls' \subseteq Call /\ calls' \in [DOMAIN calls' -> Request]
<1>1. PICK c \in Call \ DOMAIN calls : calls' = With(calls, c, q)
  BY DEF Sends
<1>2. q \in Request /\ calls \in [DOMAIN calls -> Request] /\ DOMAIN calls \subseteq Call
  BY Unfolded DEF Sends
<1> QED BY <1>1, <1>2 DEF With

LEMMA SendsTypes == ASSUME TypeInv, NEW q, Sends(q) PROVE TypeInv'
<1>1. PICK c \in Call \ DOMAIN calls :
        /\ DOMAIN calls' = DOMAIN calls \cup {c} /\ calls'[c] = q
        /\ \A d \in DOMAIN calls : calls'[d] = calls[d]
        /\ DOMAIN calls' \subseteq Call /\ calls' \in [DOMAIN calls' -> Request]
  BY SendsCalls
<1>2. /\ UNCHANGED <<files, saved, hints, samples, book>> /\ page' \in Page /\ page'.token = page.token
      /\ drops' = drops /\ Fit(q, past.given)
      /\ past'.given = past.given /\ past' \in History([DOMAIN past.given -> File])
  BY DEF Sends, Server, SameHistory
<1>3. \A d \in DOMAIN calls' : Fit(calls'[d], past'.given)
  BY <1>1, <1>2, Unfolded
<1>4. files \subseteq DOMAIN past.given /\ drops \subseteq DOMAIN past.given
      /\ page.token \in DOMAIN past.given \cup {None} /\ book \subseteq Import
  BY DEF TypeInv, TypeOK
<1> QED BY <1>1, <1>2, <1>3, <1>4, PastParts, SidesTyped, TypeFrom

LEMMA ReceivesTypes == ASSUME TypeInv, NEW c, NEW n, Receives(c, n) PROVE TypeInv'
<1>1. /\ c \in DOMAIN calls /\ calls' = Without(calls, {c})
      /\ UNCHANGED <<files, saved, hints, samples, book>> /\ page' = n
      /\ drops' \subseteq DOMAIN past.given
      /\ past'.given = past.given /\ past' \in History([DOMAIN past.given -> File])
      /\ \/ calls[c].live /\ Turns(page, calls[c], calls[c].pc = "ok", n)
         \/ ~calls[c].live /\ n = page
  BY DEF Receives, Server
<1>2. files \subseteq DOMAIN past.given /\ page \in Page
      /\ page.token \in DOMAIN past.given \cup {None} /\ book \subseteq Import
  BY DEF TypeInv, TypeOK
<1>3. page' \in Page /\ page'.token \in DOMAIN past.given \cup {None}
  <2>1. calls[c].token \in DOMAIN past.given \cup {None}
    BY <1>1, Unfolded DEF Fit
  <2> QED BY <1>1, <1>2, <2>1 DEF Turns
<1>4. /\ DOMAIN calls' = DOMAIN calls \ {c} /\ \A d \in DOMAIN calls' : calls'[d] = calls[d]
      /\ calls' \in [DOMAIN calls' -> Request] /\ DOMAIN calls' \subseteq Call
  BY <1>1, Unfolded DEF Without
<1>5. \A d \in DOMAIN calls' : Fit(calls'[d], past'.given)
  BY <1>1, <1>4, Unfolded
<1> QED BY <1>1, <1>2, <1>3, <1>4, <1>5, PastParts, SidesTyped, TypeFrom

LEMMA LeavesCalls ==
  ASSUME TypeInv, Leaves
  PROVE  /\ DOMAIN calls' = DOMAIN calls /\ DOMAIN calls' \subseteq Call
         /\ calls' \in [DOMAIN calls' -> Request]
         /\ \A d \in DOMAIN calls' :
              /\ ~calls'[d].live /\ calls'[d].op = calls[d].op /\ calls'[d].pc = calls[d].pc
              /\ calls'[d].token = calls[d].token /\ calls'[d].file = calls[d].file
              /\ calls'[d].chosen = calls[d].chosen
<1>1. calls' = [d \in DOMAIN calls |-> [calls[d] EXCEPT !.live = FALSE]]
  BY DEF Leaves
<1>2. ASSUME NEW d \in DOMAIN calls
      PROVE  /\ calls'[d] \in Request
             /\ ~calls'[d].live /\ calls'[d].op = calls[d].op /\ calls'[d].pc = calls[d].pc
             /\ calls'[d].token = calls[d].token /\ calls'[d].file = calls[d].file
             /\ calls'[d].chosen = calls[d].chosen
  <2>1. calls[d] \in Request /\ calls'[d] = [calls[d] EXCEPT !.live = FALSE]
    BY <1>1, Unfolded
  <2> QED BY <2>1 DEF Request
<1>3. DOMAIN calls' = DOMAIN calls /\ DOMAIN calls \subseteq Call
  BY <1>1, Unfolded
<1>4. calls' \in [DOMAIN calls -> Request]
  BY <1>1, <1>2
<1> QED BY <1>2, <1>3, <1>4

LEMMA NewPageOK ==
  /\ NewPage \in Page /\ NewPage.token = None /\ NewPage.stage = "upload" /\ ~NewPage.loading
BY DEF NewPage, Page

LEMMA LeavesTypes == ASSUME TypeInv, Leaves PROVE TypeInv'
<1>1. /\ UNCHANGED <<files, saved, hints, samples, book>> /\ page' = NewPage
      /\ drops' \subseteq DOMAIN past.given
      /\ past'.given = past.given /\ past' \in History([DOMAIN past.given -> File])
  BY DEF Leaves, Server, SameHistory
<1>2. files \subseteq DOMAIN past.given /\ book \subseteq Import
  BY DEF TypeInv, TypeOK
<1>3. \A d \in DOMAIN calls' : Fit(calls'[d], past'.given)
  BY <1>1, LeavesCalls, Unfolded DEF Fit
<1> QED BY <1>1, <1>2, <1>3, LeavesCalls, NewPageOK, PastParts, SidesTyped, TypeFrom

LEMMA CrashesCalls ==
  ASSUME TypeInv, Crashes
  PROVE  /\ DOMAIN calls' = DOMAIN calls /\ DOMAIN calls' \subseteq Call
         /\ calls' \in [DOMAIN calls' -> Request]
         /\ \A d \in DOMAIN calls' :
              \/ calls'[d] = calls[d] /\ calls[d].pc \in {"ok", "failed"}
              \/ /\ calls[d].pc \notin {"ok", "failed"} /\ calls'[d].op = calls[d].op
                 /\ calls'[d].pc = "failed" /\ calls'[d].live = calls[d].live /\ calls'[d].token = None
<1>1. calls' = [d \in DOMAIN calls |->
                 IF calls[d].pc \in {"ok", "failed"} THEN calls[d] ELSE Failed(calls[d])]
  BY DEF Crashes
<1>2. ASSUME NEW d \in DOMAIN calls
      PROVE  /\ calls'[d] \in Request
             /\ \/ calls'[d] = calls[d] /\ calls[d].pc \in {"ok", "failed"}
                \/ /\ calls[d].pc \notin {"ok", "failed"} /\ calls'[d].op = calls[d].op
                   /\ calls'[d].pc = "failed" /\ calls'[d].live = calls[d].live /\ calls'[d].token = None
  <2>1. calls[d] \in Request
    BY Unfolded
  <2>2. CASE calls[d].pc \in {"ok", "failed"}
    BY <1>1, <2>1, <2>2
  <2>3. CASE calls[d].pc \notin {"ok", "failed"}
    <3>1. calls'[d] = Failed(calls[d])
      BY <1>1, <2>3
    <3> QED BY <2>1, <2>3, <3>1, FailedOK
  <2> QED BY <2>2, <2>3
<1>3. DOMAIN calls' = DOMAIN calls /\ DOMAIN calls \subseteq Call
  BY <1>1, Unfolded
<1>4. calls' \in [DOMAIN calls -> Request]
  BY <1>1, <1>2
<1> QED BY <1>2, <1>3, <1>4

LEMMA CrashesTypes ==
  ASSUME TypeInv, Crashes, hints' = [hints EXCEPT !.todo = 0, !.describing = 0]
  PROVE  TypeInv' /\ SidesOK
<1>1. /\ UNCHANGED <<files, saved, samples, book, page>> /\ drops' = {}
      /\ past'.given = past.given /\ past' \in History([DOMAIN past.given -> File])
  BY DEF Crashes
<1>2. /\ files \subseteq DOMAIN past.given /\ book \subseteq Import /\ page \in Page
      /\ page.token \in DOMAIN past.given \cup {None}
  BY DEF TypeInv, TypeOK
<1>3. hints' \in Hints /\ hints'.hits = hints.hits
  <2>1. hints \in Hints /\ 0 \in Count
    BY SidesTyped DEF Count
  <2> QED BY <2>1 DEF Hints
<1>4. \A d \in DOMAIN calls' : Fit(calls'[d], past'.given)
  BY <1>1, CrashesCalls, Unfolded DEF Fit
<1>5. TypeInv'
  BY <1>1, <1>2, <1>3, <1>4, CrashesCalls, PastParts, SidesTyped, TypeFrom
<1> QED BY <1>1, <1>3, <1>5, SameSides

LEMMA QuietTypes == ASSUME TypeInv, Quiet, hints' \in Hints PROVE TypeInv'
<1>1. /\ files' \subseteq files /\ drops' \subseteq drops /\ UNCHANGED <<saved, samples, book, calls>>
      /\ past'.given = past.given /\ past' \in History([DOMAIN past.given -> File])
      /\ page' = page \/ (page' \in Page /\ page'.token = page.token)
  BY DEF Quiet, SameHistory
<1>2. /\ files \subseteq DOMAIN past.given /\ drops \subseteq DOMAIN past.given
      /\ book \subseteq Import /\ page \in Page
      /\ page.token \in DOMAIN past.given \cup {None}
  BY DEF TypeInv, TypeOK
<1>3. /\ calls' \in [DOMAIN calls' -> Request] /\ DOMAIN calls' \subseteq Call
      /\ \A d \in DOMAIN calls' : Fit(calls'[d], past'.given)
  BY <1>1, Unfolded
<1> QED BY <1>1, <1>2, <1>3, PastParts, SidesTyped, TypeFrom

LEMMA QuietHints ==
  ASSUME TypeInv, (\E t \in Token : Drop(t)) \/ TrackHit \/ SaveHint \/ Reap \/ Restart \/ UNCHANGED vars
  PROVE  hints' \in Hints
<1>1. hints \in Hints /\ hints.hits \in Count /\ hints.todo \in Count /\ hints.describing \in Count
  BY SidesTyped DEF Hints
<1>2. CASE TrackHit
  <2> DEFINE hits == Inc(hints.hits)
             d == IF Threshold(hits) THEN hints.describing + 1 ELSE hints.describing
  <2>1. hints.todo > 0 /\ hints.describing < 2
        /\ hints' = [hints EXCEPT !.todo = hints.todo - 1, !.hits = hits, !.describing = d]
    BY <1>2 DEF TrackHit
  <2>2. hits \in Count /\ hints.todo - 1 \in Count /\ d \in Count
    BY <1>1, <2>1 DEF Inc, Count
  <2> HIDE DEF hits, d
  <2> QED BY <1>1, <2>1, <2>2 DEF Hints
<1>3. CASE SaveHint
  <2>1. /\ hints.describing > 0
        /\ \/ hints' = [hints EXCEPT !.describing = hints.describing - 1, !.hint = TRUE]
           \/ hints' = [hints EXCEPT !.describing = hints.describing - 1]
    BY <1>3 DEF SaveHint
  <2>2. hints.describing - 1 \in Count
    BY <1>1, <2>1 DEF Count
  <2> QED BY <1>1, <2>1, <2>2 DEF Hints
<1>4. CASE UNCHANGED hints
  BY <1>1, <1>4
<1> QED BY <1>2, <1>3, <1>4 DEF Drop, Reap, Restart, Server, vars

LEMMA InitTypes == Init => TypeInv
<1> SUFFICES ASSUME Init PROVE TypeInv
  OBVIOUS
<1>1. /\ files = {} /\ drops = {} /\ book = {} /\ page = NewPage /\ DOMAIN calls = {}
      /\ DOMAIN samples = {} /\ saved \in Mapping \cup {None}
      /\ samples = [t \in {} |-> None] /\ calls = [c \in {} |-> None]
  BY DEF Init
<1>2. hints \in Hints
  BY DEF Init, Hints, Count
<1>3. /\ past = [given |-> [t \in {} |-> None], lost |-> {}, unheard |-> {}, described |-> 0,
                 sent |-> 0, faults |-> 0]
      /\ DOMAIN past.given = {}
  BY DEF Init
<1>4. 0 \in Count /\ 0 \in 0..MaxRequests /\ 0 \in 0..MaxFaults
  BY UploadsAssumption DEF Count
<1>5. past \in History([DOMAIN past.given -> File])
  <2>1. past.given \in [DOMAIN past.given -> File]
    BY <1>3
  <2> QED BY <1>3, <1>4, <2>1 DEF History
<1>6. samples \in [DOMAIN samples -> 1..2] /\ calls \in [DOMAIN calls -> Request]
  BY <1>1
<1> QED BY <1>1, <1>2, <1>3, <1>5, <1>6, NewPageOK DEF TypeInv, TypeOK, Hints, History

(* A step of the system is one of these, and keeps the types. *)
LEMMA TypeKept == ASSUME TypeInv, [Next]_vars PROVE TypeInv'
<1>1. CASE User
  BY <1>1, SubmitPreviewOK, SetMappingOK, EnhanceWithLlmOK, SubmitSampleOK, ConfirmOK, CancelOK,
     QuietOK, QuietHints, LeaveOK, SendsTypes, LeavesTypes, QuietTypes DEF User
<1>2. CASE \E c \in Call : Handler(c) \/ Receive(c) \/ Lose(c)
  BY <1>2, HandlerDoes, HandlerSides, HandlerTypes, ReceiveOK, ReceivesTypes
<1>3. CASE (\E t \in Token : Drop(t)) \/ TrackHit \/ SaveHint \/ Reap \/ UNCHANGED vars
  BY <1>3, QuietOK, QuietHints, QuietTypes
<1>4. CASE Crash
  BY <1>4, CrashOK, CrashesTypes
<1> QED BY <1>1, <1>2, <1>3, <1>4 DEF Next

LEMMA TypesHold == Spec => []TypeInv
<1>1. Init => TypeInv
  BY InitTypes
<1>2. TypeInv /\ [Next]_vars => TypeInv'
  BY TypeKept
<1> QED BY <1>1, <1>2, PTL DEF Spec

(* Files, rows, page, requests and history have their shape, however many  *)
(* requests are in flight.                                                 *)
THEOREM TypeCorrect == Spec => []TypeOK
<1>1. TypeInv => TypeOK
  BY DEF TypeInv
<1> QED BY <1>1, TypesHold, PTL

-----------------------------------------------------------------------------
(* One sample of an upload, one description of a bank.                      *)

Once ==
  /\ past.described <= 1 /\ (hints.hits = 0 => past.described = 0)
  /\ \A t \in DOMAIN samples : samples[t] = 1

LEMMA TrackHitOnce == ASSUME TypeInv, Once, TrackHit PROVE Once'
<1> DEFINE hits == Inc(hints.hits)
<1>1. /\ hints'.hits = hits /\ samples' = samples
      /\ past'.described = IF Threshold(hits) THEN Inc(past.described) ELSE past.described
  <2> DEFINE d == IF Threshold(hits) THEN Inc(past.described) ELSE past.described
             e == IF Threshold(hits) THEN hints.describing + 1 ELSE hints.describing
  <2>1. /\ hints' = [hints EXCEPT !.todo = hints.todo - 1, !.hits = hits, !.describing = e]
        /\ past' = [past EXCEPT !.described = d] /\ samples' = samples
    BY DEF TrackHit
  <2> HIDE DEF d, e, hits
  <2>2. hints'.hits = hits /\ past'.described = d
    BY <2>1, SidesTyped, PastParts DEF Hints, History
  <2> QED BY <2>1, <2>2 DEF d
<1>2. hints.hits \in Count /\ past.described \in Count
  BY SidesTyped, PastParts DEF Hints
<1>3. hits # 0
  BY <1>2 DEF Inc, Count
<1>4. Threshold(hits) => hints.hits = 0
  BY <1>2 DEF Threshold, Inc, Count
<1> HIDE DEF hits
<1>5. past'.described <= 1
  BY <1>1, <1>2, <1>4 DEF Once, Inc, Count
<1> QED BY <1>1, <1>3, <1>5 DEF Once

LEMMA SidesOnce ==
  ASSUME TypeInv, Once, SidesOK, past'.described = past.described
  PROVE  Once'
BY DEF Once, SidesOK

LEMMA UnchangedSides ==
  ASSUME TypeInv, UNCHANGED <<saved, hints, samples>>
  PROVE  SidesOK
BY SidesTyped, SameSides

LEMMA OnceKept == ASSUME TypeInv, Once, [Next]_vars PROVE Once'
<1>1. CASE \E q : Sends(q)
  BY <1>1, UnchangedSides, SidesOnce DEF Sends, Server
<1>2. CASE \E c \in Call : Handler(c) \/ Lose(c)
  <2>1. PICK c \in Call : Handler(c) \/ Lose(c)
    BY <1>2
  <2>2. SidesOK /\ HandlerOK(c)
    BY <2>1, HandlerSides, HandlerDoes
  <2>3. past'.described = past.described
    BY <2>2, StoresHistory DEF HandlerOK, Keeps
  <2> QED BY <2>2, <2>3, SidesOnce
<1>3. CASE \E c, n : Receives(c, n)
  BY <1>3, UnchangedSides, SidesOnce DEF Receives, Server
<1>4. CASE Leave
  BY <1>4, LeaveOK, UnchangedSides, SidesOnce DEF Leaves, Server
<1>5. CASE Crash
  BY <1>5, CrashOK, CrashesTypes, SidesOnce DEF Crashes
<1>6. CASE TrackHit
  BY <1>6, TrackHitOnce
<1>7. CASE SaveHint
  <2>1. /\ UNCHANGED <<saved, samples>>
        /\ \/ hints' = [hints EXCEPT !.describing = hints.describing - 1, !.hint = TRUE]
           \/ hints' = [hints EXCEPT !.describing = hints.describing - 1]
        /\ past' = past \/ Faulty(past)
    BY <1>7 DEF SaveHint
  <2>2. hints' \in Hints /\ hints'.hits = hints.hits
    BY <1>7, <2>1, QuietHints, SidesTyped DEF Hints
  <2>3. past'.described = past.described
    BY <2>1, FaultyPast
  <2> QED BY <2>1, <2>2, <2>3, SameSides, SidesOnce
<1>8. CASE (\E t \in Token : Drop(t)) \/ Reap \/ Restart \/ UNCHANGED vars
  BY <1>8, UnchangedSides, SidesOnce DEF Drop, Reap, Restart, Server, vars
<1> QED
  BY <1>1, <1>2, <1>3, <1>4, <1>5, <1>6, <1>7, <1>8, ReceiveOK, SubmitPreviewOK, SetMappingOK,
     EnhanceWithLlmOK, SubmitSampleOK, ConfirmOK, CancelOK DEF Next, User

(* However many statements of a bank are parsed by the model at once, and  *)
(* however often a sample is submitted again, the description is paid for  *)
(* once and the upload leaves one row.                                     *)
THEOREM NothingIsPaidTwice == Spec => []DoneOnce
<1>1. Init => TypeInv /\ Once
  <2>1. Init => Once
    BY DEF Init, Once
  <2> QED BY <2>1, InitTypes
<1>2. TypeInv /\ Once /\ [Next]_vars => TypeInv' /\ Once'
  BY TypeKept, OnceKept
<1>3. Once => DoneOnce
  BY DEF Once, DoneOnce
<1> QED BY <1>1, <1>2, <1>3, PTL DEF Spec

-----------------------------------------------------------------------------
(* Who waits for what. One preview or commit of the open page is under way, *)
(* what an earlier page asked for concerns other uploads than what this one *)
(* shows or asks for, one commit of an upload runs, and nobody but its own  *)
(* preview knows an upload before that preview is answered.                 *)

Busy(c) == calls[c].live /\ calls[c].op \in {"preview", "commit"}
Commits(c, t, pcs) == calls[c].op = "commit" /\ calls[c].token = t /\ calls[c].pc \in pcs

OneBusy ==
  /\ \A c \in DOMAIN calls : Busy(c) => page.loading
  /\ \A c, d \in DOMAIN calls : Busy(c) /\ Busy(d) => c = d

Apart ==
  \A c, d \in DOMAIN calls : ~calls[c].live /\ calls[c].token # None =>
    calls[c].token # page.token /\ (calls[d].live => calls[d].token # calls[c].token)

OneCommit ==
  \A t \in Token : \A c, d \in DOMAIN calls :
    Commits(c, t, {"sent", "read", "stored"}) /\ Commits(d, t, {"sent", "read", "stored"}) => c = d

Private ==
  \A c \in DOMAIN calls : calls[c].op = "preview" /\ calls[c].token # None =>
    /\ calls[c].token # page.token
    /\ \A d \in DOMAIN calls : calls[d].token = calls[c].token => d = c

Flow == OneBusy /\ Apart /\ OneCommit /\ Private

(* Requests end, lose their token or go on. *)
Shrinks ==
  /\ DOMAIN calls' \subseteq DOMAIN calls
  /\ \A d \in DOMAIN calls' :
       /\ calls'[d].op = calls[d].op /\ calls'[d].live = calls[d].live
       /\ calls'[d].token \in {calls[d].token, None}
       /\ calls'[d].op = "commit" /\ calls'[d].pc \in {"sent", "read", "stored"}
          => calls[d].pc \in {"sent", "read", "stored"}

LEMMA ShrinksFlow ==
  ASSUME TypeInv, TypeInv', Flow, Shrinks,
         \/ page'.token \in {page.token, None}
         \/ \E c \in DOMAIN calls \ DOMAIN calls' : calls[c].live /\ page'.token = calls[c].token,
         page.loading => page'.loading \/ \E c \in DOMAIN calls \ DOMAIN calls' : Busy(c)
  PROVE  Flow'
<1>1. ASSUME NEW d \in DOMAIN calls'
      PROVE  /\ d \in DOMAIN calls /\ calls'[d].op = calls[d].op /\ calls'[d].live = calls[d].live
             /\ calls'[d].token # None => calls'[d].token = calls[d].token
             /\ calls'[d].op = "commit" /\ calls'[d].pc \in {"sent", "read", "stored"}
                => calls[d].pc \in {"sent", "read", "stored"}
  BY DEF Shrinks
<1>2. \A d \in DOMAIN calls' : Busy(d)' => Busy(d)
  BY <1>1 DEF Busy
<1>3. OneBusy'
  <2>1. \A c, d \in DOMAIN calls' : Busy(c)' /\ Busy(d)' => c = d
    BY <1>1, <1>2 DEF Flow, OneBusy
  <2>2. ASSUME NEW d \in DOMAIN calls', Busy(d)' PROVE page'.loading
    <3>1. Busy(d) /\ d \in DOMAIN calls
      BY <1>1, <1>2, <2>2
    <3>2. page.loading
      BY <3>1 DEF Flow, OneBusy
    <3>3. ~\E c \in DOMAIN calls \ DOMAIN calls' : Busy(c)
      BY <2>2, <3>1 DEF Flow, OneBusy
    <3> QED BY <3>2, <3>3
  <2> QED BY <2>1, <2>2 DEF OneBusy
<1>4. Apart'
  <2>1. ASSUME NEW c \in DOMAIN calls', NEW d \in DOMAIN calls', ~calls'[c].live, calls'[c].token # None
        PROVE  calls'[c].token # page'.token /\ (calls'[d].live => calls'[d].token # calls'[c].token)
    <3>1. c \in DOMAIN calls /\ d \in DOMAIN calls /\ ~calls[c].live /\ calls[c].token # None
          /\ calls'[c].token = calls[c].token
      BY <1>1, <2>1
    <3>2. calls'[c].token # page'.token
      BY <2>1, <3>1 DEF Flow, Apart
    <3>3. calls'[d].live => calls'[d].token # calls'[c].token
      BY <1>1, <2>1, <3>1 DEF Flow, Apart
    <3> QED BY <3>2, <3>3
  <2> QED BY <2>1 DEF Apart
<1>5. OneCommit'
  <2>1. ASSUME NEW t \in Token, NEW c \in DOMAIN calls', NEW d \in DOMAIN calls',
               Commits(c, t, {"sent", "read", "stored"})', Commits(d, t, {"sent", "read", "stored"})'
        PROVE  c = d
    <3>1. c \in DOMAIN calls /\ Commits(c, t, {"sent", "read", "stored"})
      BY <1>1, <2>1, NoneIsNothing DEF Commits
    <3>2. d \in DOMAIN calls /\ Commits(d, t, {"sent", "read", "stored"})
      BY <1>1, <2>1, NoneIsNothing DEF Commits
    <3> QED BY <3>1, <3>2 DEF Flow, OneCommit
  <2> QED BY <2>1 DEF OneCommit
<1>6. Private'
  <2>1. ASSUME NEW c \in DOMAIN calls', calls'[c].op = "preview", calls'[c].token # None
        PROVE  /\ calls'[c].token # page'.token
               /\ \A d \in DOMAIN calls' : calls'[d].token = calls'[c].token => d = c
    <3>1. c \in DOMAIN calls /\ calls[c].op = "preview" /\ calls'[c].token = calls[c].token
          /\ calls[c].token # None
      BY <1>1, <2>1
    <3>2. calls'[c].token # page'.token
      BY <2>1, <3>1 DEF Flow, Private
    <3>3. ASSUME NEW d \in DOMAIN calls', calls'[d].token = calls'[c].token PROVE d = c
      <4>1. d \in DOMAIN calls /\ calls[d].token = calls[c].token
        BY <1>1, <2>1, <3>1, <3>3
      <4> QED BY <3>1, <4>1 DEF Flow, Private
    <3> QED BY <3>2, <3>3
  <2> QED BY <2>1 DEF Private
<1> QED BY <1>3, <1>4, <1>5, <1>6 DEF Flow

LEMMA HandlerFlow == ASSUME TypeInv, TypeInv', Flow, NEW c, HandlerOK(c) PROVE Flow'
<1>1. PICK r : Moves(c, r) /\ Books(c, r) /\ (Stores(c, r) \/ Keeps(c, r))
  BY DEF HandlerOK
<1>2. /\ c \in DOMAIN calls /\ DOMAIN calls' = DOMAIN calls /\ calls'[c] = r
      /\ \A d \in DOMAIN calls : d # c => calls'[d] = calls[d]
      /\ page' = page
  BY <1>1, MovesCalls
<1>3. r.op = calls[c].op /\ r.live = calls[c].live
  BY <1>1 DEF Moves
<1>4. CASE Keeps(c, r)
  <2>1. r.token \in {calls[c].token, None}
    BY <1>4 DEF Keeps
  <2>2. r.op = "commit" /\ r.pc \in {"sent", "read", "stored"} => calls[c].pc \in {"sent", "read", "stored"}
    BY <1>1 DEF Books
  <2>3. Shrinks
    BY <1>2, <1>3, <2>1, <2>2 DEF Shrinks
  <2> QED BY <1>2, <2>3, ShrinksFlow
<1>5. CASE Stores(c, r)
  <2>1. /\ r.op = "preview" /\ r.token \in Token \ DOMAIN past.given
    BY <1>3, <1>5 DEF Stores
  <2>2. /\ page.token \in DOMAIN past.given \cup {None}
        /\ \A d \in DOMAIN calls : calls[d].token \in DOMAIN past.given \cup {None}
    BY Unfolded DEF TypeInv, Fit
  <2>3. /\ page'.token # r.token /\ \A d \in DOMAIN calls : d # c => calls'[d].token # r.token
    BY <1>2, <2>1, <2>2, NoneIsNothing
  <2>4. \A d \in DOMAIN calls : Busy(d)' <=> Busy(d)
    BY <1>2, <1>3 DEF Busy
  <2>5. OneBusy'
    BY <1>2, <2>4 DEF Flow, OneBusy
  <2>6. Apart'
    <3>1. ASSUME NEW a \in DOMAIN calls, NEW b \in DOMAIN calls, ~calls'[a].live, calls'[a].token # None
          PROVE  calls'[a].token # page'.token /\ (calls'[b].live => calls'[b].token # calls'[a].token)
      <4>1. CASE a = c
        BY <1>2, <1>3, <2>3, <3>1, <4>1
      <4>2. CASE a # c
        BY <1>2, <1>3, <2>3, <3>1, <4>2 DEF Flow, Apart
      <4> QED BY <4>1, <4>2
    <3> QED BY <1>2, <3>1 DEF Apart
  <2>7. OneCommit'
    <3>1. \A t : \A d \in DOMAIN calls : Commits(d, t, {"sent", "read", "stored"})'
                                         => Commits(d, t, {"sent", "read", "stored"})
      BY <1>2, <2>1 DEF Commits
    <3> QED BY <1>2, <3>1 DEF Flow, OneCommit
  <2>8. Private'
    <3>1. ASSUME NEW a \in DOMAIN calls, calls'[a].op = "preview", calls'[a].token # None
          PROVE  /\ calls'[a].token # page'.token
                 /\ \A d \in DOMAIN calls : calls'[d].token = calls'[a].token => d = a
      <4>1. CASE a = c
        BY <1>2, <2>3, <4>1
      <4>2. CASE a # c
        BY <1>2, <2>3, <3>1, <4>2 DEF Flow, Private
      <4> QED BY <4>1, <4>2
    <3> QED BY <1>2, <3>1 DEF Private
  <2> QED BY <2>5, <2>6, <2>7, <2>8 DEF Flow
<1> QED BY <1>1, <1>4, <1>5

LEMMA SendsFlow == ASSUME TypeInv, TypeInv', Flow, NEW q, Sends(q) PROVE Flow'
<1>1. PICK c \in Call \ DOMAIN calls :
        /\ DOMAIN calls' = DOMAIN calls \cup {c} /\ calls'[c] = q
        /\ \A d \in DOMAIN calls : calls'[d] = calls[d]
  BY SendsCalls
<1>2. /\ q.live /\ q.pc = "sent" /\ page'.token = page.token
      /\ q.op = "preview" => q.token = None
      /\ q.token \in {page.token, None}
      /\ q.op = "commit" => q.token = page.token
      /\ q.op \in {"preview", "commit"} => ~page.loading /\ page'.loading
      /\ q.op \notin {"preview", "commit"} => page'.loading = page.loading
  BY DEF Sends
<1>3. \A d \in DOMAIN calls : (Busy(d)' <=> Busy(d)) /\ (Busy(d) => page.loading)
  BY <1>1 DEF Busy, Flow, OneBusy
<1>4. Busy(c)' <=> q.op \in {"preview", "commit"}
  BY <1>1, <1>2 DEF Busy
<1>5. OneBusy'
  <2>1. CASE q.op \in {"preview", "commit"}
    BY <1>1, <1>2, <1>3, <1>4, <2>1 DEF OneBusy
  <2>2. CASE q.op \notin {"preview", "commit"}
    BY <1>1, <1>2, <1>3, <1>4, <2>2 DEF Flow, OneBusy
  <2> QED BY <2>1, <2>2
<1>6. Apart'
  <2>1. ASSUME NEW a \in DOMAIN calls', NEW b \in DOMAIN calls', ~calls'[a].live, calls'[a].token # None
        PROVE  calls'[a].token # page'.token /\ (calls'[b].live => calls'[b].token # calls'[a].token)
    <3>1. a \in DOMAIN calls /\ calls'[a] = calls[a]
      BY <1>1, <1>2, <2>1
    <3>2. calls[a].token # page.token
      BY <2>1, <3>1 DEF Flow, Apart
    <3>3. CASE b = c
      BY <1>1, <1>2, <2>1, <3>1, <3>2, <3>3
    <3>4. CASE b # c
      BY <1>1, <1>2, <2>1, <3>1, <3>2, <3>4 DEF Flow, Apart
    <3> QED BY <3>3, <3>4
  <2> QED BY <2>1 DEF Apart
<1>7. OneCommit'
  <2> DEFINE pcs == {"sent", "read", "stored"}
  <2>1. \A t : \A d \in DOMAIN calls : Commits(d, t, pcs)' => Commits(d, t, pcs)
    BY <1>1 DEF Commits
  <2>2. ASSUME NEW t \in Token, NEW d \in DOMAIN calls, Commits(c, t, pcs)', Commits(d, t, pcs)'
        PROVE  FALSE
    <3>1. q.op = "commit" /\ q.token = t /\ page.token = t /\ ~page.loading
      BY <1>1, <1>2, <2>2 DEF Commits
    <3>2. calls[d].op = "commit" /\ calls[d].token = t
      BY <2>1, <2>2 DEF Commits
    <3>3. CASE calls[d].live
      BY <1>3, <3>1, <3>2, <3>3 DEF Busy
    <3>4. CASE ~calls[d].live
      BY <3>1, <3>2, <3>4, NoneIsNothing DEF Flow, Apart
    <3> QED BY <3>3, <3>4
  <2>3. ASSUME NEW t \in Token, NEW a \in DOMAIN calls', NEW b \in DOMAIN calls',
               Commits(a, t, pcs)', Commits(b, t, pcs)'
        PROVE  a = b
    <3>1. CASE a = c \/ b = c
      BY <1>1, <2>2, <2>3, <3>1
    <3>2. CASE a # c /\ b # c
      BY <1>1, <2>1, <2>3, <3>2 DEF Flow, OneCommit
    <3> QED BY <3>1, <3>2
  <2> QED BY <2>3 DEF OneCommit
<1>8. Private'
  <2>1. ASSUME NEW a \in DOMAIN calls', calls'[a].op = "preview", calls'[a].token # None
        PROVE  /\ calls'[a].token # page'.token
               /\ \A d \in DOMAIN calls' : calls'[d].token = calls'[a].token => d = a
    <3>1. a \in DOMAIN calls /\ calls'[a] = calls[a]
      BY <1>1, <1>2, <2>1
    <3>2. calls[a].token # page.token
      BY <2>1, <3>1 DEF Flow, Private
    <3> QED BY <1>1, <1>2, <2>1, <3>1, <3>2 DEF Flow, Private
  <2> QED BY <2>1 DEF Private
<1> QED BY <1>5, <1>6, <1>7, <1>8 DEF Flow

LEMMA ReceivesFlow == ASSUME TypeInv, TypeInv', Flow, NEW c, NEW n, Receives(c, n) PROVE Flow'
<1>1. /\ c \in DOMAIN calls /\ calls' = Without(calls, {c}) /\ page' = n
      /\ \/ calls[c].live /\ Turns(page, calls[c], calls[c].pc = "ok", n)
         \/ ~calls[c].live /\ n = page
  BY DEF Receives
<1>2. DOMAIN calls' = DOMAIN calls \ {c} /\ \A d \in DOMAIN calls' : calls'[d] = calls[d]
  BY <1>1 DEF Without
<1>3. Shrinks
  BY <1>2 DEF Shrinks
<1>4. \/ page'.token \in {page.token, None}
      \/ \E d \in DOMAIN calls \ DOMAIN calls' : calls[d].live /\ page'.token = calls[d].token
  BY <1>1, <1>2 DEF Turns
<1>5. page.loading => page'.loading \/ \E d \in DOMAIN calls \ DOMAIN calls' : Busy(d)
  BY <1>1, <1>2 DEF Turns, Busy
<1> QED BY <1>3, <1>4, <1>5, ShrinksFlow

LEMMA LeavesFlow == ASSUME TypeInv, TypeInv', Flow, Leaves PROVE Flow'
<1>1. /\ DOMAIN calls' = DOMAIN calls
      /\ \A d \in DOMAIN calls :
           /\ ~calls'[d].live /\ calls'[d].op = calls[d].op /\ calls'[d].pc = calls[d].pc
           /\ calls'[d].token = calls[d].token
  BY LeavesCalls
<1>2. page'.token = None
  BY NewPageOK DEF Leaves
<1>3. OneBusy'
  BY <1>1 DEF OneBusy, Busy
<1>4. Apart'
  BY <1>1, <1>2 DEF Apart
<1>5. OneCommit'
  BY <1>1 DEF Flow, OneCommit, Commits
<1>6. Private'
  BY <1>1, <1>2 DEF Flow, Private
<1> QED BY <1>3, <1>4, <1>5, <1>6 DEF Flow

LEMMA CrashesFlow == ASSUME TypeInv, TypeInv', Flow, Crashes PROVE Flow'
<1>1. Shrinks
  BY CrashesCalls DEF Shrinks
<1> QED BY <1>1, ShrinksFlow DEF Crashes

LEMMA QuietFlow == ASSUME TypeInv, TypeInv', Flow, Quiet PROVE Flow'
<1>1. Shrinks /\ page'.token = page.token /\ page'.loading = page.loading
  BY DEF Shrinks, Quiet
<1> QED BY <1>1, ShrinksFlow

LEMMA FlowKept == ASSUME TypeInv, TypeInv', Flow, [Next]_vars PROVE Flow'
BY StepIs, SendsFlow, HandlerFlow, ReceivesFlow, LeavesFlow, CrashesFlow, QuietFlow

-----------------------------------------------------------------------------
(* What is in the books is settled: its file is there only while the commit *)
(* that stored it is about to delete it, and no other commit has read it.   *)

Settled(t) ==
  /\ t \in files => \E c \in DOMAIN calls : Commits(c, t, {"stored"})
  /\ \A c \in DOMAIN calls : ~Commits(c, t, {"read"})

Stored ==
  \A i \in book :
    /\ i.token \in DOMAIN past.given
    /\ i.again => i.token \in past.unheard
    /\ i.token \in past.unheard \/ Settled(i.token)

LEMMA StoredSame ==
  ASSUME Stored, book' = book, DOMAIN past.given \subseteq DOMAIN past'.given,
         past.unheard \subseteq past'.unheard,
         \A t \in DOMAIN past.given : Settled(t) => Settled(t)' \/ t \in past'.unheard
  PROVE  Stored'
<1>1. ASSUME NEW i \in book
      PROVE  /\ i.token \in DOMAIN past'.given
             /\ i.again => i.token \in past'.unheard
             /\ i.token \in past'.unheard \/ Settled(i.token)'
  BY DEF Stored
<1> QED BY <1>1 DEF Stored

(* Files go, and no commit is where it was not. *)
LEMMA SettledSame ==
  ASSUME NEW t, Settled(t), t \in files' => t \in files,
         \A c \in DOMAIN calls : Commits(c, t, {"stored"}) => c \in DOMAIN calls' /\ Commits(c, t, {"stored"})',
         \A c \in DOMAIN calls' : Commits(c, t, {"read"})' => c \in DOMAIN calls /\ Commits(c, t, {"read"})
  PROVE  Settled(t)'
BY DEF Settled

LEMMA BooksStored ==
  ASSUME TypeInv, Flow, Stored, NEW c, NEW r, Moves(c, r), Books(c, r), Keeps(c, r)
  PROVE  Stored'
<1>0. PICK t : t = calls[c].token
  OBVIOUS
<1>1. /\ c \in DOMAIN calls /\ DOMAIN calls' = DOMAIN calls /\ calls'[c] = r
      /\ \A d \in DOMAIN calls : d # c => calls'[d] = calls[d]
  BY MovesCalls
<1>2. r.op = calls[c].op /\ r.token \in {t, None} /\ (r.pc \in {"ok", "read", "stored"} => r.token = t)
      /\ files' \subseteq files
      /\ DOMAIN past.given = DOMAIN past'.given /\ past.unheard \subseteq past'.unheard
  BY <1>0 DEF Moves, Keeps
<1>3. \A d \in DOMAIN calls : d # c => \A u, pcs : Commits(d, u, pcs)' <=> Commits(d, u, pcs)
  BY <1>1 DEF Commits
<1>4. \A u \in DOMAIN past.given : u \in Token /\ u # None
  BY Unfolded, NoneIsNothing
<1>5. \A u \in DOMAIN past.given : u # t /\ Settled(u) => Settled(u)'
  <2>1. ASSUME NEW u \in DOMAIN past.given, u # t PROVE \A pcs : ~Commits(c, u, pcs) /\ ~Commits(c, u, pcs)'
    BY <1>0, <1>1, <1>2, <1>4, <2>1 DEF Commits
  <2> QED BY <1>1, <1>2, <1>3, <2>1, SettledSame
<1>6. CASE book' = book
  <2>1. ASSUME t \in DOMAIN past.given, Settled(t), t \notin past'.unheard PROVE Settled(t)'
    <3>1. CASE r.op # "commit"
      <4>1. \A pcs : ~Commits(c, t, pcs) /\ ~Commits(c, t, pcs)'
        BY <1>0, <1>1, <1>2, <3>1 DEF Commits
      <4> QED BY <1>1, <1>2, <1>3, <2>1, <4>1, SettledSame
    <3>2. CASE r.op = "commit" /\ calls[c].pc = "sent" /\ r.pc = "read" /\ t \in files
      <4>1. PICK d \in DOMAIN calls : Commits(d, t, {"stored"})
        BY <2>1, <3>2 DEF Settled
      <4>2. Commits(c, t, {"sent", "read", "stored"}) /\ Commits(d, t, {"sent", "read", "stored"})
        BY <1>0, <1>2, <3>2, <4>1 DEF Commits
      <4>3. c = d
        BY <1>1, <1>4, <2>1, <4>2 DEF Flow, OneCommit
      <4> QED BY <3>2, <4>1, <4>3 DEF Commits
    <3>3. CASE r.op = "commit" /\ calls[c].pc = "stored" /\ r.pc = "stored"
      <4>1. Commits(c, t, {"stored"})' /\ ~Commits(c, t, {"read"})'
        BY <1>1, <1>2, <3>3 DEF Commits
      <4> QED BY <1>1, <1>2, <1>3, <2>1, <4>1, SettledSame
    <3>4. CASE r.op = "commit" /\ r.pc \in {"ok", "failed"} /\ calls[c].pc = "ok"
      <4>1. ~Commits(c, t, {"stored"}) /\ ~Commits(c, t, {"read"})'
        BY <1>1, <3>4 DEF Commits
      <4> QED BY <1>1, <1>2, <1>3, <2>1, <4>1, SettledSame
    <3>5. CASE r.op = "commit" /\ r.pc \in {"ok", "failed"} /\ t \notin files'
      <4>1. ~Commits(c, t, {"read"})'
        BY <1>1, <3>5 DEF Commits
      <4>2. \A d \in DOMAIN calls' : ~Commits(d, t, {"read"})'
        BY <1>1, <1>3, <2>1, <4>1 DEF Settled
      <4> QED BY <3>5, <4>2 DEF Settled
    <3>6. CASE calls[c].pc = "read" /\ r.pc = "stored" /\ r.op = "commit"
      BY <1>0, <1>1, <1>2, <2>1, <3>6 DEF Settled, Commits
    <3> QED BY <3>1, <3>2, <3>3, <3>4, <3>5, <3>6, <1>0 DEF Books
  <2>2. \A u \in DOMAIN past.given : Settled(u) => Settled(u)' \/ u \in past'.unheard
    BY <1>5, <2>1
  <2> QED BY <1>2, <1>6, <2>2, StoredSame
<1>7. CASE /\ r.op = "commit" /\ calls[c].pc = "read" /\ r.pc = "stored"
           /\ book' = book \cup {[token |-> t, chosen |-> calls[c].chosen,
                                  again |-> \E i \in book : i.token = t]}
  <2>1. Commits(c, t, {"read"}) /\ Commits(c, t, {"sent", "read", "stored"})
    BY <1>0, <1>2, <1>7 DEF Commits
  <2>2. t \in DOMAIN past.given
    BY <1>0, <1>1, <1>2, <1>7, Unfolded DEF Fit
  <2>3. ~Settled(t)
    BY <1>1, <2>1 DEF Settled
  <2>4. \A i \in book : i.token = t => t \in past.unheard
    BY <2>3 DEF Stored
  <2>5. Settled(t)'
    <3>1. Commits(c, t, {"stored"})' /\ ~Commits(c, t, {"read"})'
      BY <1>1, <1>2, <1>7 DEF Commits
    <3>2. ASSUME NEW d \in DOMAIN calls', Commits(d, t, {"read"})' PROVE FALSE
      <4>1. d # c /\ d \in DOMAIN calls /\ Commits(d, t, {"read"})
        BY <1>1, <1>3, <3>1, <3>2
      <4>2. Commits(d, t, {"sent", "read", "stored"})
        BY <4>1 DEF Commits
      <4> QED BY <1>1, <1>4, <2>1, <2>2, <4>1, <4>2 DEF Flow, OneCommit
    <3> QED BY <1>1, <3>1, <3>2 DEF Settled
  <2>6. ASSUME NEW i \in book'
        PROVE  /\ i.token \in DOMAIN past'.given
               /\ i.again => i.token \in past'.unheard
               /\ i.token \in past'.unheard \/ Settled(i.token)'
    <3>1. CASE i \in book
      <4>1. /\ i.token \in DOMAIN past.given /\ (i.again => i.token \in past.unheard)
            /\ i.token \in past.unheard \/ Settled(i.token)
        BY <3>1 DEF Stored
      <4> QED BY <1>2, <1>5, <2>5, <4>1
    <3>2. CASE i = [token |-> t, chosen |-> calls[c].chosen, again |-> \E j \in book : j.token = t]
      <4>1. i.token = t /\ (i.again => t \in past.unheard)
        BY <2>4, <3>2
      <4> QED BY <1>2, <2>2, <2>5, <4>1
    <3> QED BY <1>7, <2>6, <3>1, <3>2
  <2> QED BY <2>6 DEF Stored
<1> QED BY <1>0, <1>6, <1>7 DEF Books

LEMMA StoresStored ==
  ASSUME TypeInv, Stored, NEW c, NEW r, Moves(c, r), Stores(c, r)
  PROVE  Stored'
<1>1. /\ c \in DOMAIN calls /\ DOMAIN calls' = DOMAIN calls /\ calls'[c] = r
      /\ \A d \in DOMAIN calls : d # c => calls'[d] = calls[d]
  BY MovesCalls
<1>2. /\ calls[c].op = "preview" /\ r.op = "preview" /\ files' = files \cup {r.token}
      /\ r.token \notin DOMAIN past.given /\ book' = book
  BY DEF Stores, Moves
<1>3. \A d \in DOMAIN calls : \A u, pcs : Commits(d, u, pcs)' <=> Commits(d, u, pcs)
  BY <1>1, <1>2 DEF Commits
<1>4. \A u \in DOMAIN past.given : Settled(u) => Settled(u)'
  BY <1>1, <1>2, <1>3, SettledSame
<1> QED BY <1>1, <1>2, <1>4, StoresHistory, StoredSame

LEMMA StoredKept == ASSUME TypeInv, Flow, Stored, [Next]_vars PROVE Stored'
<1>1. ASSUME NEW q, Sends(q) PROVE Stored'
  <2>1. PICK c \in Call \ DOMAIN calls :
          /\ DOMAIN calls' = DOMAIN calls \cup {c} /\ calls'[c] = q
          /\ \A d \in DOMAIN calls : calls'[d] = calls[d]
    BY <1>1, SendsCalls
  <2>2. q.pc = "sent" /\ files' = files /\ book' = book /\ past'.given = past.given
        /\ past'.unheard = past.unheard
    BY <1>1 DEF Sends, Server, SameHistory
  <2>3. \A u : ~Commits(c, u, {"read"})'
    BY <2>1, <2>2 DEF Commits
  <2>4. \A d \in DOMAIN calls : \A u, pcs : Commits(d, u, pcs)' <=> Commits(d, u, pcs)
    BY <2>1 DEF Commits
  <2>5. \A u \in DOMAIN past.given : Settled(u) => Settled(u)'
    BY <2>1, <2>2, <2>3, <2>4, SettledSame
  <2> QED BY <2>2, <2>5, StoredSame
<1>2. ASSUME NEW c, HandlerOK(c) PROVE Stored'
  BY <1>2, BooksStored, StoresStored DEF HandlerOK
<1>3. ASSUME NEW c, NEW n, Receives(c, n) PROVE Stored'
  <2>1. /\ calls[c].pc \in {"ok", "failed"} /\ calls' = Without(calls, {c}) /\ files' = files
        /\ book' = book /\ past'.given = past.given /\ past'.unheard = past.unheard
    BY <1>3 DEF Receives, Server
  <2>2. DOMAIN calls' = DOMAIN calls \ {c} /\ \A d \in DOMAIN calls' : calls'[d] = calls[d]
    BY <2>1 DEF Without
  <2>3. \A u : ~Commits(c, u, {"stored"})
    BY <2>1 DEF Commits
  <2>4. \A d \in DOMAIN calls' : \A u, pcs : Commits(d, u, pcs)' <=> Commits(d, u, pcs)
    BY <2>2 DEF Commits
  <2>5. \A u \in DOMAIN past.given : Settled(u) => Settled(u)'
    BY <2>1, <2>2, <2>3, <2>4, SettledSame
  <2> QED BY <2>1, <2>5, StoredSame
<1>4. ASSUME Leaves PROVE Stored'
  <2>1. files' = files /\ book' = book /\ past'.given = past.given /\ past'.unheard = past.unheard
    BY <1>4 DEF Leaves, Server, SameHistory
  <2>2. /\ DOMAIN calls' = DOMAIN calls
        /\ \A d \in DOMAIN calls : \A u, pcs : Commits(d, u, pcs)' <=> Commits(d, u, pcs)
    BY <1>4, LeavesCalls DEF Commits
  <2>3. \A u \in DOMAIN past.given : Settled(u) => Settled(u)'
    BY <2>1, <2>2, SettledSame
  <2> QED BY <2>1, <2>3, StoredSame
<1>5. ASSUME Crashes PROVE Stored'
  <2>1. files' = files /\ book' = book /\ past'.given = past.given
        /\ past'.unheard = past.unheard \cup Tokens("commit", {"read", "stored"})
    BY <1>5 DEF Crashes
  <2>2. ASSUME NEW u \in DOMAIN past.given, Settled(u), u \notin past'.unheard PROVE Settled(u)'
    <3>1. u \notin files
      <4>1. ASSUME NEW c \in DOMAIN calls, Commits(c, u, {"stored"}) PROVE FALSE
        BY <2>1, <2>2, <4>1 DEF Tokens, Commits
      <4> QED BY <2>2, <4>1 DEF Settled
    <3>2. \A d \in DOMAIN calls' : ~Commits(d, u, {"read"})'
      BY <1>5, CrashesCalls DEF Commits
    <3> QED BY <2>1, <3>1, <3>2 DEF Settled
  <2> QED BY <2>1, <2>2, StoredSame
<1>6. ASSUME Quiet PROVE Stored'
  <2>1. files' \subseteq files /\ book' = book /\ calls' = calls /\ past'.given = past.given
        /\ past'.unheard = past.unheard
    BY <1>6 DEF Quiet, SameHistory
  <2>2. \A u \in DOMAIN past.given : Settled(u) => Settled(u)'
    BY <2>1, SettledSame DEF Commits
  <2> QED BY <2>1, <2>2, StoredSame
<1> QED BY <1>1, <1>2, <1>3, <1>4, <1>5, <1>6, StepIs

LEMMA InitFlow == Init => Flow /\ Stored
BY DEF Init, Flow, OneBusy, Apart, OneCommit, Private, Stored

(* An upload enters the books a second time only if the first commit was   *)
(* not answered, for any number of requests in flight, pages left, lost    *)
(* answers and crashes between two statements of a commit.                 *)
THEOREM NoSecondImport == Spec => []ImportedOnce
<1>1. Init => TypeInv /\ Flow /\ Stored
  BY InitTypes, InitFlow
<1>2. TypeInv /\ Flow /\ Stored /\ [Next]_vars => TypeInv' /\ Flow' /\ Stored'
  BY TypeKept, FlowKept, StoredKept
<1>3. Stored => ImportedOnce
  BY DEF Stored, ImportedOnce
<1> QED BY <1>1, <1>2, <1>3, PTL DEF Spec

-----------------------------------------------------------------------------
(* Which file a confirmation is for. An upload is held if its file is there *)
(* and nothing else took it off the page, and fresh if the open page shows  *)
(* it or asks for it. While a preview is shown no other upload is fresh,    *)
(* and without one only an upload whose preview is not answered yet.        *)

Held == files \ past.lost
Fresh(t) == t \in Held /\ (page.token = t \/ \E c \in DOMAIN calls : calls[c].live /\ calls[c].token = t)
Waiting(t) == \E c \in DOMAIN calls : calls[c].live /\ calls[c].op = "preview" /\ calls[c].token = t

Shown ==
  \A t \in Token : Fresh(t) =>
    /\ page.stage = "preview" => t = page.token /\ past.given[t] = page.file
    /\ page.stage # "preview" => Waiting(t)

Asked ==
  \A c \in DOMAIN calls : calls[c].live /\ calls[c].op = "preview" =>
    /\ page.stage = "upload" /\ (calls[c].pc = "sent" => calls[c].file = page.file)
    /\ calls[c].token # None => past.given[calls[c].token] = page.file

Confirmed ==
  \A c \in DOMAIN calls : calls[c].op = "commit" /\ calls[c].pc \in {"sent", "read"} =>
    \/ calls[c].chosen \/ calls[c].token \in past.lost
    \/ calls[c].pc = "sent" /\ calls[c].token \notin files

Gone ==
  \A c \in DOMAIN calls : calls[c].op \in {"commit", "cancel"} /\ calls[c].pc \in {"ok", "failed"} =>
    calls[c].token \notin files

Chosen == Shown /\ Asked /\ Confirmed /\ Gone /\ ImportsTheChosenFile

LEMMA StillWaiting ==
  ASSUME TypeInv, Flow, Shrinks, DOMAIN calls' = DOMAIN calls, page'.token = page.token,
         NEW u \in Token, Waiting(u), Fresh(u)'
  PROVE  Waiting(u)'
<1>1. PICK d \in DOMAIN calls : calls[d].live /\ calls[d].op = "preview" /\ calls[d].token = u
  BY DEF Waiting
<1>2. /\ calls'[d].live /\ calls'[d].op = "preview" /\ calls'[d].token \in {u, None}
  BY <1>1 DEF Shrinks
<1>3. CASE calls'[d].token = u
  BY <1>1, <1>2, <1>3 DEF Waiting
<1>4. CASE calls'[d].token = None
  <2>1. page.token # u /\ \A e \in DOMAIN calls : calls[e].token = u => e = d
    BY <1>1, NoneIsNothing DEF Flow, Private
  <2>2. PICK e \in DOMAIN calls : calls'[e].token = u
    BY <2>1 DEF Fresh
  <2>3. calls[e].token = u
    BY <2>2, NoneIsNothing DEF Shrinks
  <2> QED BY <1>4, <2>1, <2>2, <2>3, NoneIsNothing
<1> QED BY <1>2, <1>3, <1>4

LEMMA FreshBefore ==
  ASSUME TypeInv, Shrinks, page'.token \in {page.token, None}, files' \subseteq files,
         past.lost \subseteq past'.lost, NEW u \in Token, Fresh(u)'
  PROVE  Fresh(u)
<1>1. u \in Held /\ u # None
  BY NoneIsNothing DEF Fresh, Held
<1>2. CASE page'.token = u
  BY <1>1, <1>2 DEF Fresh
<1>3. CASE \E c \in DOMAIN calls' : calls'[c].live /\ calls'[c].token = u
  <2>1. PICK c \in DOMAIN calls' : calls'[c].live /\ calls'[c].token = u
    BY <1>3
  <2>2. c \in DOMAIN calls /\ calls[c].live /\ calls[c].token = u
    BY <1>1, <2>1 DEF Shrinks
  <2> QED BY <1>1, <2>2 DEF Fresh
<1> QED BY <1>2, <1>3 DEF Fresh

(* Nothing new is fresh, and who waits goes on waiting. *)
LEMMA SameShown ==
  ASSUME TypeInv, Flow, Shown, Shrinks, page' = page, DOMAIN calls' = DOMAIN calls,
         files' \subseteq files, past'.lost = past.lost, past'.given = past.given
  PROVE  Shown'
<1>1. ASSUME NEW u \in Token, Fresh(u)'
      PROVE  /\ page'.stage = "preview" => u = page'.token /\ past'.given[u] = page'.file
             /\ page'.stage # "preview" => Waiting(u)'
  <2>1. Fresh(u)
    BY <1>1, FreshBefore
  <2>2. page.stage # "preview" => Waiting(u)
    BY <2>1 DEF Shown
  <2> QED BY <1>1, <2>1, <2>2, StillWaiting DEF Shown
<1> QED BY <1>1 DEF Shown

LEMMA KeepsShrinks ==
  ASSUME TypeInv, NEW c, NEW r, Moves(c, r), Books(c, r), Keeps(c, r)
  PROVE  Shrinks
<1>1. /\ c \in DOMAIN calls /\ DOMAIN calls' = DOMAIN calls /\ calls'[c] = r
      /\ \A d \in DOMAIN calls : d # c => calls'[d] = calls[d]
  BY MovesCalls
<1>2. r.op = calls[c].op /\ r.live = calls[c].live /\ r.token \in {calls[c].token, None}
  BY DEF Moves, Keeps
<1>3. r.op = "commit" /\ r.pc \in {"sent", "read", "stored"} => calls[c].pc \in {"sent", "read", "stored"}
  BY DEF Books
<1> QED BY <1>1, <1>2, <1>3 DEF Shrinks

LEMMA KeepsChosen ==
  ASSUME TypeInv, Flow, Chosen, NEW c, NEW r, Moves(c, r), Books(c, r), Keeps(c, r)
  PROVE  Chosen'
<1>1. /\ c \in DOMAIN calls /\ DOMAIN calls' = DOMAIN calls /\ calls'[c] = r
      /\ \A d \in DOMAIN calls : d # c => calls'[d] = calls[d]
      /\ page' = page
  BY MovesCalls
<1>2. /\ r.op = calls[c].op /\ r.live = calls[c].live /\ r.token \in {calls[c].token, None}
      /\ files' \subseteq files /\ files \subseteq Token
      /\ past'.given = past.given /\ past'.lost = past.lost
      /\ r.op = "preview" => r.pc \in {"ok", "failed"}
      /\ r.pc = "failed" => r.token = None
      /\ r.op \in {"cancel", "commit"} /\ r.pc = "ok" => r.token \notin files'
  BY Unfolded DEF Moves, Keeps
<1>3. Shown'
  BY <1>1, <1>2, KeepsShrinks, SameShown DEF Chosen
<1>4. Asked'
  BY <1>1, <1>2 DEF Chosen, Asked
<1>5. Confirmed'
  <2>1. ASSUME r.op = "commit", r.pc \in {"sent", "read"}
        PROVE  r.chosen \/ r.token \in past.lost
    <3>1. calls[c].pc = "sent" /\ calls[c].token \in files /\ r.chosen = calls[c].chosen
          /\ r.token = calls[c].token
      BY <2>1 DEF Books, Keeps
    <3> QED BY <1>1, <1>2, <2>1, <3>1 DEF Chosen, Confirmed
  <2>2. ASSUME NEW d \in DOMAIN calls', calls'[d].op = "commit", calls'[d].pc \in {"sent", "read"}
        PROVE  \/ calls'[d].chosen \/ calls'[d].token \in past'.lost
               \/ calls'[d].pc = "sent" /\ calls'[d].token \notin files'
    <3>1. CASE d = c
      BY <1>1, <1>2, <2>1, <2>2, <3>1
    <3>2. CASE d # c
      BY <1>1, <1>2, <2>2, <3>2 DEF Chosen, Confirmed
    <3> QED BY <3>1, <3>2
  <2> QED BY <2>2 DEF Confirmed
<1>6. Gone'
  BY <1>1, <1>2, NoneIsNothing DEF Chosen, Gone
<1>7. ImportsTheChosenFile'
  <2>1. \A i \in book : i.chosen \/ i.token \in past.lost
    BY DEF Chosen, ImportsTheChosenFile
  <2>2. CASE book' = book
    BY <1>2, <2>1, <2>2 DEF ImportsTheChosenFile
  <2>3. CASE book' # book
    <3> DEFINE again == \E i \in book : i.token = calls[c].token
    <3>1. /\ r.op = "commit" /\ calls[c].pc = "read"
          /\ book' = book \cup {[token |-> calls[c].token, chosen |-> calls[c].chosen, again |-> again]}
      BY <2>3 DEF Books
    <3>2. calls[c].chosen \/ calls[c].token \in past.lost
      BY <1>1, <1>2, <3>1 DEF Chosen, Confirmed
    <3> HIDE DEF again
    <3> QED BY <1>2, <2>1, <3>1, <3>2 DEF ImportsTheChosenFile
  <2> QED BY <2>2, <2>3
<1> QED BY <1>3, <1>4, <1>5, <1>6, <1>7 DEF Chosen

LEMMA StoresChosen ==
  ASSUME TypeInv, Flow, Chosen, NEW c, NEW r, Moves(c, r), Stores(c, r)
  PROVE  Chosen'
<1>1. /\ c \in DOMAIN calls /\ DOMAIN calls' = DOMAIN calls /\ calls'[c] = r
      /\ \A d \in DOMAIN calls : d # c => calls'[d] = calls[d]
      /\ page' = page
  BY MovesCalls
<1>2. /\ calls[c].op = "preview" /\ r.op = "preview" /\ r.live = calls[c].live /\ r.pc = "written"
      /\ calls[c].pc = "sent" /\ files' = files \cup {r.token} /\ book' = book
      /\ r.token \in Token \ DOMAIN past.given
  BY DEF Moves, Stores
<1>3. /\ DOMAIN past'.given = DOMAIN past.given \cup {r.token} /\ past'.given[r.token] = calls[c].file
      /\ \A t \in DOMAIN past.given : past'.given[t] = past.given[t]
      /\ past'.lost = past.lost
  BY <1>1, StoresHistory
<1>4. /\ page.token \in DOMAIN past.given \cup {None}
      /\ \A d \in DOMAIN calls : calls[d].token \in DOMAIN past.given \cup {None}
      /\ files \subseteq DOMAIN past.given
  BY Unfolded DEF TypeInv, Fit
<1>5. page.token # r.token /\ \A d \in DOMAIN calls : d # c => calls'[d].token # r.token
  BY <1>1, <1>2, <1>4, NoneIsNothing
<1>6. Shown'
  <2>1. ASSUME NEW u \in Token, Fresh(u)'
        PROVE  /\ page'.stage = "preview" => u = page'.token /\ past'.given[u] = page'.file
               /\ page'.stage # "preview" => Waiting(u)'
    <3>1. CASE u = r.token
      <4>1. r.live
        BY <1>1, <1>5, <2>1, <3>1 DEF Fresh
      <4>2. page.stage = "upload"
        BY <1>1, <1>2, <4>1 DEF Chosen, Asked
      <4>3. Waiting(u)'
        BY <1>1, <1>2, <3>1, <4>1 DEF Waiting
      <4> QED BY <1>1, <4>2, <4>3
    <3>2. CASE u # r.token
      <4>1. u \in Held /\ u \in DOMAIN past.given
        BY <1>2, <1>3, <1>4, <2>1, <3>2 DEF Fresh, Held
      <4>2. Fresh(u)
        BY <1>1, <2>1, <3>2, <4>1 DEF Fresh
      <4>3. CASE page.stage = "preview"
        BY <1>1, <1>3, <4>1, <4>2, <4>3 DEF Chosen, Shown
      <4>4. CASE page.stage # "preview"
        <5>1. PICK d \in DOMAIN calls : calls[d].live /\ calls[d].op = "preview" /\ calls[d].token = u
          BY <4>2, <4>4 DEF Chosen, Shown, Waiting
        <5>2. ASSUME d = c PROVE FALSE
          <6>1. page.token # u /\ \A e \in DOMAIN calls : calls[e].token = u => e = c
            BY <4>1, <5>1, <5>2, NoneIsNothing DEF Flow, Private
          <6>2. ~Fresh(u)'
            BY <1>1, <3>2, <6>1 DEF Fresh
          <6> QED BY <2>1, <6>2
        <5>3. Waiting(u)'
          BY <1>1, <5>1, <5>2 DEF Waiting
        <5> QED BY <1>1, <4>4, <5>3
      <4> QED BY <4>3, <4>4
    <3> QED BY <3>1, <3>2
  <2> QED BY <2>1 DEF Shown
<1>7. Asked'
  <2>1. ASSUME NEW d \in DOMAIN calls', calls'[d].live, calls'[d].op = "preview"
        PROVE  /\ page'.stage = "upload" /\ (calls'[d].pc = "sent" => calls'[d].file = page'.file)
               /\ calls'[d].token # None => past'.given[calls'[d].token] = page'.file
    <3>1. CASE d = c
      <4>1. page.stage = "upload" /\ calls[c].file = page.file
        BY <1>1, <1>2, <2>1, <3>1 DEF Chosen, Asked
      <4> QED BY <1>1, <1>2, <1>3, <3>1, <4>1
    <3>2. CASE d # c
      BY <1>1, <1>3, <1>4, <2>1, <3>2 DEF Chosen, Asked
    <3> QED BY <3>1, <3>2
  <2> QED BY <2>1 DEF Asked
<1>8. Confirmed'
  <2>1. ASSUME NEW d \in DOMAIN calls', calls'[d].op = "commit", calls'[d].pc \in {"sent", "read"}
        PROVE  \/ calls'[d].chosen \/ calls'[d].token \in past'.lost
               \/ calls'[d].pc = "sent" /\ calls'[d].token \notin files'
    <3>1. d # c /\ calls'[d] = calls[d] /\ d \in DOMAIN calls
      BY <1>1, <1>2, <2>1
    <3>2. calls[d].token # r.token
      BY <1>5, <3>1
    <3> QED BY <1>2, <1>3, <2>1, <3>1, <3>2 DEF Chosen, Confirmed
  <2> QED BY <2>1 DEF Confirmed
<1>9. Gone'
  <2>1. ASSUME NEW d \in DOMAIN calls', calls'[d].op \in {"commit", "cancel"}, calls'[d].pc \in {"ok", "failed"}
        PROVE  calls'[d].token \notin files'
    <3>1. d # c /\ calls'[d] = calls[d] /\ d \in DOMAIN calls
      BY <1>1, <1>2, <2>1
    <3>2. calls[d].token # r.token
      BY <1>5, <3>1
    <3> QED BY <1>2, <2>1, <3>1, <3>2 DEF Chosen, Gone
  <2> QED BY <2>1 DEF Gone
<1>10. ImportsTheChosenFile'
  BY <1>2, <1>3 DEF Chosen, ImportsTheChosenFile
<1> QED BY <1>6, <1>7, <1>8, <1>9, <1>10 DEF Chosen

LEMMA SendsChosen == ASSUME TypeInv, Flow, Chosen, NEW q, Sends(q) PROVE Chosen'
<1>1. PICK c \in Call \ DOMAIN calls :
        /\ DOMAIN calls' = DOMAIN calls \cup {c} /\ calls'[c] = q
        /\ \A d \in DOMAIN calls : calls'[d] = calls[d]
  BY SendsCalls
<1>2. /\ q.live /\ q.pc = "sent" /\ page'.token = page.token /\ page'.stage = page.stage
      /\ files' = files /\ book' = book /\ past'.given = past.given /\ past'.lost = past.lost
      /\ q.token \in {page.token, None} /\ files \subseteq Token
  BY Unfolded DEF Sends, Server, SameHistory
<1>3. \/ /\ q.op = "preview" /\ page.stage = "upload" /\ ~page.loading /\ q.token = None
         /\ q.file = page'.file
      \/ /\ q.op # "preview" /\ page.stage = "preview" /\ page'.file = page.file
         /\ q.token = page.token
         /\ q.op = "commit" => q.chosen = (past.given[page.token] = page.file)
  BY DEF Sends
<1>4. \A u \in Token : Fresh(u)' => Fresh(u)
  <2>1. ASSUME NEW u \in Token, Fresh(u)' PROVE Fresh(u)
    <3>1. u \in Held /\ u # None
      BY <1>2, <2>1, NoneIsNothing DEF Fresh, Held
    <3>2. CASE page'.token = u
      BY <1>2, <3>1, <3>2 DEF Fresh
    <3>3. CASE \E d \in DOMAIN calls' : calls'[d].live /\ calls'[d].token = u
      BY <1>1, <1>2, <3>1, <3>3 DEF Fresh
    <3> QED BY <2>1, <3>2, <3>3 DEF Fresh
  <2> QED BY <2>1
<1>5. Shown'
  <2>1. ASSUME NEW u \in Token, Fresh(u)'
        PROVE  /\ page'.stage = "preview" => u = page'.token /\ past'.given[u] = page'.file
               /\ page'.stage # "preview" => Waiting(u)'
    <3>1. Fresh(u)
      BY <1>4, <2>1
    <3>2. Waiting(u) => Waiting(u)'
      BY <1>1 DEF Waiting
    <3> QED BY <1>2, <1>3, <3>1, <3>2 DEF Chosen, Shown
  <2> QED BY <2>1 DEF Shown
<1>6. Asked'
  <2>1. ASSUME NEW d \in DOMAIN calls', calls'[d].live, calls'[d].op = "preview"
        PROVE  /\ page'.stage = "upload" /\ (calls'[d].pc = "sent" => calls'[d].file = page'.file)
               /\ calls'[d].token # None => past'.given[calls'[d].token] = page'.file
    <3>1. CASE d = c
      BY <1>1, <1>2, <1>3, <2>1, <3>1
    <3>2. CASE d # c
      <4>1. d \in DOMAIN calls /\ calls'[d] = calls[d] /\ Busy(d)
        BY <1>1, <2>1, <3>2 DEF Busy
      <4>2. page.loading /\ page.stage = "upload"
        BY <2>1, <4>1 DEF Flow, OneBusy, Chosen, Asked
      <4> QED BY <1>3, <4>2
    <3> QED BY <3>1, <3>2
  <2> QED BY <2>1 DEF Asked
<1>7. Confirmed'
  <2>1. ASSUME q.op = "commit" PROVE q.chosen \/ q.token \in past.lost \/ q.token \notin files
    <3>1. q.token \in files \ past.lost => Fresh(q.token)
      BY <1>3, <2>1 DEF Fresh, Held
    <3> QED BY <1>2, <1>3, <2>1, <3>1 DEF Chosen, Shown
  <2> QED BY <1>1, <1>2, <2>1 DEF Chosen, Confirmed
<1>8. Gone'
  BY <1>1, <1>2 DEF Chosen, Gone
<1>9. ImportsTheChosenFile'
  BY <1>2 DEF Chosen, ImportsTheChosenFile
<1> QED BY <1>5, <1>6, <1>7, <1>8, <1>9 DEF Chosen

(* Requests only end; the page shows something else or not. *)
LEMMA FewerChosen ==
  ASSUME Chosen, DOMAIN calls' \subseteq DOMAIN calls, \A d \in DOMAIN calls' : calls'[d] = calls[d],
         files' \subseteq files, past.lost \subseteq past'.lost, book' = book
  PROVE  Confirmed' /\ Gone' /\ ImportsTheChosenFile'
<1>1. Confirmed'
  BY DEF Chosen, Confirmed
<1>2. Gone'
  BY DEF Chosen, Gone
<1>3. ImportsTheChosenFile'
  BY DEF Chosen, ImportsTheChosenFile
<1> QED BY <1>1, <1>2, <1>3

LEMMA FewerAsked ==
  ASSUME Asked, DOMAIN calls' \subseteq DOMAIN calls, \A d \in DOMAIN calls' : calls'[d] = calls[d],
         page'.file = page.file, past'.given = past.given,
         \A d \in DOMAIN calls' : calls[d].live /\ calls[d].op = "preview" /\ page.stage = "upload"
                                  => page'.stage = "upload"
  PROVE  Asked'
BY DEF Asked

LEMMA ReceivesChosen == ASSUME TypeInv, Flow, Chosen, NEW c, NEW n, Receives(c, n) PROVE Chosen'
<1>1. /\ c \in DOMAIN calls /\ calls' = Without(calls, {c}) /\ page' = n
      /\ calls[c].pc \in {"ok", "failed"} /\ files' = files /\ book' = book
      /\ past'.given = past.given /\ past.lost \subseteq past'.lost
      /\ page.stage = "preview" /\ page.token \notin {n.token, calls[c].token, None}
         => page.token \in past'.lost
  BY DEF Receives, Server
<1>2. DOMAIN calls' = DOMAIN calls \ {c} /\ \A d \in DOMAIN calls' : calls'[d] = calls[d]
  BY <1>1 DEF Without
<1>3. Confirmed' /\ Gone' /\ ImportsTheChosenFile'
  BY <1>1, <1>2, FewerChosen
<1>4. Shrinks
  BY <1>2 DEF Shrinks
<1>5. ASSUME NEW u \in Token, Fresh(u)'
      PROVE  /\ u \in Held /\ u \in Held' /\ u # None
             /\ \/ page'.token = u
                \/ \E d \in DOMAIN calls \ {c} : calls[d].live /\ calls[d].token = u
  <2>1. u \in Held /\ u \in Held' /\ u # None
    BY <1>1, <1>5, NoneIsNothing DEF Fresh, Held
  <2>2. CASE page'.token = u
    BY <2>1, <2>2
  <2>3. CASE \E d \in DOMAIN calls' : calls'[d].live /\ calls'[d].token = u
    BY <1>2, <2>1, <2>3
  <2> QED BY <1>5, <2>2, <2>3 DEF Fresh
<1>6. \A u \in Token : Waiting(u) /\ ~(calls[c].live /\ calls[c].op = "preview" /\ calls[c].token = u)
                       => Waiting(u)'
  BY <1>2 DEF Waiting
<1>7. ASSUME n.token = page.token, n.stage = page.stage, n.file = page.file PROVE Shown' /\ Asked'
  <2>1. ASSUME NEW u \in Token, Fresh(u)'
        PROVE  /\ page'.stage = "preview" => u = page'.token /\ past'.given[u] = page'.file
               /\ page'.stage # "preview" => Waiting(u)'
    <3>1. Fresh(u)
      BY <1>1, <1>5, <1>7, <2>1 DEF Fresh
    <3>2. ASSUME calls[c].op = "preview", calls[c].token = u PROVE FALSE
      BY <1>1, <1>5, <1>7, <2>1, <3>2 DEF Flow, Private
    <3> QED BY <1>1, <1>6, <1>7, <3>1, <3>2 DEF Chosen, Shown
  <2>2. Shown'
    BY <2>1 DEF Shown
  <2>3. Asked'
    BY <1>1, <1>2, <1>7 DEF Chosen, Asked
  <2> QED BY <2>2, <2>3
<1>8. CASE ~calls[c].live
  BY <1>1, <1>3, <1>7, <1>8 DEF Receives, Chosen
<1>9. CASE calls[c].live
  <2>1. Turns(page, calls[c], calls[c].pc = "ok", n)
    BY <1>9 DEF Receives
  <2>2. n.file = page.file
    BY <2>1 DEF Turns
  (* The upload that was shown is none that is fresh afterwards. *)
  <2>3. ASSUME page.stage = "preview", NEW u \in Token, Fresh(u), u \in Held',
               n.token # u, calls[c].token = u => u \notin files
        PROVE  FALSE
    <3>1. u = page.token /\ u # None
      BY <2>3, NoneIsNothing DEF Chosen, Shown
    <3>2. calls[c].token # u
      BY <1>1, <2>3 DEF Held
    <3>3. u \in past'.lost
      BY <1>1, <2>3, <3>1, <3>2
    <3> QED BY <2>3, <3>3 DEF Held
  <2>4. CASE calls[c].op = "preview" /\ n.token = calls[c].token /\ n.stage = "preview"
    <3>1. page.stage = "upload" /\ (calls[c].token # None => past.given[calls[c].token] = page.file)
      BY <1>1, <1>9, <2>4 DEF Chosen, Asked
    <3>2. \A d \in DOMAIN calls : calls[d].live /\ calls[d].op = "preview" => d = c
      BY <1>1, <1>9, <2>4 DEF Flow, OneBusy, Busy
    <3>3. Asked'
      BY <1>2, <3>2 DEF Asked
    <3>4. ASSUME NEW u \in Token, Fresh(u)'
          PROVE  u = page'.token /\ past'.given[u] = page'.file
      <4>1. u \in Held /\ u # None
        BY <1>5, <3>4
      <4>2. u = calls[c].token
        <5>1. CASE page'.token = u
          BY <1>1, <2>4, <5>1
        <5>2. CASE \E d \in DOMAIN calls \ {c} : calls[d].live /\ calls[d].token = u
          <6>1. Fresh(u)
            BY <4>1, <5>2 DEF Fresh
          <6>2. Waiting(u)
            BY <3>1, <6>1 DEF Chosen, Shown
          <6> QED BY <3>2, <6>2 DEF Waiting
        <5> QED BY <1>5, <3>4, <5>1, <5>2
      <4> QED BY <1>1, <2>2, <2>4, <3>1, <4>1, <4>2
    <3>5. Shown'
      BY <1>1, <2>4, <3>4 DEF Shown
    <3> QED BY <1>3, <3>3, <3>5 DEF Chosen
  <2>5. CASE n.token = page.token /\ n.stage = page.stage
    BY <1>3, <1>7, <2>2, <2>5 DEF Chosen
  <2>6. CASE calls[c].op \in {"reparse", "enhance"} /\ n.token = calls[c].token /\ n.stage = page.stage
             /\ n.token # page.token
    <3>1. ASSUME NEW u \in Token, Fresh(u)' PROVE Fresh(u)
      <4>1. u \in Held
        BY <1>5, <3>1
      <4>2. page'.token = u => calls[c].live /\ calls[c].token = u
        BY <1>1, <1>9, <2>6
      <4>3. \E d \in DOMAIN calls : calls[d].live /\ calls[d].token = u
        BY <1>1, <1>5, <3>1, <4>2
      <4> QED BY <4>1, <4>3 DEF Fresh
    <3>2. ASSUME NEW u \in Token, Fresh(u)'
          PROVE  /\ page'.stage = "preview" => u = page'.token /\ past'.given[u] = page'.file
                 /\ page'.stage # "preview" => Waiting(u)'
      <4>1. Fresh(u) /\ u \in Held' /\ u # None
        BY <1>5, <3>1, <3>2
      <4>2. page.stage # "preview"
        <5>1. ASSUME page.stage = "preview" PROVE FALSE
          <6>1. u = page.token
            BY <4>1, <5>1 DEF Chosen, Shown
          <6> QED BY <2>3, <2>6, <4>1, <5>1, <6>1
        <5> QED BY <5>1
      <4> QED BY <1>1, <1>6, <2>6, <4>1, <4>2 DEF Chosen, Shown
    <3>3. Shown'
      BY <3>2 DEF Shown
    <3>4. Asked'
      <4>1. page'.stage = page.stage /\ page'.file = page.file
        BY <1>1, <2>2, <2>6
      <4> QED BY <1>1, <1>2, <4>1, FewerAsked DEF Chosen
    <3> QED BY <1>3, <3>3, <3>4 DEF Chosen
  <2>7. CASE /\ calls[c].op \in {"commit", "cancel"} /\ n.token = None
             /\ \/ n.stage = "done" /\ calls[c].op = "commit"
                \/ n.stage = "upload" /\ calls[c].op = "cancel"
    <3>1. ASSUME NEW u \in Token, Fresh(u)' PROVE Waiting(u)'
      <4>1. Fresh(u) /\ u \in Held' /\ u # None
        BY <1>1, <1>5, <2>7, <3>1 DEF Fresh
      <4>2. calls[c].token = u => u \notin files
        BY <1>1, <2>7 DEF Chosen, Gone
      <4>3. page.stage # "preview"
        BY <2>3, <2>7, <4>1, <4>2
      <4>4. Waiting(u)
        BY <4>1, <4>3 DEF Chosen, Shown
      <4> QED BY <1>6, <2>7, <4>4
    <3>2. Shown'
      BY <1>1, <2>7, <3>1 DEF Shown
    <3>3. Asked'
      <4>1. ASSUME NEW d \in DOMAIN calls', calls[d].live, calls[d].op = "preview", calls[c].op = "commit"
            PROVE  FALSE
        BY <1>1, <1>2, <1>9, <4>1 DEF Flow, OneBusy, Busy
      <4>2. page'.stage \in {"done", "upload"} /\ page'.file = page.file
            /\ (page'.stage = "done" => calls[c].op = "commit")
        BY <1>1, <2>2, <2>7
      <4>3. \A d \in DOMAIN calls' : calls[d].live /\ calls[d].op = "preview" => page'.stage = "upload"
        BY <4>1, <4>2
      <4> QED BY <1>1, <1>2, <4>2, <4>3, FewerAsked DEF Chosen
    <3> QED BY <1>3, <3>2, <3>3 DEF Chosen
  <2> QED BY <2>1, <2>4, <2>5, <2>6, <2>7 DEF Turns
<1> QED BY <1>8, <1>9

LEMMA LeavesChosen == ASSUME TypeInv, Flow, Chosen, Leaves PROVE Chosen'
<1>1. /\ DOMAIN calls' = DOMAIN calls
      /\ \A d \in DOMAIN calls :
           /\ ~calls'[d].live /\ calls'[d].op = calls[d].op /\ calls'[d].pc = calls[d].pc
           /\ calls'[d].token = calls[d].token /\ calls'[d].chosen = calls[d].chosen
  BY LeavesCalls
<1>2. page'.token = None /\ files' = files /\ book' = book /\ past'.lost = past.lost
  BY NewPageOK DEF Leaves, Server, SameHistory
<1>3. \A u \in Token : ~Fresh(u)'
  BY <1>1, <1>2, NoneIsNothing DEF Fresh
<1>4. Shown'
  BY <1>3 DEF Shown
<1>5. Asked'
  BY <1>1 DEF Asked
<1>6. Confirmed'
  BY <1>1, <1>2 DEF Chosen, Confirmed
<1>7. Gone'
  BY <1>1, <1>2 DEF Chosen, Gone
<1>8. ImportsTheChosenFile'
  BY <1>2 DEF Chosen, ImportsTheChosenFile
<1> QED BY <1>4, <1>5, <1>6, <1>7, <1>8 DEF Chosen

LEMMA CrashesChosen == ASSUME TypeInv, Flow, Chosen, Crashes PROVE Chosen'
<1>1. /\ DOMAIN calls' = DOMAIN calls
      /\ \A d \in DOMAIN calls :
           \/ calls'[d] = calls[d] /\ calls[d].pc \in {"ok", "failed"}
           \/ /\ calls[d].pc \notin {"ok", "failed"} /\ calls'[d].op = calls[d].op
              /\ calls'[d].pc = "failed" /\ calls'[d].live = calls[d].live /\ calls'[d].token = None
  BY CrashesCalls
<1>2. /\ page' = page /\ files' = files /\ book' = book /\ past'.lost = past.lost
      /\ past'.given = past.given /\ None \notin files
  BY Unfolded, NoneIsNothing DEF Crashes
<1>3. Shrinks
  BY <1>1 DEF Shrinks
<1>4. Shown'
  BY <1>1, <1>2, <1>3, SameShown DEF Chosen
<1>5. Asked'
  BY <1>1, <1>2 DEF Chosen, Asked
<1>6. Confirmed'
  BY <1>1, <1>2 DEF Chosen, Confirmed
<1>7. Gone'
  BY <1>1, <1>2 DEF Chosen, Gone
<1>8. ImportsTheChosenFile'
  BY <1>2 DEF Chosen, ImportsTheChosenFile
<1> QED BY <1>4, <1>5, <1>6, <1>7, <1>8 DEF Chosen

LEMMA QuietChosen == ASSUME TypeInv, Flow, Chosen, Quiet PROVE Chosen'
<1>1. /\ files' \subseteq files /\ calls' = calls /\ book' = book
      /\ past'.lost = past.lost /\ past'.given = past.given
      /\ page' = page \/ (page.stage = "done" /\ page'.stage = "upload" /\ page'.token = page.token)
  BY DEF Quiet, SameHistory
<1>2. Confirmed' /\ Gone' /\ ImportsTheChosenFile'
  BY <1>1, FewerChosen
<1>3. \A u \in Token : (Fresh(u)' => Fresh(u)) /\ (Waiting(u)' <=> Waiting(u))
  BY <1>1 DEF Fresh, Held, Waiting
<1>4. Shown'
  BY <1>1, <1>3 DEF Chosen, Shown
<1>5. Asked'
  BY <1>1 DEF Chosen, Asked
<1> QED BY <1>2, <1>4, <1>5 DEF Chosen

LEMMA ChosenKept == ASSUME TypeInv, Flow, Chosen, [Next]_vars PROVE Chosen'
BY StepIs, SendsChosen, KeepsChosen, StoresChosen, ReceivesChosen, LeavesChosen, CrashesChosen,
   QuietChosen DEF HandlerOK

LEMMA InitChosen == Init => Chosen
BY DEF Init, Chosen, Shown, Asked, Confirmed, Gone, ImportsTheChosenFile, Fresh, Held

(* What enters the books is the file chosen last when the user confirmed,  *)
(* in whatever order the answers come, unless the answer for another       *)
(* upload, or a cancel that failed, had taken the file off the page.       *)
THEOREM TheChosenFile == Spec => []ImportsTheChosenFile
<1>1. Init => TypeInv /\ Flow /\ Chosen
  BY InitTypes, InitFlow, InitChosen
<1>2. TypeInv /\ Flow /\ Chosen /\ [Next]_vars => TypeInv' /\ Flow' /\ Chosen'
  BY TypeKept, FlowKept, ChosenKept
<1>3. Chosen => ImportsTheChosenFile
  BY DEF Chosen
<1> QED BY <1>1, <1>2, <1>3, PTL DEF Spec
=============================================================================
