----------------------------- MODULE FilesProofs -----------------------------
(***************************************************************************)
(* Proofs about Files, for every value of its constants: types, consents and*)
(* links first, then the objects behind the rows.                          *)
(***************************************************************************)
EXTENDS Files, TLAPS

Past == [used : SUBSET Key, cut : SUBSET Key, spared : SUBSET Key,
         consents : 0..MaxConsents, sent : 0..MaxRequests, faults : 0..MaxFaults]

(* Which locals a handler has at which place. *)
CallOK(q) ==
  /\ q \in Request
  /\ q.op # "upload" => q.rest = 0
  /\ q.op = "upload" => q.tx \in Transaction /\ TxOf[q.tx] = q.biz
  /\ q.op = "erase" <=> q.pc \in {"erasing", "erased"}
  /\ q.op = "consent" => q.with \in Consent
  /\ q.pc \in {"putting", "put", "erasing", "erased"} => q.file \in Key
  /\ q.pc \in {"folder", "file"} => q.op = "upload" /\ q.with \in Consent

RowsFit ==
  /\ DOMAIN logos \in SUBSET Business /\ logos \in [DOMAIN logos -> Key \cup {None}]
  /\ txs \in SUBSET Transaction
  /\ DOMAIN receipts \in SUBSET File /\ receipts \in [DOMAIN receipts -> Business]
  /\ links \in SUBSET (Transaction \X File)
GrantFits == grant \in Grant \cup {None} /\ (grant # None => grant.refresh \in Consent)
ObjectsFit == bucket \in SUBSET Key /\ drive \in SUBSET DriveFile /\ deletes \in SUBSET Key
CallsFit == /\ DOMAIN calls \in SUBSET Call /\ calls \in [DOMAIN calls -> Request]
            /\ \A c \in DOMAIN calls : CallOK(calls[c])
\* A handler that talks to the Drive has found a grant, and grants are never removed.
HasGrant == \A c \in DOMAIN calls : calls[c].pc \in {"folder", "file"} => grant # None

TypeInv ==
  /\ RowsFit /\ pref \in Place \cup {None} /\ GrantFits /\ ObjectsFit /\ CallsFit /\ HasGrant
  /\ past \in Past

-----------------------------------------------------------------------------
(* Helpers. *)

LEMMA Bounds ==
  /\ TxOf \in [Transaction -> Business] /\ Key \cap DriveFile = {}
  /\ None \notin Key /\ None \notin DriveFile /\ None \notin Transaction
  /\ MaxBatch \in Nat /\ MaxConsents \in Nat /\ MaxRequests \in Nat /\ MaxFaults \in Nat
BY FilesAssumption

LEMMA CountedOK ==
  ASSUME NEW p \in Past, past \in Past, Counted(p)
  PROVE  /\ past' \in Past /\ past'.used = p.used /\ past'.cut = p.cut /\ past'.spared = p.spared
<1>1. past.sent + 1 \in 0..MaxRequests
  BY Bounds DEF Counted, Past
<1>2. past' = [p EXCEPT !.sent = past.sent + 1]
  BY DEF Counted
<1> QED BY <1>1, <1>2 DEF Past

LEMMA FaultyOK ==
  ASSUME NEW p \in Past, past \in Past, Faulty(p)
  PROVE  /\ past' \in Past /\ past'.used = p.used /\ past'.cut = p.cut /\ past'.spared = p.spared
<1>1. past.faults + 1 \in 0..MaxFaults
  BY Bounds DEF Faulty, Past
<1>2. past' = [p EXCEPT !.faults = past.faults + 1]
  BY DEF Faulty
<1> QED BY <1>1, <1>2 DEF Past

LEMMA BlankOK ==
  ASSUME NEW op \in {"upload", "logo", "erase", "consent"}, NEW b \in Business
  PROVE  Blank(op, b) \in [op : {"upload", "logo", "erase", "consent"}, pc : PC, biz : Business,
                           tx : {None}, file : {None}, rest : {0}, with : {None}]
         /\ Blank(op, b).op = op /\ Blank(op, b).pc = "next" /\ Blank(op, b).biz = b
BY DEF Blank, PC

LEMMA BlankIsRequest ==
  ASSUME NEW op \in {"upload", "logo", "erase", "consent"}, NEW b \in Business
  PROVE  /\ Blank(op, b) \in Request
         /\ Blank(op, b).op = op /\ Blank(op, b).biz = b /\ Blank(op, b).rest = 0
<1>1. 0 \in 0..MaxBatch
  BY Bounds
<1> QED BY <1>1 DEF Blank, Request, PC

LEMMA FreshOK ==
  ASSUME NEW r \in Request, r.rest = 0, NEW pc, NEW k \in Key,
         (r.op = "logo" /\ pc = "putting") \/ (r.op = "erase" /\ pc = "erasing")
  PROVE  LET q == [r EXCEPT !.pc = pc, !.file = k]
         IN  CallOK(q) /\ q.pc = pc /\ q.file = k /\ q.biz = r.biz
<1> DEFINE q == [r EXCEPT !.pc = pc, !.file = k]
<1>1. q \in Request /\ q.op = r.op /\ q.pc = pc /\ q.file = k /\ q.biz = r.biz /\ q.rest = 0
  BY DEF Request, PC, File
<1> HIDE DEF q
<1>2. CallOK(q)
  BY <1>1 DEF CallOK
<1> QED BY <1>1, <1>2 DEF q

LEMMA WaitOK ==
  ASSUME CallsFit, NEW c \in DOMAIN calls, NEW q, CallOK(q), Wait(c, q)
  PROVE  /\ CallsFit' /\ DOMAIN calls' = DOMAIN calls /\ calls'[c] = q
         /\ \A d \in DOMAIN calls \ {c} : calls'[d] = calls[d]
BY DEF Wait, CallsFit, CallOK

LEMMA StartOK ==
  ASSUME CallsFit, NEW q, CallOK(q), Start(q)
  PROVE  /\ CallsFit'
         /\ \E c \in Call \ DOMAIN calls :
              /\ DOMAIN calls' = DOMAIN calls \cup {c} /\ calls'[c] = q
              /\ \A d \in DOMAIN calls : calls'[d] = calls[d]
<1>1. PICK c \in Call \ DOMAIN calls : calls' = With(calls, c, q)
  BY DEF Start
<1>2. /\ DOMAIN calls' = DOMAIN calls \cup {c} /\ calls'[c] = q
      /\ \A d \in DOMAIN calls : calls'[d] = calls[d]
      /\ calls' = [z \in DOMAIN calls' |-> calls'[z]]
  BY <1>1 DEF With
<1>3. q \in Request
  BY DEF CallOK
<1>4. CallsFit'
  BY <1>2, <1>3 DEF CallsFit
<1> QED BY <1>2, <1>4

LEMMA AnswerOK ==
  ASSUME CallsFit, NEW c \in DOMAIN calls, NEW ok \in BOOLEAN, Answer(c, ok)
  PROVE  /\ CallsFit'
         /\ DOMAIN calls' \subseteq DOMAIN calls /\ DOMAIN calls \ {c} \subseteq DOMAIN calls'
         /\ \A d \in DOMAIN calls \ {c} : calls'[d] = calls[d]
         /\ c \in DOMAIN calls' => calls'[c].pc = "next" /\ calls[c].op = "upload"
<1> DEFINE r == calls[c]
           q == [Blank("upload", r.biz) EXCEPT !.tx = r.tx, !.rest = r.rest - 1]
<1>1. CallOK(r)
  BY DEF CallsFit
<1>2. CASE ok /\ r.rest > 0
  <2>1. r.op = "upload" /\ r.rest - 1 \in 0..MaxBatch
    BY <1>1, <1>2, Bounds DEF CallOK, Request
  <2>2. CallOK(q) /\ q.pc = "next"
    BY <1>1, <2>1, Bounds DEF CallOK, Request, Blank, PC
  <2>3. calls' = With(calls, c, q)
    BY <1>2 DEF Answer
  <2> HIDE DEF q, r
  <2>4. DOMAIN calls' = DOMAIN calls /\ calls'[c] = q /\ calls' = [z \in DOMAIN calls' |-> calls'[z]]
        /\ \A d \in DOMAIN calls \ {c} : calls'[d] = calls[d]
    BY <2>3 DEF With
  <2>5. q \in Request
    BY <2>2 DEF CallOK
  <2>6. CallsFit'
    BY <2>2, <2>4, <2>5 DEF CallsFit
  <2> QED BY <2>1, <2>2, <2>4, <2>6 DEF r
<1>3. CASE ~(ok /\ r.rest > 0)
  <2>1. calls' = Without(calls, {c})
    BY <1>3 DEF Answer
  <2>2. DOMAIN calls' = DOMAIN calls \ {c} /\ calls' = [z \in DOMAIN calls' |-> calls'[z]]
        /\ \A d \in DOMAIN calls \ {c} : calls'[d] = calls[d]
    BY <2>1 DEF Without
  <2>3. CallsFit'
    BY <2>2 DEF CallsFit
  <2> QED BY <2>2, <2>3
<1> QED BY <1>2, <1>3

LEMMA MergeOK ==
  ASSUME GrantFits, NEW r \in Consent \cup {None}, NEW a \in Consent, grant = None => r # None,
         grant' = MergeTokens([refresh |-> r, access |-> a])
  PROVE  /\ GrantFits' /\ grant' # None
         /\ grant # None => grant'.refresh = IF r = None THEN grant.refresh ELSE r
<1> DEFINE kept == IF grant = None THEN None ELSE grant.refresh
           refresh == IF r = None THEN kept ELSE r
           folder == grant # None /\ grant.folder
<1>1. refresh \in Consent /\ folder \in BOOLEAN
  BY DEF GrantFits, Grant
<1>2. grant' = [refresh |-> refresh, access |-> a, folder |-> folder]
  BY DEF MergeTokens
<1>3. [refresh |-> refresh, access |-> a, folder |-> folder] # None
  <2>1. [refresh |-> refresh, access |-> a, folder |-> folder] \in Grant
    BY <1>1 DEF Grant
  <2> QED BY <2>1, GrantAssumption
<1> HIDE DEF refresh, folder
<1>4. grant' \in Grant /\ grant'.refresh = refresh
  BY <1>1, <1>2 DEF Grant
<1> QED BY <1>1, <1>2, <1>3, <1>4 DEF GrantFits, refresh, kept

LEMMA RecordOK ==
  ASSUME RowsFit, CallsFit, NEW c \in DOMAIN calls, calls[c].op = "upload", NEW f \in File,
         Record(c, f), UNCHANGED <<logos, txs>>
  PROVE  /\ RowsFit'
         /\ \E ok \in BOOLEAN : Answer(c, ok)
         /\ \/ UNCHANGED <<receipts, links>> /\ calls[c].biz \notin DOMAIN logos
            \/ /\ DOMAIN receipts' = DOMAIN receipts \cup {f} /\ receipts'[f] = calls[c].biz
               /\ \A g \in DOMAIN receipts \ {f} : receipts'[g] = receipts[g]
               /\ \/ links' = links
                  \/ /\ links' = links \cup {<<calls[c].tx, f>>}
                     /\ calls[c].tx \in txs /\ TxOf[calls[c].tx] = calls[c].biz
<1>1. CallOK(calls[c])
  BY DEF CallsFit
<1>2. CASE calls[c].biz \notin DOMAIN logos
  <2>1. UNCHANGED <<receipts, links>> /\ Answer(c, FALSE)
    BY <1>2 DEF Record
  <2> QED BY <1>2, <2>1 DEF RowsFit
<1>3. CASE calls[c].biz \in DOMAIN logos
  <2> DEFINE linked == calls[c].tx # None /\ calls[c].tx \in txs
             ok == linked \/ calls[c].tx = None
  <2>1. /\ receipts' = With(receipts, f, calls[c].biz)
        /\ links' = IF linked THEN links \cup {<<calls[c].tx, f>>} ELSE links
        /\ Answer(c, ok)
    BY <1>3 DEF Record
  <2>2. ok \in BOOLEAN
    OBVIOUS
  <2>3. calls[c].biz \in Business /\ calls[c].tx \in Transaction
    BY <1>1 DEF CallOK, Request
  <2>4. DOMAIN receipts' = DOMAIN receipts \cup {f} /\ receipts'[f] = calls[c].biz
        /\ receipts' = [z \in DOMAIN receipts' |-> receipts'[z]]
        /\ \A g \in DOMAIN receipts \ {f} : receipts'[g] = receipts[g]
    BY <2>1 DEF With
  <2>5. RowsFit'
    BY <2>1, <2>3, <2>4 DEF RowsFit
  <2>6. \E b \in BOOLEAN : Answer(c, b)
    <3> HIDE DEF ok
    <3> QED BY <2>1, <2>2
  <2>7. TxOf[calls[c].tx] = calls[c].biz
    BY <1>1 DEF CallOK
  <2> QED BY <2>1, <2>4, <2>5, <2>6, <2>7
<1> QED BY <1>2, <1>3

LEMMA ForgetOK ==
  ASSUME RowsFit, NEW S, Forget(S), UNCHANGED <<logos, txs>>
  PROVE  /\ RowsFit'
         /\ DOMAIN receipts' = DOMAIN receipts \ S
         /\ \A g \in DOMAIN receipts' : receipts'[g] = receipts[g]
         /\ links' = {l \in links : l[2] \notin S}
<1>1. receipts' = Without(receipts, S) /\ links' = {l \in links : l[2] \notin S}
  BY DEF Forget
<1>2. DOMAIN receipts' = DOMAIN receipts \ S /\ receipts' = [z \in DOMAIN receipts' |-> receipts'[z]]
      /\ \A g \in DOMAIN receipts' : receipts'[g] = receipts[g]
  BY <1>1 DEF Without
<1>3. RowsFit'
  BY <1>1, <1>2 DEF RowsFit
<1> QED BY <1>1, <1>2, <1>3

LEMMA Acts ==
  ASSUME Next
  PROVE  \/ \E b \in Business, t \in Transaction, n \in 1..MaxBatch : Drop(b, t, n)
         \/ \E b \in Business, f \in DriveFile, t \in Transaction : Pick(b, f, t)
         \/ \E b \in Business, f \in DriveFile : PickTaken(b, f)
         \/ \E b \in Business, f \in File : DeleteReceipt(b, f)
         \/ \E b \in Business, t \in Transaction, f \in File : Link(b, t, f) \/ Unlink(b, t, f)
         \/ \E t \in Transaction : DeleteTransaction(t)
         \/ \E p \in Place : SetPreference(p)
         \/ \E b \in Business, f \in Upload : UploadLogo(b, f)
         \/ \E b \in Business : ClearLogo(b) \/ DeleteBusiness(b)
         \/ Callback \/ Crash
         \/ \E c \in DOMAIN calls :
              \/ \E f \in Upload : ToBucket(c, f)
              \/ ToDrive(c) \/ PutObject(c) \/ RecordObject(c) \/ MakeFolder(c) \/ MakeFile(c)
              \/ EraseObject(c) \/ DeleteRow(c) \/ SetLogo(c) \/ Exchange(c) \/ Refresh(c) \/ Fail(c)
         \/ \E k \in Key : DeleteObject(k) \/ FailDelete(k)
<1>1. ASSUME NEW c \in Call, Handler(c) PROVE c \in DOMAIN calls
  BY <1>1 DEF Handler, ToBucket, ToDrive, PutObject, RecordObject, MakeFolder, MakeFile, EraseObject,
              DeleteRow, SetLogo, Exchange, Refresh, Fail, At
<1>2. User \/ Crash \/ (\E c \in DOMAIN calls : Handler(c)) \/ \E k \in Key : DeleteObject(k) \/ FailDelete(k)
  BY <1>1 DEF Next
<1> QED BY <1>2 DEF User, Handler

LEMMA FileIsKey ==
  ASSUME CallsFit, NEW c \in DOMAIN calls, calls[c].pc \in {"putting", "put", "erasing", "erased"}
  PROVE  calls[c].file \in Key /\ calls[c].file \in File
BY DEF CallsFit, CallOK, File

LEMMA DriveFiles ==
  ASSUME TypeInv, NEW f \in DriveFile PROVE f \in File /\ f \notin Key
BY Bounds DEF File

LEMMA RowsType ==
  ASSUME TypeInv, Next PROVE RowsFit'
<1>0. RowsFit /\ CallsFit
  BY DEF TypeInv
<1>1. ASSUME NEW c \in DOMAIN calls, RecordObject(c) PROVE RowsFit'
  <2>1. calls[c].file \in File
    BY <1>0, <1>1, FileIsKey DEF RecordObject, At
  <2> QED BY <1>0, <1>1, <2>1, RecordOK DEF RecordObject, At
<1>2. ASSUME NEW c \in DOMAIN calls, MakeFile(c) PROVE RowsFit'
  <2>1. PICK f \in DriveFile : Record(c, f)
    BY <1>2 DEF MakeFile
  <2> QED BY <1>0, <1>2, <2>1, RecordOK, DriveFiles DEF MakeFile, At
<1>3. ASSUME NEW b \in Business, NEW f \in DriveFile, NEW t \in Transaction, Pick(b, f, t) PROVE RowsFit'
  <2>1. receipts' = With(receipts, f, b) /\ f \in File
    BY <1>3, DriveFiles DEF Pick
  <2>2. DOMAIN receipts' = DOMAIN receipts \cup {f} /\ receipts' = [z \in DOMAIN receipts' |-> receipts'[z]]
        /\ receipts'[f] = b /\ \A g \in DOMAIN receipts \ {f} : receipts'[g] = receipts[g]
    BY <2>1 DEF With
  <2>3. links' = links \/ links' = links \cup {<<t, f>>}
    BY <1>3 DEF Pick
  <2> QED BY <1>0, <1>3, <2>1, <2>2, <2>3 DEF RowsFit, Pick
<1>4. ASSUME NEW b \in Business, NEW f \in File, DeleteReceipt(b, f) PROVE RowsFit'
  <2>1. Forget({f}) \/ UNCHANGED <<receipts, links>>
    BY <1>4 DEF DeleteReceipt
  <2> QED BY <1>0, <1>4, <2>1, ForgetOK DEF RowsFit, DeleteReceipt
<1>5. ASSUME NEW c \in DOMAIN calls, DeleteRow(c) PROVE RowsFit'
  BY <1>0, <1>5, ForgetOK DEF DeleteRow
<1>6. ASSUME NEW b \in Business, NEW t \in Transaction, NEW f \in File, Link(b, t, f) \/ Unlink(b, t, f) PROVE RowsFit'
  BY <1>0, <1>6 DEF Link, Unlink, RowsFit
<1>7. ASSUME NEW t \in Transaction, DeleteTransaction(t) PROVE RowsFit'
  BY <1>0, <1>7 DEF DeleteTransaction, RowsFit
<1>8. ASSUME NEW c \in DOMAIN calls, SetLogo(c) PROVE RowsFit'
  <2>1. calls[c].file \in Key
    BY <1>0, <1>8, FileIsKey DEF SetLogo, At
  <2>2. logos' = logos \/ logos' = [logos EXCEPT ![calls[c].biz] = calls[c].file]
    BY <1>8 DEF SetLogo
  <2> QED BY <1>0, <1>8, <2>1, <2>2 DEF RowsFit, SetLogo
<1>9. ASSUME NEW b \in Business, ClearLogo(b) PROVE RowsFit'
  BY <1>0, <1>9 DEF ClearLogo, RowsFit
<1>10. ASSUME NEW b \in Business, DeleteBusiness(b) PROVE RowsFit'
  <2> DEFINE gone == {f \in DOMAIN receipts : receipts[f] = b}
  <2>1. /\ receipts' = Without(receipts, gone) /\ logos' = Without(logos, {b})
        /\ links' = {l \in links : l[2] \notin gone /\ TxOf[l[1]] # b} /\ txs' \subseteq txs
    BY <1>10 DEF DeleteBusiness
  <2> HIDE DEF gone
  <2>2. /\ DOMAIN receipts' = DOMAIN receipts \ gone /\ receipts' = [z \in DOMAIN receipts' |-> receipts[z]]
        /\ DOMAIN logos' = DOMAIN logos \ {b} /\ logos' = [z \in DOMAIN logos' |-> logos[z]]
    BY <2>1 DEF Without
  <2> QED BY <1>0, <2>1, <2>2 DEF RowsFit
<1>11. UNCHANGED rows => RowsFit'
  BY <1>0 DEF rows, RowsFit
<1>12. \/ UNCHANGED rows
       \/ \E c \in DOMAIN calls : RecordObject(c) \/ MakeFile(c) \/ DeleteRow(c) \/ SetLogo(c)
       \/ \E b \in Business, f \in DriveFile, t \in Transaction : Pick(b, f, t)
       \/ \E b \in Business, f \in File : DeleteReceipt(b, f)
       \/ \E b \in Business, t \in Transaction, f \in File : Link(b, t, f) \/ Unlink(b, t, f)
       \/ \E t \in Transaction : DeleteTransaction(t)
       \/ \E b \in Business : ClearLogo(b) \/ DeleteBusiness(b)
  BY Acts DEF Drop, ToBucket, ToDrive, PutObject, MakeFolder, PickTaken, Die, SetPreference, UploadLogo, Callback,
              Crash, EraseObject, Exchange, Refresh, Fail, DeleteObject, FailDelete, rows
<1> QED BY <1>1, <1>2, <1>3, <1>4, <1>5, <1>6, <1>7, <1>8, <1>9, <1>10, <1>11, <1>12

(* The tokens are only ever merged, and a refresh token is only replaced   *)
(* by the callback of a consent, which is over then.                       *)
LEMMA GrantStep ==
  ASSUME TypeInv, Next
  PROVE  /\ GrantFits'
         /\ grant # None =>
              /\ grant' # None
              /\ \/ grant'.refresh = grant.refresh
                 \/ \E c \in DOMAIN calls : At(c, "consent", "token") /\ calls[c].with = grant'.refresh
                                            /\ c \notin DOMAIN calls'
<1>0. GrantFits /\ CallsFit /\ HasGrant
  BY DEF TypeInv
<1>1. ASSUME NEW c \in DOMAIN calls, MakeFolder(c)
      PROVE  GrantFits' /\ grant' # None /\ grant'.refresh = grant.refresh
  <2>1. grant \in Grant /\ grant.refresh \in Consent
    BY <1>0, <1>1 DEF MakeFolder, At, HasGrant, GrantFits
  <2>2. grant' = [grant EXCEPT !.folder = TRUE]
    BY <1>1 DEF MakeFolder
  <2>3. grant' \in Grant /\ grant'.refresh = grant.refresh
    BY <2>1, <2>2 DEF Grant
  <2> QED BY <2>1, <2>3, GrantAssumption DEF GrantFits
<1>2. ASSUME NEW c \in DOMAIN calls, Refresh(c)
      PROVE  GrantFits' /\ grant' # None /\ grant'.refresh = grant.refresh
  <2>1. grant # None /\ calls[c].with \in Consent
    BY <1>0, <1>2 DEF Refresh, HasGrant, CallsFit, CallOK
  <2>2. grant' = MergeTokens([refresh |-> None, access |-> calls[c].with])
    BY <1>2 DEF Refresh
  <2> QED BY <1>0, <2>1, <2>2, MergeOK
<1>3. ASSUME NEW c \in DOMAIN calls, Exchange(c)
      PROVE  /\ GrantFits' /\ grant' # None
             /\ grant # None => \/ grant'.refresh = grant.refresh
                                \/ At(c, "consent", "token") /\ calls[c].with = grant'.refresh /\ c \notin DOMAIN calls'
  <2>1. At(c, "consent", "token") /\ calls[c].with \in Consent /\ calls[c].op # "upload"
    BY <1>0, <1>3 DEF Exchange, At, CallsFit, CallOK
  <2>2. PICK r \in {calls[c].with} \cup (IF grant = None THEN {} ELSE {None}) :
          grant' = MergeTokens([refresh |-> r, access |-> calls[c].with])
    BY <1>3 DEF Exchange
  <2>3. r \in Consent \cup {None} /\ (grant = None => r # None)
    BY <2>1, <2>2, GrantAssumption
  <2>4. GrantFits' /\ grant' # None /\ (grant # None => grant'.refresh = IF r = None THEN grant.refresh ELSE r)
    BY <1>0, <2>1, <2>2, <2>3, MergeOK
  <2>5. c \notin DOMAIN calls'
    BY <1>0, <1>3, <2>1, AnswerOK DEF Exchange
  <2> QED BY <2>1, <2>2, <2>4, <2>5
<1>4. UNCHANGED grant \/ \E c \in DOMAIN calls : MakeFolder(c) \/ Refresh(c) \/ Exchange(c)
  BY Acts DEF Drop, ToBucket, ToDrive, PutObject, RecordObject, MakeFile, Pick, PickTaken, Die, DeleteReceipt,
              EraseObject, DeleteRow, Link, Unlink, DeleteTransaction, SetPreference, UploadLogo, SetLogo, ClearLogo,
              DeleteBusiness, DeleteObject, Callback, Fail, FailDelete, Crash
<1>5. UNCHANGED grant => GrantFits'
  BY <1>0 DEF GrantFits
<1> QED BY <1>1, <1>2, <1>3, <1>4, <1>5

LEMMA DieOK ==
  ASSUME TypeInv, NEW next \in Past, Die(next)
  PROVE  /\ past' \in Past /\ past'.used = next.used
         /\ next.cut \subseteq past'.cut /\ next.spared \subseteq past'.spared
         /\ \A c \in DOMAIN calls : /\ calls[c].pc = "erased" => calls[c].file \in past'.cut
                                    /\ calls[c].pc \in {"putting", "put"} => calls[c].file \in past'.spared
         /\ deletes \subseteq past'.spared
         /\ bucket \subseteq bucket'
         /\ \A k \in bucket' \ bucket : \E c \in DOMAIN calls : calls[c].pc = "putting" /\ k = calls[c].file
         /\ DOMAIN calls' = {} /\ deletes' = {} /\ CallsFit'
<1> DEFINE Keys(pcs) == {calls[c].file : c \in {d \in DOMAIN calls : calls[d].pc \in pcs}}
<1>1. Keys({"erased"}) \subseteq Key /\ Keys({"putting", "put"}) \subseteq Key
  BY FileIsKey DEF TypeInv
<1>2. deletes \subseteq Key
  BY DEF TypeInv, ObjectsFit
<1>3. past' = [next EXCEPT !.cut = next.cut \cup Keys({"erased"}),
                           !.spared = next.spared \cup deletes \cup Keys({"putting", "put"})]
  BY DEF Die, Past
<1>4. \E S \in SUBSET Keys({"putting"}) : bucket' = bucket \cup S
  BY DEF Die
<1>5. DOMAIN calls' = {} /\ deletes' = {} /\ calls' = [c \in {} |-> None]
  BY DEF Die
<1>6. CallsFit'
  BY <1>5 DEF CallsFit
<1>7. past' \in Past /\ past'.used = next.used /\ past'.cut = next.cut \cup Keys({"erased"})
      /\ past'.spared = next.spared \cup deletes \cup Keys({"putting", "put"})
  <2> HIDE DEF Keys
  <2> QED BY <1>1, <1>2, <1>3 DEF Past
<1> QED BY <1>4, <1>5, <1>6, <1>7

LEMMA PastStep ==
  ASSUME TypeInv, Next
  PROVE  past' \in Past /\ past.used \subseteq past'.used /\ past.cut \subseteq past'.cut /\ past.spared \subseteq past'.spared
<1> DEFINE Grows == past' \in Past /\ past.used \subseteq past'.used /\ past.cut \subseteq past'.cut /\ past.spared \subseteq past'.spared
<1>0. past \in Past /\ CallsFit
  BY DEF TypeInv
<1>1. UNCHANGED past \/ Counted(past) => Grows
  BY <1>0, CountedOK
<1>2. ASSUME NEW S \in SUBSET Key, \/ Counted([past EXCEPT !.used = @ \cup S])
                                  \/ past' = [past EXCEPT !.used = @ \cup S]
      PROVE  Grows
  <2>1. [past EXCEPT !.used = @ \cup S] \in Past
    BY <1>0 DEF Past
  <2> QED BY <1>0, <1>2, <2>1, CountedOK DEF Past
<1>3. ASSUME NEW S \in SUBSET Key, \/ Faulty([past EXCEPT !.spared = @ \cup S])
                                  \/ past' = [past EXCEPT !.spared = @ \cup S]
      PROVE  Grows
  <2>1. [past EXCEPT !.spared = @ \cup S] \in Past
    BY <1>0 DEF Past
  <2> QED BY <1>0, <1>3, <2>1, FaultyOK DEF Past
<1>4. Callback => Grows
  <2> SUFFICES ASSUME Callback PROVE Grows
    OBVIOUS
  <2>1. past.consents + 1 \in 0..MaxConsents
    BY <1>0, Bounds DEF Callback, Past
  <2>2. [past EXCEPT !.consents = @ + 1] \in Past
    BY <1>0, <2>1 DEF Past
  <2> QED BY <1>0, <2>2, CountedOK DEF Callback, Past
<1>5. Crash => Grows
  <2> SUFFICES ASSUME Crash PROVE Grows
    OBVIOUS
  <2>1. past.faults + 1 \in 0..MaxFaults
    BY <1>0, Bounds DEF Crash, Past
  <2>2. [past EXCEPT !.faults = @ + 1] \in Past
    BY <1>0, <2>1 DEF Past
  <2>3. Die([past EXCEPT !.faults = @ + 1])
    BY DEF Crash
  <2> QED BY <1>0, <2>2, <2>3, DieOK DEF Past
<1>6. ASSUME NEW b \in Business, NEW f \in DriveFile, PickTaken(b, f) PROVE Grows
  <2> DEFINE next == [past EXCEPT !.sent = past.sent + 1]
  <2>1. past.sent + 1 \in 0..MaxRequests
    BY <1>0, <1>6, Bounds DEF PickTaken, Past
  <2>2. next \in Past /\ next.used = past.used /\ next.cut = past.cut /\ next.spared = past.spared
    BY <1>0, <2>1 DEF Past
  <2>3. Die(next) \/ past' = next
    BY <1>6 DEF PickTaken
  <2> HIDE DEF next
  <2> QED BY <2>2, <2>3, DieOK
<1>7. ASSUME NEW c \in DOMAIN calls, NEW f \in Upload, ToBucket(c, f) PROVE Grows
  <2>1. UNCHANGED past \/ \E k \in Key : past' = [past EXCEPT !.used = @ \cup {k}]
    BY <1>7 DEF ToBucket
  <2>2. ASSUME NEW k \in Key, past' = [past EXCEPT !.used = @ \cup {k}] PROVE Grows
    <3>1. {k} \in SUBSET Key
      OBVIOUS
    <3> QED BY <1>2, <2>2, <3>1
  <2> QED BY <1>1, <2>1, <2>2
<1>8. ASSUME NEW b \in Business, NEW f \in Upload, UploadLogo(b, f) PROVE Grows
  BY <1>2, <1>8 DEF UploadLogo
<1>9. ASSUME NEW c \in DOMAIN calls, RecordObject(c) \/ SetLogo(c) PROVE Grows
  <2>1. calls[c].file \in Key
    BY <1>0, <1>9, FileIsKey DEF RecordObject, SetLogo, At
  <2>2. {calls[c].file} \in SUBSET Key
    BY <2>1
  <2>3. UNCHANGED past \/ past' = [past EXCEPT !.spared = @ \cup {calls[c].file}]
    BY <1>9 DEF RecordObject, SetLogo
  <2> QED BY <1>1, <1>3, <2>2, <2>3
<1>10. ASSUME NEW c \in DOMAIN calls, Fail(c) PROVE Grows
  <2>1. CASE calls[c].op = "erase"
    <3>1. calls[c].file \in Key
      BY <1>0, <1>10, <2>1, FileIsKey DEF Fail
    <3>2. Faulty([past EXCEPT !.spared = @ \cup {calls[c].file}])
      BY <1>10, <2>1 DEF Fail
    <3> QED BY <1>3, <3>1, <3>2
  <2>2. CASE calls[c].op # "erase"
    <3>1. {calls[c].file} \cap bucket \in SUBSET Key
      BY DEF TypeInv, ObjectsFit
    <3>2. Faulty([past EXCEPT !.spared = @ \cup ({calls[c].file} \cap bucket)])
      BY <1>10, <2>2 DEF Fail
    <3> QED BY <1>3, <3>1, <3>2
  <2> QED BY <2>1, <2>2
<1>11. ASSUME NEW k \in Key, FailDelete(k) PROVE Grows
  BY <1>3, <1>11 DEF FailDelete
<1> HIDE DEF Grows
<1>12. \/ UNCHANGED past \/ Counted(past) \/ Callback \/ Crash
       \/ \E b \in Business, f \in DriveFile : PickTaken(b, f)
       \/ \E c \in DOMAIN calls : (\E f \in Upload : ToBucket(c, f)) \/ RecordObject(c) \/ SetLogo(c) \/ Fail(c)
       \/ \E b \in Business, f \in Upload : UploadLogo(b, f)
       \/ \E k \in Key : FailDelete(k)
  BY Acts DEF Drop, ToDrive, PutObject, MakeFolder, MakeFile, Pick, DeleteReceipt, EraseObject, DeleteRow, Link, Unlink,
              DeleteTransaction, SetPreference, ClearLogo, DeleteBusiness, DeleteObject, Exchange, Refresh
<1>13. Grows
  BY <1>1, <1>4, <1>5, <1>6, <1>7, <1>8, <1>9, <1>10, <1>11, <1>12
<1> QED BY <1>13 DEF Grows

(* A step moves at most one handler, and that one in one of these ways. *)
Still(c) == c \in DOMAIN calls /\ c \in DOMAIN calls' /\ calls'[c] = calls[c]

Puts == {"putting", "put"}
Erases == {"erasing", "erased"}

Moves(c) ==
  \/ calls'[c].pc \notin Puts \cup Erases
  \/ calls'[c].pc = "putting" /\ calls'[c].file \in past'.used \ past.used
  \/ /\ c \in DOMAIN calls /\ PutObject(c) /\ calls[c].pc = "putting"
     /\ calls'[c].pc = "put" /\ calls'[c].file = calls[c].file
  \/ /\ calls'[c].pc = "erasing" /\ calls'[c].file \in DOMAIN receipts \cap Key
     /\ receipts[calls'[c].file] = calls'[c].biz /\ UNCHANGED receipts
  \/ /\ c \in DOMAIN calls /\ calls[c].pc = "erasing" /\ calls'[c].pc = "erased"
     /\ calls'[c].file = calls[c].file /\ calls'[c].biz = calls[c].biz /\ UNCHANGED receipts
     /\ EraseObject(c) \/ calls[c].file \in past'.spared

MovesOne(c) ==
  /\ \A d \in DOMAIN calls' \ {c} : Still(d)
  /\ c \in DOMAIN calls' => Moves(c) /\ (calls'[c].pc \in {"folder", "file"} => grant' # None)

LEMMA AnswerMoves ==
  ASSUME CallsFit, NEW c \in DOMAIN calls, NEW ok \in BOOLEAN, Answer(c, ok)
  PROVE  CallsFit' /\ MovesOne(c)
BY AnswerOK DEF MovesOne, Moves, Still, Puts, Erases

LEMMA StartMoves ==
  ASSUME CallsFit, NEW q, CallOK(q), Start(q), q.pc \notin {"folder", "file"},
         \/ q.pc \notin Puts \cup Erases
         \/ q.pc = "putting" /\ q.file \in past'.used \ past.used
         \/ /\ q.pc = "erasing" /\ q.file \in DOMAIN receipts \cap Key
            /\ receipts[q.file] = q.biz /\ UNCHANGED receipts
  PROVE  CallsFit' /\ \E c \in Call : MovesOne(c)
<1>1. PICK c \in Call \ DOMAIN calls :
        /\ DOMAIN calls' = DOMAIN calls \cup {c} /\ calls'[c] = q
        /\ \A d \in DOMAIN calls : calls'[d] = calls[d]
  BY StartOK
<1>2. Moves(c)
  BY <1>1 DEF Moves
<1>3. MovesOne(c)
  BY <1>1, <1>2 DEF MovesOne, Still
<1>4. CallsFit'
  BY StartOK
<1> QED BY <1>3, <1>4

LEMMA WaitMoves ==
  ASSUME CallsFit, NEW c \in DOMAIN calls, NEW q, CallOK(q), Wait(c, q),
         q.pc \in {"folder", "file"} => grant' # None,
         \/ q.pc \notin Puts \cup Erases
         \/ q.pc = "putting" /\ q.file \in past'.used \ past.used
         \/ /\ PutObject(c) /\ calls[c].pc = "putting" /\ q.pc = "put" /\ q.file = calls[c].file
         \/ /\ calls[c].pc = "erasing" /\ q.pc = "erased"
            /\ q.file = calls[c].file /\ q.biz = calls[c].biz /\ UNCHANGED receipts
            /\ EraseObject(c) \/ calls[c].file \in past'.spared
  PROVE  CallsFit' /\ MovesOne(c)
<1>1. CallsFit' /\ DOMAIN calls' = DOMAIN calls /\ calls'[c] = q
      /\ \A d \in DOMAIN calls \ {c} : calls'[d] = calls[d]
  BY WaitOK
<1>2. Moves(c)
  BY <1>1 DEF Moves
<1> QED BY <1>1, <1>2 DEF MovesOne, Still

LEMMA CallsStep ==
  ASSUME TypeInv, Next
  PROVE  CallsFit' /\ ((\A c \in DOMAIN calls' : Still(c)) \/ \E c \in Call : MovesOne(c))
<1> DEFINE Goal == CallsFit' /\ ((\A c \in DOMAIN calls' : Still(c)) \/ \E c \in Call : MovesOne(c))
<1>0. CallsFit /\ past \in Past /\ DOMAIN calls \subseteq Call
  BY DEF TypeInv, CallsFit
<1>1. ASSUME NEW b \in Business, NEW t \in Transaction, NEW n \in 1..MaxBatch, Drop(b, t, n) PROVE Goal
  <2> DEFINE q == [Blank("upload", b) EXCEPT !.tx = t, !.rest = n - 1]
  <2>1. n - 1 \in 0..MaxBatch /\ TxOf[t] = b
    BY <1>1, Bounds DEF Drop, HasTx
  <2>2. CallOK(q) /\ q.pc = "next"
    BY <2>1 DEF CallOK, Request, Blank, PC
  <2>3. Start(q)
    BY <1>1 DEF Drop
  <2> HIDE DEF q
  <2> QED BY <1>0, <2>2, <2>3, StartMoves DEF Puts, Erases
<1>2. ASSUME NEW c \in DOMAIN calls, NEW f \in Upload, ToBucket(c, f) PROVE Goal
  <2>1. CASE Answer(c, FALSE)
    BY <1>0, <2>1, AnswerMoves
  <2>2. ASSUME NEW k \in Key \ past.used, Wait(c, [calls[c] EXCEPT !.pc = "putting", !.file = k]),
               past' = [past EXCEPT !.used = @ \cup {k}]
        PROVE  Goal
    <3> DEFINE q == [calls[c] EXCEPT !.pc = "putting", !.file = k]
    <3>1. CallOK(calls[c]) /\ calls[c].op = "upload"
      BY <1>0, <1>2 DEF CallsFit, ToBucket, At
    <3>2. CallOK(q) /\ q.pc = "putting" /\ q.file = k
      BY <3>1 DEF CallOK, Request, PC, File
    <3>3. k \in past'.used \ past.used
      BY <1>0, <2>2 DEF Past
    <3> HIDE DEF q
    <3> QED BY <1>0, <2>2, <3>2, <3>3, WaitMoves DEF q
  <2> QED BY <1>2, <2>1, <2>2 DEF ToBucket
<1>3. ASSUME NEW c \in DOMAIN calls, ToDrive(c) PROVE Goal
  <2>1. CASE Answer(c, FALSE)
    BY <1>0, <2>1, AnswerMoves
  <2>2. CASE grant # None /\ Wait(c, [calls[c] EXCEPT !.pc = IF grant.folder THEN "file" ELSE "folder", !.with = grant.refresh])
    <3> DEFINE place == IF grant.folder THEN "file" ELSE "folder"
               q == [calls[c] EXCEPT !.pc = place, !.with = grant.refresh]
    <3>1. CallOK(calls[c]) /\ calls[c].op = "upload"
      BY <1>0, <1>3 DEF CallsFit, ToDrive, At
    <3>2. place \in {"file", "folder"} /\ grant.refresh \in Consent
      BY <2>2 DEF TypeInv, GrantFits
    <3>3. Wait(c, q)
      BY <2>2
    <3> HIDE DEF place
    <3>4. CallOK(q) /\ q.pc = place
      BY <3>1, <3>2 DEF CallOK, Request, PC
    <3>5. grant' # None
      BY <1>3, <2>2 DEF ToDrive
    <3> HIDE DEF q
    <3> QED BY <1>0, <3>2, <3>3, <3>4, <3>5, WaitMoves DEF Puts, Erases
  <2> QED BY <1>3, <2>1, <2>2 DEF ToDrive
<1>4. ASSUME NEW c \in DOMAIN calls, PutObject(c) PROVE Goal
  <2> DEFINE q == [calls[c] EXCEPT !.pc = "put"]
  <2>1. CallOK(calls[c]) /\ calls[c].pc = "putting" /\ Wait(c, q)
    BY <1>0, <1>4 DEF CallsFit, PutObject
  <2>2. CallOK(q) /\ q.pc = "put" /\ q.file = calls[c].file
    BY <2>1 DEF CallOK, Request, PC
  <2> HIDE DEF q
  <2> QED BY <1>0, <1>4, <2>1, <2>2, WaitMoves
<1>5. ASSUME NEW c \in DOMAIN calls, RecordObject(c) \/ MakeFile(c) PROVE Goal
  <2>1. PICK f \in File : Record(c, f) /\ UNCHANGED <<logos, txs>> /\ calls[c].op = "upload"
    <3>1. ASSUME RecordObject(c) PROVE calls[c].file \in File
      BY <1>0, <3>1, FileIsKey DEF RecordObject, At
    <3> QED BY <1>5, <3>1, DriveFiles DEF RecordObject, MakeFile, At
  <2>2. PICK ok \in BOOLEAN : Answer(c, ok)
    BY <1>0, <2>1, RecordOK DEF TypeInv
  <2> QED BY <1>0, <2>2, AnswerMoves
<1>6. ASSUME NEW c \in DOMAIN calls, MakeFolder(c) PROVE Goal
  <2> DEFINE q == [calls[c] EXCEPT !.pc = "file"]
  <2>1. CallOK(calls[c]) /\ calls[c].pc = "folder" /\ Wait(c, q) /\ grant # None
    BY <1>0, <1>6 DEF CallsFit, MakeFolder, At, TypeInv, HasGrant
  <2>2. CallOK(q) /\ q.pc = "file"
    BY <2>1 DEF CallOK, Request, PC
  <2>3. grant' # None
    BY <2>1, GrantStep
  <2> HIDE DEF q
  <2> QED BY <1>0, <2>1, <2>2, <2>3, WaitMoves DEF Puts, Erases
<1>7. ASSUME NEW b \in Business, NEW f \in File, DeleteReceipt(b, f) PROVE Goal
  <2>1. CASE UNCHANGED calls
    BY <1>0, <2>1 DEF Still, CallsFit
  <2>2. CASE /\ f \in Key /\ Start([Blank("erase", b) EXCEPT !.pc = "erasing", !.file = f])
             /\ UNCHANGED <<receipts, links>>
    <3> DEFINE q == [Blank("erase", b) EXCEPT !.pc = "erasing", !.file = f]
    <3>1. CallOK(q) /\ q.pc = "erasing" /\ q.file = f /\ q.biz = b
      <4> DEFINE r == Blank("erase", b)
      <4>1. r \in Request /\ r.op = "erase" /\ r.biz = b /\ r.rest = 0
        BY BlankIsRequest
      <4> HIDE DEF r
      <4>2. LET p == [r EXCEPT !.pc = "erasing", !.file = f]
            IN  CallOK(p) /\ p.pc = "erasing" /\ p.file = f /\ p.biz = r.biz
        BY <2>2, <4>1, FreshOK
      <4> QED BY <4>1, <4>2 DEF r
    <3>2. f \in DOMAIN receipts \cap Key /\ receipts[f] = b
      BY <1>7, <2>2 DEF DeleteReceipt, HasReceipt
    <3>3. Start(q) /\ UNCHANGED receipts
      BY <2>2
    <3> HIDE DEF q
    <3> QED BY <1>0, <3>1, <3>2, <3>3, StartMoves
  <2> QED BY <1>7, <2>1, <2>2 DEF DeleteReceipt
<1>8. ASSUME NEW c \in DOMAIN calls, EraseObject(c) PROVE Goal
  <2> DEFINE q == [calls[c] EXCEPT !.pc = "erased"]
  <2>1. CallOK(calls[c]) /\ calls[c].pc = "erasing" /\ Wait(c, q) /\ UNCHANGED receipts
    BY <1>0, <1>8 DEF CallsFit, EraseObject, At, rows
  <2>2. CallOK(q) /\ q.pc = "erased" /\ q.file = calls[c].file /\ q.biz = calls[c].biz
    BY <2>1 DEF CallOK, Request, PC
  <2> HIDE DEF q
  <2> QED BY <1>0, <1>8, <2>1, <2>2, WaitMoves
<1>9. ASSUME NEW c \in DOMAIN calls, DeleteRow(c) \/ SetLogo(c) \/ Exchange(c) PROVE Goal
  <2>1. Answer(c, TRUE)
    BY <1>9 DEF DeleteRow, SetLogo, Exchange
  <2> QED BY <1>0, <2>1, AnswerMoves
<1>10. ASSUME NEW b \in Business, NEW f \in Upload, UploadLogo(b, f) PROVE Goal
  <2>1. PICK k \in Key \ past.used : /\ Start([Blank("logo", b) EXCEPT !.pc = "putting", !.file = k])
                                     /\ Counted([past EXCEPT !.used = @ \cup {k}])
    BY <1>10 DEF UploadLogo
  <2> DEFINE q == [Blank("logo", b) EXCEPT !.pc = "putting", !.file = k]
  <2>2. CallOK(q) /\ q.pc = "putting" /\ q.file = k
    <3> DEFINE r == Blank("logo", b)
    <3>1. r \in Request /\ r.op = "logo" /\ r.rest = 0
      BY BlankIsRequest
    <3> HIDE DEF r
    <3>2. LET p == [r EXCEPT !.pc = "putting", !.file = k]
          IN  CallOK(p) /\ p.pc = "putting" /\ p.file = k /\ p.biz = r.biz
      BY <3>1, FreshOK
    <3> QED BY <3>2 DEF r
  <2>3. k \in past'.used \ past.used
    <3>1. [past EXCEPT !.used = @ \cup {k}] \in Past
      BY <1>0 DEF Past
    <3> QED BY <1>0, <2>1, <3>1, CountedOK DEF Past
  <2>4. Start(q)
    BY <2>1
  <2> HIDE DEF q
  <2> QED BY <1>0, <2>2, <2>3, <2>4, StartMoves
<1>11. ASSUME Callback PROVE Goal
  <2>1. PICK b \in DOMAIN logos : Start([Blank("consent", b) EXCEPT !.pc = "token", !.with = past.consents + 1])
    BY <1>11 DEF Callback
  <2> DEFINE q == [Blank("consent", b) EXCEPT !.pc = "token", !.with = past.consents + 1]
  <2>2. past.consents + 1 \in Consent /\ b \in Business
    BY <1>0, <1>11, Bounds DEF Callback, Past, Consent, TypeInv, RowsFit
  <2>3. CallOK(q) /\ q.pc = "token"
    <3> DEFINE r == Blank("consent", b)
               w == past.consents + 1
    <3>1. r \in Request /\ r.op = "consent" /\ r.rest = 0
      BY <2>2, BlankIsRequest
    <3>2. q = [r EXCEPT !.pc = "token", !.with = w] /\ w \in Consent
      BY <2>2
    <3> HIDE DEF r, w, q
    <3>3. q \in Request /\ q.op = "consent" /\ q.pc = "token" /\ q.rest = 0 /\ q.with = w
      BY <3>1, <3>2 DEF Request, PC
    <3> QED BY <3>2, <3>3 DEF CallOK
  <2>4. Start(q)
    BY <2>1
  <2> HIDE DEF q
  <2> QED BY <1>0, <2>3, <2>4, StartMoves DEF Puts, Erases
<1>12. ASSUME NEW c \in DOMAIN calls, Fail(c) PROVE Goal
  <2>1. CASE calls[c].op # "erase"
    <3>1. Answer(c, FALSE)
      BY <1>12, <2>1 DEF Fail
    <3> QED BY <1>0, <3>1, AnswerMoves
  <2>2. CASE calls[c].op = "erase"
    <3> DEFINE q == [calls[c] EXCEPT !.pc = "erased"]
    <3>1. CallOK(calls[c]) /\ calls[c].pc = "erasing" /\ Wait(c, q) /\ UNCHANGED receipts
      BY <1>0, <1>12, <2>2 DEF CallsFit, Fail, rows
    <3>2. CallOK(q) /\ q.pc = "erased" /\ q.file = calls[c].file /\ q.biz = calls[c].biz
      BY <3>1 DEF CallOK, Request, PC
    <3>3. calls[c].file \in past'.spared
      <4>1. [past EXCEPT !.spared = @ \cup {calls[c].file}] \in Past
        BY <1>0, <3>1, FileIsKey DEF Past
      <4>2. Faulty([past EXCEPT !.spared = @ \cup {calls[c].file}])
        BY <1>12, <2>2 DEF Fail
      <4> QED BY <1>0, <4>1, <4>2, FaultyOK DEF Past
    <3> HIDE DEF q
    <3> QED BY <1>0, <3>1, <3>2, <3>3, WaitMoves
  <2> QED BY <2>1, <2>2
<1>13. ASSUME CallsFit', DOMAIN calls' = {} PROVE Goal
  BY <1>13
<1>14. UNCHANGED calls => Goal
  BY <1>0 DEF Still, CallsFit
<1> HIDE DEF Goal
<1>15. (Crash \/ \E b \in Business, f \in DriveFile : PickTaken(b, f)) => Goal
  <2>1. ASSUME NEW next \in Past, Die(next) PROVE Goal
    BY <1>13, <2>1, DieOK
  <2>2. Crash => [past EXCEPT !.faults = @ + 1] \in Past
    BY <1>0, Bounds DEF Crash, Past
  <2>3. ASSUME NEW b \in Business, NEW f \in DriveFile, PickTaken(b, f) PROVE Goal
    <3>1. [past EXCEPT !.sent = @ + 1] \in Past
      BY <1>0, <2>3, Bounds DEF PickTaken, Past
    <3> QED BY <1>14, <2>1, <2>3, <3>1 DEF PickTaken
  <2> QED BY <2>1, <2>2, <2>3 DEF Crash
<1>16. \/ UNCHANGED calls \/ Callback \/ Crash
       \/ \E b \in Business, t \in Transaction, n \in 1..MaxBatch : Drop(b, t, n)
       \/ \E b \in Business, f \in DriveFile : PickTaken(b, f)
       \/ \E b \in Business, f \in File : DeleteReceipt(b, f)
       \/ \E b \in Business, f \in Upload : UploadLogo(b, f)
       \/ \E c \in DOMAIN calls :
            \/ \E f \in Upload : ToBucket(c, f)
            \/ ToDrive(c) \/ PutObject(c) \/ RecordObject(c) \/ MakeFolder(c) \/ MakeFile(c)
            \/ EraseObject(c) \/ DeleteRow(c) \/ SetLogo(c) \/ Exchange(c) \/ Fail(c)
  BY Acts DEF Pick, Link, Unlink, DeleteTransaction, SetPreference, ClearLogo, DeleteBusiness, DeleteObject,
              FailDelete, Refresh
<1>17. Goal
  BY <1>1, <1>2, <1>3, <1>4, <1>5, <1>6, <1>7, <1>8, <1>9, <1>10, <1>11, <1>12, <1>14, <1>15, <1>16
<1> QED BY <1>17 DEF Goal

-----------------------------------------------------------------------------
(* Types. *)

LEMMA TypeInvInit == Init => TypeInv
<1> SUFFICES ASSUME Init PROVE TypeInv
  OBVIOUS
<1>1. RowsFit
  <2>1. logos = [b \in Business |-> None] /\ txs = Transaction /\ links = {} /\ receipts = [f \in {} |-> None]
    BY DEF Init
  <2> QED BY <2>1 DEF RowsFit
<1>2. pref \in Place \cup {None} /\ GrantFits /\ ObjectsFit
  BY DEF Init, GrantFits, ObjectsFit
<1>3. CallsFit /\ HasGrant
  <2>1. calls = [c \in {} |-> None]
    BY DEF Init
  <2> QED BY <2>1 DEF CallsFit, HasGrant
<1>4. past \in Past
  BY Bounds DEF Init, Past
<1> QED BY <1>1, <1>2, <1>3, <1>4 DEF TypeInv

LEMMA ObjectsStep ==
  ASSUME TypeInv, Next PROVE ObjectsFit' /\ pref' \in Place \cup {None}
<1>0. ObjectsFit /\ CallsFit /\ RowsFit /\ pref \in Place \cup {None}
  BY DEF TypeInv
<1>1. bucket' \in SUBSET Key
  <2>1. ASSUME NEW c \in DOMAIN calls, PutObject(c) PROVE bucket' \in SUBSET Key
    BY <1>0, <2>1, FileIsKey DEF PutObject, ObjectsFit
  <2>2. ASSUME NEW c \in DOMAIN calls, EraseObject(c) PROVE bucket' \in SUBSET Key
    BY <1>0, <2>2 DEF EraseObject, ObjectsFit
  <2>3. ASSUME NEW next, Die(next) PROVE bucket' \in SUBSET Key
    <3>1. \A c \in DOMAIN calls : calls[c].pc \in {"putting"} => calls[c].file \in Key
      BY <1>0, FileIsKey
    <3> QED BY <1>0, <2>3, <3>1 DEF Die, ObjectsFit
  <2>4. ASSUME NEW k \in Key, DeleteObject(k) PROVE bucket' \in SUBSET Key
    BY <1>0, <2>4 DEF DeleteObject, ObjectsFit
  <2>5. \/ UNCHANGED bucket \/ \E next : Die(next)
        \/ \E c \in DOMAIN calls : PutObject(c) \/ EraseObject(c)
        \/ \E k \in Key : DeleteObject(k)
    BY Acts DEF Drop, ToBucket, ToDrive, RecordObject, MakeFolder, MakeFile, Pick, PickTaken, DeleteReceipt, DeleteRow,
                Link, Unlink, DeleteTransaction, SetPreference, UploadLogo, SetLogo, ClearLogo, DeleteBusiness, Callback,
                Exchange, Refresh, Fail, FailDelete, Crash
  <2> QED BY <1>0, <2>1, <2>2, <2>3, <2>4, <2>5 DEF ObjectsFit
<1>2. drive' \in SUBSET DriveFile
  <2>1. UNCHANGED drive \/ \E c \in DOMAIN calls : MakeFile(c)
    BY Acts DEF Drop, ToBucket, ToDrive, RecordObject, MakeFolder, Pick, PickTaken, DeleteReceipt, DeleteRow, PutObject,
                Link, Unlink, DeleteTransaction, SetPreference, UploadLogo, SetLogo, ClearLogo, DeleteBusiness, Callback,
                Exchange, Refresh, Fail, FailDelete, Crash, Die, EraseObject, DeleteObject
  <2> QED BY <1>0, <2>1 DEF ObjectsFit, MakeFile
<1>3. deletes' \in SUBSET Key
  <2>1. ASSUME NEW c \in DOMAIN calls, SetLogo(c) PROVE deletes' \in SUBSET Key
    BY <1>0, <2>1 DEF SetLogo, RowsFit, ObjectsFit
  <2>2. ASSUME NEW b \in Business, ClearLogo(b) PROVE deletes' \in SUBSET Key
    BY <1>0, <2>2 DEF ClearLogo, RowsFit, ObjectsFit
  <2>3. ASSUME NEW b \in Business, DeleteBusiness(b) PROVE deletes' \in SUBSET Key
    BY <1>0, <2>3 DEF DeleteBusiness, ObjectsOf, RowsFit, ObjectsFit
  <2>4. \/ deletes' \subseteq deletes
        \/ \E c \in DOMAIN calls : SetLogo(c)
        \/ \E b \in Business : ClearLogo(b) \/ DeleteBusiness(b)
    BY Acts DEF Drop, ToBucket, ToDrive, RecordObject, MakeFolder, MakeFile, Pick, PickTaken, DeleteReceipt, DeleteRow,
                PutObject, Link, Unlink, DeleteTransaction, SetPreference, UploadLogo, Callback,
                Exchange, Refresh, Fail, FailDelete, Crash, Die, EraseObject, DeleteObject
  <2> QED BY <1>0, <2>1, <2>2, <2>3, <2>4 DEF ObjectsFit
<1>4. pref' \in Place \cup {None}
  <2>1. UNCHANGED pref \/ \E p \in Place : SetPreference(p)
    BY Acts DEF Drop, ToBucket, ToDrive, RecordObject, MakeFolder, MakeFile, Pick, PickTaken, DeleteReceipt, DeleteRow,
                PutObject, Link, Unlink, DeleteTransaction, UploadLogo, SetLogo, ClearLogo, DeleteBusiness, Callback,
                Exchange, Refresh, Fail, FailDelete, Crash, Die, EraseObject, DeleteObject
  <2> QED BY <1>0, <2>1 DEF SetPreference
<1> QED BY <1>1, <1>2, <1>3, <1>4 DEF ObjectsFit

LEMMA TypeInvNext ==
  ASSUME TypeInv, [Next]_vars PROVE TypeInv'
<1>1. CASE UNCHANGED vars
  BY <1>1 DEF vars, rows, TypeInv, RowsFit, GrantFits, ObjectsFit, CallsFit, HasGrant, CallOK
<1>2. CASE Next
  <2>1. RowsFit' /\ GrantFits' /\ past' \in Past /\ CallsFit' /\ ObjectsFit' /\ pref' \in Place \cup {None}
    BY <1>2, RowsType, GrantStep, PastStep, CallsStep, ObjectsStep
  <2>2. HasGrant'
    <3>1. ASSUME NEW c \in DOMAIN calls', Still(c), calls'[c].pc \in {"folder", "file"} PROVE grant' # None
      <4>1. grant # None
        BY <3>1 DEF Still, TypeInv, HasGrant
      <4> QED BY <1>2, <4>1, GrantStep
    <3> QED BY <1>2, <3>1, CallsStep DEF HasGrant, MovesOne
  <2> QED BY <2>1, <2>2 DEF TypeInv
<1> QED BY <1>1, <1>2

LEMMA Types == Spec => []TypeInv
<1>1. TypeInv /\ [Next]_vars => TypeInv'
  BY TypeInvNext
<1> QED BY TypeInvInit, <1>1, PTL DEF Spec

(* Every state of receipts, logos, objects, Drive tokens and requests in   *)
(* flight has the shape TypeOK names: a handler past its upload holds an   *)
(* object key, and keys and Drive files never stand in for each other.     *)
THEOREM TypeCorrect == Spec => []TypeOK
<1>1. TypeInv => TypeOK
  BY DEF TypeInv, RowsFit, GrantFits, ObjectsFit, CallsFit, TypeOK, Past
<1> QED BY Types, <1>1, PTL

(* A Drive connection keeps its refresh token, and only the callback of a  *)
(* consent replaces it: a request that was built with older tokens and     *)
(* gets a late access token merges it into the row as it is then           *)
(* (driveService.ts).                                                      *)
THEOREM ConsentStays == Spec => KeepsConsent
<1> DEFINE Keeps == grant # None =>
             /\ grant'.refresh # None
             /\ \/ grant'.refresh = grant.refresh
                \/ \E c \in DOMAIN calls : At(c, "consent", "token") /\ calls[c].with = grant'.refresh
                                           /\ c \notin DOMAIN calls'
<1>1. ASSUME TypeInv, [Next]_vars PROVE [Keeps]_vars
  <2> SUFFICES ASSUME Next PROVE Keeps
    BY <1>1
  <2>1. /\ GrantFits'
        /\ grant # None =>
             /\ grant' # None
             /\ \/ grant'.refresh = grant.refresh
                \/ \E c \in DOMAIN calls : At(c, "consent", "token") /\ calls[c].with = grant'.refresh
                                           /\ c \notin DOMAIN calls'
    BY <1>1, GrantStep
  <2>2. grant # None => grant'.refresh # None
    BY <2>1, GrantAssumption DEF GrantFits
  <2> QED BY <2>1, <2>2
<1> QED BY Types, <1>1, PTL DEF Spec, KeepsConsent

-----------------------------------------------------------------------------
(* Links. A new row never takes the place of one that is linked: an object *)
(* key is used once, and a file that is new in the Drive has no row.       *)

Putting(c) == calls[c].pc \in Puts

KeysInv ==
  /\ \A f \in DOMAIN receipts : f \in DriveFile => f \in drive
  /\ \A f \in DOMAIN receipts : f \in Key => f \in past.used
  /\ \A c \in DOMAIN calls : Putting(c) => calls[c].file \in past.used /\ calls[c].file \notin DOMAIN receipts
  /\ \A c, d \in DOMAIN calls : c # d /\ Putting(c) /\ Putting(d) => calls[c].file # calls[d].file

LinkInv == TypeInv /\ KeysInv /\ LinksStayInBusiness

(* What becomes of the table of receipts. *)
Kept(S) == \A f \in DOMAIN receipts' \ S : f \in DOMAIN receipts /\ receipts'[f] = receipts[f]

LEMMA DriveGrows == ASSUME TypeInv, Next PROVE drive \subseteq drive'
BY Acts DEF Drop, ToBucket, ToDrive, RecordObject, MakeFolder, MakeFile, Pick, PickTaken, DeleteReceipt, DeleteRow,
            PutObject, Link, Unlink, DeleteTransaction, SetPreference, UploadLogo, SetLogo, ClearLogo, DeleteBusiness,
            Callback, Exchange, Refresh, Fail, FailDelete, Crash, Die, EraseObject, DeleteObject

RowOfCall(c, f) ==
  /\ c \in DOMAIN calls
  /\ RecordObject(c) /\ f = calls[c].file /\ calls[c].pc = "put"
  /\ c \in DOMAIN calls' => calls'[c].pc = "next"

NewRow(f) ==
  /\ DOMAIN receipts' = DOMAIN receipts \cup {f} /\ Kept({f})
  /\ \/ f \in DriveFile /\ f \in drive'
     \/ \E c \in Call : RowOfCall(c, f)

LEMMA RecordedRow ==
  ASSUME LinkInv, NEW c \in DOMAIN calls, NEW f \in File, calls[c].op = "upload", Record(c, f),
         UNCHANGED <<logos, txs>>, f \notin DOMAIN receipts
  PROVE  /\ LinksStayInBusiness'
         /\ c \in DOMAIN calls' => calls'[c].pc = "next"
         /\ Kept({}) \/ (DOMAIN receipts' = DOMAIN receipts \cup {f} /\ Kept({f}))
<1>0. RowsFit /\ CallsFit
  BY DEF LinkInv, TypeInv
<1>1. c \in DOMAIN calls' => calls'[c].pc = "next"
  BY <1>0, RecordOK, AnswerOK
<1>2. CASE UNCHANGED <<receipts, links>>
  BY <1>1, <1>2 DEF LinkInv, LinksStayInBusiness, Kept
<1>3. CASE /\ DOMAIN receipts' = DOMAIN receipts \cup {f} /\ receipts'[f] = calls[c].biz
           /\ \A g \in DOMAIN receipts \ {f} : receipts'[g] = receipts[g]
           /\ \/ links' = links
              \/ /\ links' = links \cup {<<calls[c].tx, f>>}
                 /\ calls[c].tx \in txs /\ TxOf[calls[c].tx] = calls[c].biz
  <2>1. LinksStayInBusiness'
    BY <1>3 DEF LinkInv, LinksStayInBusiness
  <2> QED BY <1>1, <1>3, <2>1 DEF Kept
<1> QED BY <1>0, <1>2, <1>3, RecordOK

LEMMA RowsStep ==
  ASSUME LinkInv, Next
  PROVE  LinksStayInBusiness' /\ (Kept({}) \/ \E f \in File : NewRow(f))
<1> DEFINE Goal == LinksStayInBusiness' /\ (Kept({}) \/ \E f \in File : NewRow(f))
<1>0. RowsFit /\ CallsFit /\ DOMAIN calls \subseteq Call
  BY DEF LinkInv, TypeInv, CallsFit
<1>1. ASSUME NEW c \in DOMAIN calls, RecordObject(c) PROVE Goal
  <2> DEFINE f == calls[c].file
  <2>1. f \in File /\ f \notin DOMAIN receipts /\ calls[c].pc = "put" /\ calls[c].op = "upload" /\ Record(c, f)
    BY <1>0, <1>1, FileIsKey DEF RecordObject, At, LinkInv, KeysInv, Putting, Puts
  <2>2. /\ LinksStayInBusiness'
        /\ c \in DOMAIN calls' => calls'[c].pc = "next"
        /\ Kept({}) \/ (DOMAIN receipts' = DOMAIN receipts \cup {f} /\ Kept({f}))
    <3> HIDE DEF f
    <3> QED BY <1>1, <2>1, RecordedRow DEF RecordObject
  <2>3. RowOfCall(c, f) /\ c \in Call
    BY <1>0, <1>1, <2>1, <2>2 DEF RowOfCall
  <2> QED BY <2>1, <2>2, <2>3 DEF NewRow
<1>2. ASSUME NEW c \in DOMAIN calls, MakeFile(c) PROVE Goal
  <2>1. PICK f \in DriveFile \ drive : Record(c, f) /\ drive' = drive \cup {f}
    BY <1>2 DEF MakeFile
  <2>2. f \in File /\ f \notin DOMAIN receipts /\ calls[c].op = "upload" /\ UNCHANGED <<logos, txs>>
    BY <1>2, <2>1, DriveFiles DEF MakeFile, At, LinkInv, KeysInv
  <2>3. LinksStayInBusiness' /\ (Kept({}) \/ (DOMAIN receipts' = DOMAIN receipts \cup {f} /\ Kept({f})))
    BY <2>1, <2>2, RecordedRow
  <2> QED BY <2>1, <2>2, <2>3 DEF NewRow
<1>3. ASSUME NEW b \in Business, NEW f \in DriveFile, NEW t \in Transaction, Pick(b, f, t) PROVE Goal
  <2>1. /\ receipts' = With(receipts, f, b) /\ (f \in DOMAIN receipts => receipts[f] = b)
        /\ f \in drive /\ drive' = drive /\ txs' = txs
    BY <1>3 DEF Pick
  <2>2. /\ DOMAIN receipts' = DOMAIN receipts \cup {f} /\ receipts'[f] = b
        /\ \A g \in DOMAIN receipts : receipts'[g] = receipts[g]
    BY <2>1 DEF With
  <2>3. links' = links \/ (links' = links \cup {<<t, f>>} /\ t \in txs /\ TxOf[t] = b)
    BY <1>3 DEF Pick, HasTx
  <2>4. LinksStayInBusiness'
    BY <2>1, <2>2, <2>3 DEF LinkInv, LinksStayInBusiness
  <2> QED BY <2>1, <2>2, <2>4, DriveFiles DEF NewRow, Kept, LinkInv
<1>4. ASSUME NEW S, Forget(S), UNCHANGED <<logos, txs>> PROVE Goal
  <2>1. /\ DOMAIN receipts' = DOMAIN receipts \ S
        /\ \A g \in DOMAIN receipts' : receipts'[g] = receipts[g]
        /\ links' = {l \in links : l[2] \notin S}
    BY <1>0, <1>4, ForgetOK
  <2> QED BY <1>4, <2>1 DEF Kept, LinkInv, LinksStayInBusiness
<1>5. ASSUME NEW b \in Business, NEW t \in Transaction, NEW f \in File, Link(b, t, f) \/ Unlink(b, t, f) PROVE Goal
  BY <1>5 DEF Link, Unlink, HasTx, HasReceipt, Kept, LinkInv, LinksStayInBusiness
<1>6. ASSUME NEW t \in Transaction, DeleteTransaction(t) PROVE Goal
  BY <1>6 DEF DeleteTransaction, Kept, LinkInv, LinksStayInBusiness
<1>7. ASSUME NEW b \in Business, DeleteBusiness(b) PROVE Goal
  <2> DEFINE gone == {f \in DOMAIN receipts : receipts[f] = b}
  <2>1. /\ receipts' = Without(receipts, gone) /\ txs' = {t \in txs : TxOf[t] # b}
        /\ links' = {l \in links : l[2] \notin gone /\ TxOf[l[1]] # b}
    BY <1>7 DEF DeleteBusiness
  <2> HIDE DEF gone
  <2>2. DOMAIN receipts' = DOMAIN receipts \ gone /\ \A f \in DOMAIN receipts' : receipts'[f] = receipts[f]
    BY <2>1 DEF Without
  <2> QED BY <2>1, <2>2 DEF Kept, LinkInv, LinksStayInBusiness
<1>8. UNCHANGED <<txs, receipts, links>> => Goal
  BY DEF Kept, LinkInv, LinksStayInBusiness
<1> HIDE DEF Goal
<1>9. ASSUME NEW b \in Business, NEW f \in File, DeleteReceipt(b, f) PROVE Goal
  <2>1. (UNCHANGED <<receipts, links>> \/ Forget({f})) /\ UNCHANGED <<logos, txs>>
    BY <1>9 DEF DeleteReceipt
  <2> QED BY <1>4, <1>8, <2>1
<1>10. ASSUME NEW c \in DOMAIN calls, DeleteRow(c) PROVE Goal
  BY <1>4, <1>10 DEF DeleteRow
<1>11. \/ UNCHANGED <<txs, receipts, links>>
       \/ \E c \in DOMAIN calls : RecordObject(c) \/ MakeFile(c) \/ DeleteRow(c)
       \/ \E b \in Business, f \in DriveFile, t \in Transaction : Pick(b, f, t)
       \/ \E b \in Business, f \in File : DeleteReceipt(b, f)
       \/ \E b \in Business, t \in Transaction, f \in File : Link(b, t, f) \/ Unlink(b, t, f)
       \/ \E t \in Transaction : DeleteTransaction(t)
       \/ \E b \in Business : DeleteBusiness(b)
  BY Acts DEF Drop, ToBucket, ToDrive, PutObject, MakeFolder, PickTaken, Die, SetPreference, UploadLogo, Callback,
              Crash, EraseObject, Exchange, Refresh, Fail, DeleteObject, FailDelete, SetLogo, ClearLogo, rows
<1>12. Goal
  BY <1>1, <1>2, <1>3, <1>5, <1>6, <1>7, <1>8, <1>9, <1>10, <1>11
<1> QED BY <1>12 DEF Goal

LEMMA KeysStep ==
  ASSUME LinkInv, Next PROVE KeysInv'
<1>0. TypeInv /\ KeysInv /\ drive \subseteq drive' /\ past.used \subseteq past'.used
  BY DriveGrows, PastStep DEF LinkInv
<1>1. CallsFit /\ CallsFit' /\ ((\A c \in DOMAIN calls' : Still(c)) \/ \E c \in Call : MovesOne(c))
  BY <1>0, CallsStep DEF TypeInv
<1>2. Kept({}) \/ \E f \in File : NewRow(f)
  BY RowsStep
<1>3. ASSUME NEW f \in DOMAIN receipts', f \notin DOMAIN receipts
      PROVE  (f \in DriveFile /\ f \in drive') \/ \E c \in Call : RowOfCall(c, f)
  BY <1>2, <1>3 DEF Kept, NewRow
<1>4. ASSUME NEW c, NEW f, RowOfCall(c, f)
      PROVE  f \in Key /\ f \in past.used /\ f \notin DriveFile /\ Putting(c) /\ c \in DOMAIN calls /\ calls[c].file = f
  BY <1>0, <1>1, <1>4, FileIsKey, Bounds DEF RowOfCall, KeysInv, Putting, Puts
<1>5. \A f \in DOMAIN receipts' : (f \in DriveFile => f \in drive') /\ (f \in Key => f \in past.used)
  BY <1>0, <1>3, <1>4, Bounds DEF KeysInv
<1>6. ASSUME NEW d \in DOMAIN calls', calls'[d].pc \in Puts
      PROVE  \/ d \in DOMAIN calls /\ Putting(d) /\ calls'[d].file = calls[d].file /\ (Still(d) \/ UNCHANGED receipts)
             \/ calls'[d].file \in past'.used \ past.used
  BY <1>1, <1>6 DEF MovesOne, Moves, Still, Puts, Erases, Putting, PutObject, rows
<1>7. ASSUME NEW d \in DOMAIN calls', calls'[d].pc \in Puts
      PROVE  calls'[d].file \in past'.used /\ calls'[d].file \notin DOMAIN receipts'
  <2>1. CASE calls'[d].file \in past'.used \ past.used
    <3>1. calls'[d].file \in Key
      BY <1>1, <1>7 DEF CallsFit, CallOK, Puts
    <3> QED BY <1>5, <2>1, <3>1
  <2>2. CASE d \in DOMAIN calls /\ Putting(d) /\ calls'[d].file = calls[d].file /\ (Still(d) \/ UNCHANGED receipts)
    <3>1. calls[d].file \in past.used /\ calls[d].file \notin DOMAIN receipts /\ calls[d].file \in Key
      BY <1>0, <1>1, <2>2, FileIsKey DEF KeysInv, Putting, Puts
    <3>2. ASSUME calls[d].file \in DOMAIN receipts' PROVE FALSE
      <4>1. calls[d].file \notin DriveFile /\ Still(d)
        BY <2>2, <3>1, <3>2, Bounds
      <4>2. PICK c \in Call : RowOfCall(c, calls[d].file)
        BY <1>3, <3>1, <3>2, <4>1
      <4>3. c = d
        BY <1>0, <1>4, <2>2, <4>2 DEF KeysInv
      <4>4. calls'[d].pc = "next"
        BY <1>7, <4>2, <4>3 DEF RowOfCall
      <4> QED BY <1>7, <4>4 DEF Puts
    <3> QED BY <1>0, <2>2, <3>1, <3>2
  <2> QED BY <1>6, <1>7, <2>1, <2>2
<1>8. ASSUME NEW c \in DOMAIN calls', NEW d \in DOMAIN calls', c # d, calls'[c].pc \in Puts, calls'[d].pc \in Puts
      PROVE  calls'[c].file # calls'[d].file
  <2>1. Still(c) \/ Still(d)
    BY <1>1, <1>8 DEF MovesOne
  <2>2. ASSUME NEW x \in DOMAIN calls', NEW y \in DOMAIN calls', x # y, Still(x),
               calls'[x].pc \in Puts, calls'[y].pc \in Puts
        PROVE  calls'[x].file # calls'[y].file
    <3>1. x \in DOMAIN calls /\ Putting(x) /\ calls'[x].file = calls[x].file /\ calls[x].file \in past.used
      BY <1>0, <2>2 DEF Still, Putting, KeysInv
    <3>2. \/ y \in DOMAIN calls /\ Putting(y) /\ calls'[y].file = calls[y].file
          \/ calls'[y].file \in past'.used \ past.used
      BY <1>6, <2>2
    <3> QED BY <1>0, <2>2, <3>1, <3>2 DEF KeysInv
  <2> QED BY <1>8, <2>1, <2>2
<1> QED BY <1>0, <1>5, <1>7, <1>8 DEF KeysInv, Putting

(* A link joins a transaction and a receipt that are there and belong to   *)
(* one business: whichever deletion of a transaction, a receipt or a       *)
(* business falls between the steps of an upload (receipts.ts), its last   *)
(* step links to what is there then, and a new row takes no old one's key. *)
THEOREM LinksHold == Spec => []LinksStayInBusiness
<1>1. Init => LinkInv
  <2> SUFFICES ASSUME Init PROVE LinkInv
    OBVIOUS
  <2>1. KeysInv
    <3>1. receipts = [f \in {} |-> None] /\ calls = [c \in {} |-> None]
      BY DEF Init
    <3> QED BY <3>1 DEF KeysInv
  <2>2. LinksStayInBusiness
    BY DEF Init, LinksStayInBusiness
  <2> QED BY <2>1, <2>2, TypeInvInit DEF LinkInv
<1>2. LinkInv /\ [Next]_vars => LinkInv'
  <2>1. ASSUME LinkInv, UNCHANGED vars PROVE LinkInv'
    <3>1. TypeInv'
      BY <2>1, TypeInvNext DEF LinkInv
    <3>2. KeysInv' /\ LinksStayInBusiness'
      BY <2>1 DEF LinkInv, KeysInv, Putting, LinksStayInBusiness, vars, rows
    <3> QED BY <3>1, <3>2 DEF LinkInv
  <2>2. ASSUME LinkInv, Next PROVE LinkInv'
    <3>1. TypeInv'
      BY <2>2, TypeInvNext DEF LinkInv
    <3> QED BY <2>2, <3>1, KeysStep, RowsStep DEF LinkInv
  <2> QED BY <2>1, <2>2
<1>3. LinkInv => LinksStayInBusiness
  BY DEF LinkInv
<1> QED BY <1>1, <1>2, <1>3, PTL DEF Spec

-----------------------------------------------------------------------------
(***************************************************************************)
(* Proofs about the objects of Files, for every value of its constants: no *)
(* row names an object that is gone, and without a fault no object stays   *)
(* behind.                                                                 *)
(*                                                                         *)
(* An object key has one owner at a time: the handler that puts it, then a *)
(* logo or a receipt, then the deletions that nobody waits for. A request  *)
(* that deletes a receipt works on the key of a receipt that is, or was.   *)
(***************************************************************************)

IsLogo(k) == \E b \in DOMAIN logos : logos[b] = k
PutKey(k) == \E c \in DOMAIN calls : Putting(c) /\ calls[c].file = k
Erasing(c) == calls[c].pc \in Erases
ErasesKey(k) == \E c \in DOMAIN calls : Erasing(c) /\ calls[c].file = k

OneOwner(k) ==
  /\ IsLogo(k) => k \in past.used /\ k \notin DOMAIN receipts /\ k \notin deletes /\ ~PutKey(k)
  /\ k \in deletes => k \in past.used /\ k \notin DOMAIN receipts /\ ~PutKey(k)
  /\ ErasesKey(k) => k \in past.used /\ ~IsLogo(k) /\ ~PutKey(k)

LogosDiffer == \A b, c \in DOMAIN logos : b # c /\ logos[b] # None => logos[b] # logos[c]
EraseOwn == \A c \in DOMAIN calls :
  Erasing(c) /\ calls[c].file \in DOMAIN receipts => receipts[calls[c].file] = calls[c].biz

OwnInv == LinkInv /\ (\A k \in Key : OneOwner(k)) /\ LogosDiffer /\ EraseOwn

-----------------------------------------------------------------------------
(* What becomes of the handlers. *)

LEMMA NextKeeps == ASSUME LinkInv, Next PROVE TypeInv /\ CallsFit /\ RowsFit /\ CallsFit' /\ RowsFit' /\ LinkInv'
BY TypeInvNext, KeysStep, RowsStep DEF LinkInv, TypeInv

(* A process that ends, and a file of another business that does not end it. *)
LEMMA Dies ==
  ASSUME TypeInv, Crash \/ \E b \in Business, f \in DriveFile : PickTaken(b, f)
  PROVE  \/ \E next \in Past : Die(next) /\ next.used = past.used
         \/ UNCHANGED <<rows, bucket, calls, deletes>> /\ past'.used = past.used
<1>0. past \in Past
  BY DEF TypeInv
<1>1. CASE Crash
  <2> DEFINE next == [past EXCEPT !.faults = @ + 1]
  <2>1. next \in Past /\ next.used = past.used
    BY <1>0, <1>1, Bounds DEF Crash, Past
  <2>2. Die(next)
    BY <1>1 DEF Crash
  <2> HIDE DEF next
  <2> QED BY <2>1, <2>2
<1>2. ASSUME NEW b \in Business, NEW f \in DriveFile, PickTaken(b, f)
      PROVE  \/ \E next \in Past : Die(next) /\ next.used = past.used
             \/ UNCHANGED <<rows, bucket, calls, deletes>> /\ past'.used = past.used
  <2> DEFINE next == [past EXCEPT !.sent = @ + 1]
  <2>1. next \in Past /\ next.used = past.used
    BY <1>0, <1>2, Bounds DEF PickTaken, Past
  <2>2. Die(next) \/ (past' = next /\ UNCHANGED <<rows, bucket, calls, deletes>>)
    BY <1>2 DEF PickTaken
  <2> HIDE DEF next
  <2> QED BY <2>1, <2>2
<1> QED BY <1>1, <1>2

(* A handler goes on only by an action of its own, or dies. *)
LEMMA OthersStay ==
  ASSUME TypeInv, Next
  PROVE  \/ \E next \in Past : Die(next)
         \/ \A d \in DOMAIN calls : Still(d)
         \/ \E c \in DOMAIN calls : Handler(c) /\ \A d \in DOMAIN calls \ {c} : Still(d)
<1> DEFINE Goal == \/ \E next \in Past : Die(next)
                   \/ \A d \in DOMAIN calls : Still(d)
                   \/ \E c \in DOMAIN calls : Handler(c) /\ \A d \in DOMAIN calls \ {c} : Still(d)
<1>0. CallsFit /\ past \in Past
  BY DEF TypeInv
<1>1. UNCHANGED calls => Goal
  BY DEF Still
<1>2. ASSUME NEW q, Start(q) PROVE Goal
  <2>1. PICK c \in Call \ DOMAIN calls : calls' = With(calls, c, q)
    BY <1>2 DEF Start
  <2> QED BY <2>1 DEF With, Still
<1>3. ASSUME NEW c \in DOMAIN calls, NEW q, Wait(c, q), Handler(c) PROVE Goal
  <2>1. calls' = [calls EXCEPT ![c] = q]
    BY <1>3 DEF Wait
  <2> QED BY <1>3, <2>1 DEF Still
<1>4. ASSUME NEW c \in DOMAIN calls, NEW ok \in BOOLEAN, Answer(c, ok), Handler(c) PROVE Goal
  <2>1. \A d \in DOMAIN calls \ {c} : Still(d)
    BY <1>0, <1>4, AnswerOK DEF Still
  <2> QED BY <1>4, <2>1
<1>5. ASSUME NEW c \in DOMAIN calls, RecordObject(c) \/ MakeFile(c) PROVE Goal
  <2>1. PICK f \in File : Record(c, f) /\ UNCHANGED <<logos, txs>> /\ calls[c].op = "upload"
    <3>1. ASSUME RecordObject(c) PROVE calls[c].file \in File
      BY <1>0, <3>1, FileIsKey DEF RecordObject, At
    <3> QED BY <1>5, <3>1, DriveFiles DEF RecordObject, MakeFile, At
  <2>2. PICK ok \in BOOLEAN : Answer(c, ok)
    BY <1>0, <2>1, RecordOK DEF TypeInv
  <2> QED BY <1>4, <1>5, <2>2 DEF Handler
<1>6. ASSUME NEW c \in DOMAIN calls, NEW f \in Upload, ToBucket(c, f) PROVE Goal
  <2>1. (\E q : Wait(c, q)) \/ Answer(c, FALSE)
    BY <1>6 DEF ToBucket
  <2> QED BY <1>3, <1>4, <1>6, <2>1 DEF Handler
<1>7. ASSUME NEW c \in DOMAIN calls,
             ToDrive(c) \/ PutObject(c) \/ MakeFolder(c) \/ EraseObject(c) \/ DeleteRow(c) \/ SetLogo(c)
             \/ Exchange(c) \/ Fail(c)
      PROVE  Goal
  <2>1. (\E q : Wait(c, q)) \/ Answer(c, FALSE) \/ Answer(c, TRUE)
    BY <1>7 DEF ToDrive, PutObject, MakeFolder, EraseObject, DeleteRow, SetLogo, Exchange, Fail
  <2>2. Handler(c)
    BY <1>7 DEF Handler
  <2> QED BY <1>3, <1>4, <2>1, <2>2
<1>8. (Crash \/ \E b \in Business, f \in DriveFile : PickTaken(b, f)) => Goal
  <2>1. ASSUME NEW next \in Past, Die(next) PROVE Goal
    BY <2>1
  <2> HIDE DEF Goal
  <2> QED BY <1>1, <2>1, Dies
<1>9. ASSUME Callback \/ (\E b \in Business, t \in Transaction, n \in 1..MaxBatch : Drop(b, t, n))
             \/ (\E b \in Business, f \in File : DeleteReceipt(b, f)) \/ \E b \in Business, f \in Upload : UploadLogo(b, f)
      PROVE  Goal
  <2>1. UNCHANGED calls \/ \E q : Start(q)
    BY <1>9 DEF Drop, DeleteReceipt, UploadLogo, Callback
  <2> HIDE DEF Goal
  <2> QED BY <1>1, <1>2, <2>1
<1>10. \/ UNCHANGED calls \/ Crash \/ Callback
       \/ \E b \in Business, t \in Transaction, n \in 1..MaxBatch : Drop(b, t, n)
       \/ \E b \in Business, f \in File : DeleteReceipt(b, f)
       \/ \E b \in Business, f \in Upload : UploadLogo(b, f)
       \/ \E b \in Business, f \in DriveFile : PickTaken(b, f)
       \/ \E c \in DOMAIN calls :
            \/ \E f \in Upload : ToBucket(c, f)
            \/ ToDrive(c) \/ PutObject(c) \/ RecordObject(c) \/ MakeFolder(c) \/ MakeFile(c)
            \/ EraseObject(c) \/ DeleteRow(c) \/ SetLogo(c) \/ Exchange(c) \/ Fail(c)
  BY Acts DEF Pick, Link, Unlink, DeleteTransaction, SetPreference, ClearLogo, DeleteBusiness, DeleteObject, FailDelete,
              Refresh
<1> HIDE DEF Goal
<1>11. Goal
  BY <1>1, <1>5, <1>6, <1>7, <1>8, <1>9, <1>10
<1> QED BY <1>11 DEF Goal

(* Where a handler that puts or deletes an object comes from. *)
LEMMA PutsFrom ==
  ASSUME TypeInv, Next, NEW d \in DOMAIN calls', calls'[d].pc \in Puts
  PROVE  \/ d \in DOMAIN calls /\ Putting(d) /\ calls'[d].file = calls[d].file
         \/ calls'[d].file \in past'.used \ past.used
BY CallsStep DEF MovesOne, Moves, Still, Puts, Erases, Putting

LEMMA ErasesFrom ==
  ASSUME TypeInv, Next, NEW d \in DOMAIN calls', calls'[d].pc \in Erases
  PROVE  \/ d \in DOMAIN calls /\ Erasing(d) /\ calls'[d].file = calls[d].file /\ calls'[d].biz = calls[d].biz
         \/ /\ calls'[d].file \in DOMAIN receipts \cap Key
            /\ receipts[calls'[d].file] = calls'[d].biz /\ UNCHANGED receipts
BY CallsStep DEF MovesOne, Moves, Still, Puts, Erases, Erasing

LEMMA PutsGo ==
  ASSUME TypeInv, Next, NEW c \in DOMAIN calls, Putting(c)
  PROVE  \/ Still(c) \/ calls[c].file \in past'.spared
         \/ PutObject(c) \/ RecordObject(c) \/ SetLogo(c) \/ Fail(c)
<1>1. CASE \E next \in Past : Die(next)
  BY <1>1, DieOK DEF Putting, Puts
<1>2. CASE Handler(c)
  BY <1>2 DEF Handler, ToBucket, ToDrive, MakeFolder, MakeFile, EraseObject, DeleteRow, Exchange, Refresh, At, Putting, Puts
<1> QED BY <1>1, <1>2, OthersStay

LEMMA ErasedGoes ==
  ASSUME TypeInv, Next, NEW c \in DOMAIN calls, calls[c].pc = "erased"
  PROVE  Still(c) \/ calls[c].file \in past'.cut \/ DeleteRow(c)
<1>1. CASE \E next \in Past : Die(next)
  BY <1>1, DieOK
<1>2. CASE Handler(c)
  <2>1. calls[c].op = "erase"
    BY DEF TypeInv, CallsFit, CallOK
  <2> QED BY <1>2, <2>1 DEF Handler, ToBucket, ToDrive, PutObject, RecordObject, MakeFolder, MakeFile, EraseObject, SetLogo, Exchange, Refresh, Fail, At
<1> QED BY <1>1, <1>2, OthersStay
-----------------------------------------------------------------------------
(* The keys of receipts, logos and deletions. *)

LEMMA KeyRows ==
  ASSUME LinkInv, Next, NEW k \in Key, k \in DOMAIN receipts'
  PROVE  \/ k \in DOMAIN receipts /\ receipts'[k] = receipts[k]
         \/ k \notin DOMAIN receipts /\ \E c \in DOMAIN calls : RowOfCall(c, k) /\ Putting(c) /\ calls[c].file = k
<1>1. k \notin DriveFile
  BY Bounds
<1>2. ASSUME NEW c \in Call, RowOfCall(c, k) PROVE c \in DOMAIN calls /\ Putting(c) /\ calls[c].file = k /\ k \notin DOMAIN receipts
  BY <1>2 DEF RowOfCall, Putting, Puts, LinkInv, KeysInv
<1> QED BY <1>1, <1>2, RowsStep DEF Kept, NewRow

LogoOfCall(c, k) ==
  /\ SetLogo(c) /\ Putting(c) /\ calls[c].file = k
  /\ c \in DOMAIN calls' => calls'[c].pc = "next"

LEMMA LogoCall ==
  ASSUME CallsFit, NEW c \in DOMAIN calls, SetLogo(c) PROVE LogoOfCall(c, calls[c].file)
<1>1. Answer(c, TRUE) /\ Putting(c)
  BY DEF SetLogo, At, Putting, Puts
<1> QED BY <1>1, AnswerOK DEF LogoOfCall

\* Which rows of logos change, and what is discarded then.
LogoChange(b, k) ==
  /\ DOMAIN logos' = DOMAIN logos /\ b \in DOMAIN logos /\ logos'[b] = k
  /\ \A d \in DOMAIN logos \ {b} : logos'[d] = logos[d]
  /\ deletes' = deletes \cup ({logos[b]} \ {None})

LEMMA LogosStep ==
  ASSUME OwnInv, Next
  PROVE  \/ UNCHANGED logos /\ deletes' \subseteq deletes
         \/ \E b \in Business, c \in DOMAIN calls : LogoOfCall(c, calls[c].file) /\ LogoChange(b, calls[c].file)
         \/ \E b \in Business : LogoChange(b, None)
         \/ \E b \in Business :
              /\ DeleteBusiness(b) /\ DOMAIN logos' = DOMAIN logos \ {b}
              /\ \A d \in DOMAIN logos' : logos'[d] = logos[d]
<1>0. CallsFit /\ RowsFit
  BY NextKeeps DEF OwnInv
<1>1. ASSUME NEW c \in DOMAIN calls, SetLogo(c)
      PROVE  \/ UNCHANGED logos /\ deletes' \subseteq deletes
             \/ \E b \in Business : LogoOfCall(c, calls[c].file) /\ LogoChange(b, calls[c].file)
  <2> DEFINE b == calls[c].biz
  <2>1. CASE b \notin DOMAIN logos
    BY <1>1, <2>1 DEF SetLogo
  <2>2. CASE b \in DOMAIN logos
    <3>1. logos' = [logos EXCEPT ![b] = calls[c].file] /\ deletes' = deletes \cup ({logos[b]} \ {None})
      BY <1>1, <2>2 DEF SetLogo
    <3>2. LogoChange(b, calls[c].file) /\ b \in Business
      BY <1>0, <2>2, <3>1 DEF LogoChange, RowsFit
    <3> QED BY <1>0, <1>1, <3>2, LogoCall
  <2> QED BY <2>1, <2>2
<1>2. ASSUME NEW b \in Business, ClearLogo(b) PROVE LogoChange(b, None)
  BY <1>0, <1>2 DEF ClearLogo, LogoChange, RowsFit
<1>3. ASSUME NEW b \in Business, DeleteBusiness(b)
      PROVE  DOMAIN logos' = DOMAIN logos \ {b} /\ \A d \in DOMAIN logos' : logos'[d] = logos[d]
  <2>1. logos' = Without(logos, {b})
    BY <1>3 DEF DeleteBusiness
  <2> QED BY <2>1 DEF Without
<1>4. \/ UNCHANGED logos /\ deletes' \subseteq deletes
      \/ \E c \in DOMAIN calls : SetLogo(c)
      \/ \E b \in Business : ClearLogo(b) \/ DeleteBusiness(b)
  BY Acts DEF Drop, ToBucket, ToDrive, RecordObject, MakeFolder, MakeFile, Pick, PickTaken, DeleteReceipt, DeleteRow,
              PutObject, Link, Unlink, DeleteTransaction, SetPreference, UploadLogo, Callback,
              Exchange, Refresh, Fail, FailDelete, Crash, Die, EraseObject, DeleteObject, rows
<1> QED BY <1>1, <1>2, <1>3, <1>4

(* A key is a logo because it was one, or because its handler has put it. *)
LEMMA LogoFrom ==
  ASSUME OwnInv, Next
  PROVE  /\ LogosDiffer'
         /\ \A k \in Key : IsLogo(k)' => IsLogo(k) \/ \E c \in DOMAIN calls : LogoOfCall(c, k)
<1>1. ASSUME NEW b, NEW c \in DOMAIN calls, LogoOfCall(c, calls[c].file), LogoChange(b, calls[c].file)
      PROVE  /\ LogosDiffer'
             /\ \A k \in Key : IsLogo(k)' => IsLogo(k) \/ \E d \in DOMAIN calls : LogoOfCall(d, k)
  <2>1. calls[c].file \in Key /\ PutKey(calls[c].file)
    BY <1>1, FileIsKey, NextKeeps DEF LogoOfCall, Putting, Puts, PutKey, OwnInv
  <2>2. ~IsLogo(calls[c].file)
    BY <2>1 DEF OwnInv, OneOwner
  <2>3. LogosDiffer'
    BY <1>1, <2>2 DEF LogoChange, IsLogo, OwnInv, LogosDiffer
  <2>4. \A k \in Key : IsLogo(k)' => IsLogo(k) \/ k = calls[c].file
    BY <1>1 DEF LogoChange, IsLogo
  <2> QED BY <1>1, <2>3, <2>4
<1>2. ASSUME NEW b, LogoChange(b, None) PROVE LogosDiffer' /\ \A k \in Key : IsLogo(k)' => IsLogo(k)
  BY <1>2, Bounds DEF LogoChange, IsLogo, OwnInv, LogosDiffer
<1>3. ASSUME NEW b, DOMAIN logos' = DOMAIN logos \ {b}, \A d \in DOMAIN logos' : logos'[d] = logos[d]
      PROVE  LogosDiffer' /\ \A k \in Key : IsLogo(k)' => IsLogo(k)
  BY <1>3 DEF IsLogo, OwnInv, LogosDiffer
<1>4. UNCHANGED logos => LogosDiffer' /\ \A k \in Key : IsLogo(k)' => IsLogo(k)
  BY DEF IsLogo, OwnInv, LogosDiffer
<1> QED BY <1>1, <1>2, <1>3, <1>4, LogosStep

(* What is discarded is no logo and no receipt any more. *)
LEMMA Discarded ==
  ASSUME OwnInv, Next, NEW k \in Key, k \in deletes' \ deletes
  PROVE  k \in past.used /\ ~IsLogo(k)' /\ k \notin DOMAIN receipts' /\ ~PutKey(k)
<1>1. ASSUME NEW b, NEW f, LogoChange(b, f), f = None \/ (f \in Key /\ ~IsLogo(f))
      PROVE  k \in past.used /\ ~IsLogo(k)' /\ k \notin DOMAIN receipts' /\ ~PutKey(k)
  <2>1. k = logos[b] /\ b \in DOMAIN logos /\ k # None
    BY <1>1 DEF LogoChange
  <2>2. IsLogo(k)
    BY <2>1 DEF IsLogo
  <2>3. k \in past.used /\ k \notin DOMAIN receipts /\ ~PutKey(k)
    BY <2>2 DEF OwnInv, OneOwner
  <2>4. k \notin DOMAIN receipts'
    BY <2>3, KeyRows DEF OwnInv, PutKey
  <2>5. ~IsLogo(k)'
    BY <1>1, <2>1, <2>2 DEF LogoChange, IsLogo, OwnInv, LogosDiffer
  <2> QED BY <2>3, <2>4, <2>5
<1>2. ASSUME NEW b \in Business, DeleteBusiness(b), DOMAIN logos' = DOMAIN logos \ {b},
             \A d \in DOMAIN logos' : logos'[d] = logos[d]
      PROVE  k \in past.used /\ ~IsLogo(k)' /\ k \notin DOMAIN receipts' /\ ~PutKey(k)
  <2>1. k \in ObjectsOf(b) /\ b \in DOMAIN logos
    BY <1>2 DEF DeleteBusiness
  <2>2. CASE k = logos[b]
    <3>1. IsLogo(k) /\ k # None
      BY <2>1, <2>2, Bounds DEF IsLogo
    <3>2. k \in past.used /\ k \notin DOMAIN receipts /\ ~PutKey(k)
      BY <3>1 DEF OwnInv, OneOwner
    <3>3. k \notin DOMAIN receipts'
      BY <3>2, KeyRows DEF OwnInv, PutKey
    <3>4. ~IsLogo(k)'
      BY <1>2, <2>1, <2>2, <3>1 DEF IsLogo, OwnInv, LogosDiffer
    <3> QED BY <3>2, <3>3, <3>4
  <2>3. CASE k \in DOMAIN receipts /\ receipts[k] = b
    <3> DEFINE gone == {f \in DOMAIN receipts : receipts[f] = b}
    <3>1. receipts' = Without(receipts, gone) /\ k \in gone
      BY <1>2, <2>3 DEF DeleteBusiness
    <3> HIDE DEF gone
    <3>2. k \notin DOMAIN receipts'
      BY <3>1 DEF Without
    <3>3. k \in past.used /\ ~IsLogo(k) /\ ~PutKey(k)
      BY <2>3 DEF OwnInv, OneOwner, LinkInv, KeysInv, PutKey
    <3>4. ~IsLogo(k)'
      BY <1>2, <3>3 DEF IsLogo
    <3> QED BY <3>2, <3>3, <3>4
  <2> QED BY <2>1, <2>2, <2>3 DEF ObjectsOf
<1>3. ASSUME NEW c \in DOMAIN calls, LogoOfCall(c, calls[c].file)
      PROVE  calls[c].file \in Key /\ ~IsLogo(calls[c].file)
  <2>1. calls[c].file \in Key /\ PutKey(calls[c].file)
    BY <1>3, FileIsKey, NextKeeps DEF LogoOfCall, Putting, Puts, PutKey, OwnInv
  <2> QED BY <2>1 DEF OwnInv, OneOwner
<1> QED BY <1>1, <1>2, <1>3, LogosStep

(* Every key has one owner. *)
LEMMA OwnStep == ASSUME OwnInv, Next PROVE OwnInv'
<1>0. LinkInv /\ LinkInv' /\ TypeInv /\ KeysInv /\ CallsFit /\ past.used \subseteq past'.used
  BY NextKeeps, PastStep DEF OwnInv, LinkInv
<1>1. ASSUME NEW k \in Key PROVE OneOwner(k)'
  <2>0. OneOwner(k)
    BY DEF OwnInv
  <2>1. PutKey(k) => k \in past.used /\ k \notin DOMAIN receipts /\ k \notin deletes
    BY <1>0, <2>0 DEF KeysInv, PutKey, OneOwner
  <2>2. PutKey(k)' => PutKey(k) \/ k \notin past.used
    BY <1>0, PutsFrom DEF PutKey, Putting
  <2>4. k \in DOMAIN receipts' => k \in DOMAIN receipts \/ PutKey(k)
    BY <1>0, KeyRows DEF PutKey
  <2>5. ASSUME NEW c \in DOMAIN calls, LogoOfCall(c, k)
        PROVE  k \notin DOMAIN receipts' /\ ~PutKey(k)'
    <3>1. PutKey(k) /\ Putting(c) /\ calls[c].file = k
      BY <2>5 DEF LogoOfCall, PutKey
    <3>2. \A d \in DOMAIN calls : Putting(d) /\ calls[d].file = k => d = c
      BY <1>0, <3>1 DEF KeysInv
    <3>3. ~RecordObject(c)
      BY <2>5 DEF LogoOfCall, SetLogo, RecordObject, At
    <3>4. k \notin DOMAIN receipts'
      BY <1>0, <2>1, <3>1, <3>2, <3>3, KeyRows DEF RowOfCall
    <3>5. ~PutKey(k)'
      <4>1. ASSUME NEW d \in DOMAIN calls', calls'[d].pc \in Puts, calls'[d].file = k PROVE FALSE
        <5>1. d = c
          BY <1>0, <2>1, <3>1, <3>2, <4>1, PutsFrom
        <5> QED BY <2>5, <4>1, <5>1 DEF LogoOfCall, Puts
      <4> QED BY <4>1 DEF PutKey, Putting
    <3> QED BY <3>4, <3>5
  <2>6. ASSUME IsLogo(k)'
        PROVE  k \in past'.used /\ k \notin DOMAIN receipts' /\ k \notin deletes' /\ ~PutKey(k)'
    <3>1. IsLogo(k) \/ \E c \in DOMAIN calls : LogoOfCall(c, k)
      BY <2>6, LogoFrom
    <3>2. k \in past.used /\ k \notin deletes
      <4>1. ASSUME NEW c \in DOMAIN calls, LogoOfCall(c, k) PROVE PutKey(k)
        BY <4>1 DEF LogoOfCall, PutKey
      <4> QED BY <2>0, <2>1, <3>1, <4>1 DEF OneOwner
    <3>3. k \notin deletes'
      BY <2>6, <3>2, Discarded
    <3>4. k \notin DOMAIN receipts' /\ ~PutKey(k)'
      BY <2>0, <2>2, <2>4, <2>5, <3>1 DEF OneOwner
    <3> QED BY <1>0, <3>2, <3>3, <3>4
  <2>7. ASSUME k \in deletes' PROVE k \in past'.used /\ k \notin DOMAIN receipts' /\ ~PutKey(k)'
    <3>1. CASE k \in deletes
      BY <1>0, <2>0, <2>2, <2>4, <3>1 DEF OneOwner
    <3>2. CASE k \notin deletes
      BY <1>0, <2>2, <2>7, <3>2, Discarded
    <3> QED BY <3>1, <3>2
  <2>8. ASSUME ErasesKey(k)' PROVE k \in past'.used /\ ~IsLogo(k)' /\ ~PutKey(k)'
    <3>1. ErasesKey(k) \/ k \in DOMAIN receipts
      BY <1>0, <2>8, ErasesFrom DEF ErasesKey, Erasing
    <3>2. k \in past.used /\ ~IsLogo(k) /\ ~PutKey(k)
      BY <1>0, <2>0, <2>1, <3>1 DEF OneOwner, KeysInv
    <3>3. ~IsLogo(k)'
      BY <3>2, LogoFrom DEF LogoOfCall, PutKey
    <3> QED BY <1>0, <2>2, <3>2, <3>3
  <2> QED BY <2>6, <2>7, <2>8 DEF OneOwner
<1>2. LogosDiffer'
  BY LogoFrom
<1>3. ASSUME NEW c \in DOMAIN calls', calls'[c].pc \in Erases, calls'[c].file \in DOMAIN receipts'
      PROVE  receipts'[calls'[c].file] = calls'[c].biz
  <2> DEFINE k == calls'[c].file
  <2>1. k \in Key
    BY <1>0, <1>3, NextKeeps DEF CallsFit, CallOK, Erases
  <2>2. CASE c \in DOMAIN calls /\ Erasing(c) /\ k = calls[c].file /\ calls'[c].biz = calls[c].biz
    <3>1. ErasesKey(k)
      BY <2>2 DEF ErasesKey
    <3>2. ~PutKey(k)
      BY <2>1, <3>1 DEF OwnInv, OneOwner
    <3>3. k \in DOMAIN receipts /\ receipts'[k] = receipts[k]
      <4> HIDE DEF k
      <4>1. k \in DOMAIN receipts'
        BY <1>3 DEF k
      <4> QED BY <1>0, <2>1, <3>2, <4>1, KeyRows DEF PutKey
    <3> QED BY <2>2, <3>3 DEF OwnInv, EraseOwn
  <2>3. CASE k \in DOMAIN receipts \cap Key /\ receipts[k] = calls'[c].biz /\ UNCHANGED receipts
    BY <2>3
  <2> QED BY <1>0, <1>3, <2>2, <2>3, ErasesFrom
<1> QED BY <1>0, <1>1, <1>2, <1>3 DEF OwnInv, EraseOwn, Erasing
-----------------------------------------------------------------------------
(* The objects. *)

LEMMA BucketStep ==
  ASSUME TypeInv, Next, NEW k \in Key
  PROVE  /\ k \in bucket' /\ k \notin bucket =>
              \E c \in DOMAIN calls : Putting(c) /\ calls[c].file = k /\ (PutObject(c) \/ k \in past'.spared)
         /\ k \in bucket /\ k \notin bucket' =>
              k \in deletes \/ \E c \in DOMAIN calls : EraseObject(c) /\ calls[c].file = k
<1>0. CallsFit /\ past \in Past
  BY DEF TypeInv
<1>1. ASSUME NEW next \in Past, Die(next) PROVE bucket \subseteq bucket' /\ (k \in bucket' /\ k \notin bucket =>
         \E c \in DOMAIN calls : Putting(c) /\ calls[c].file = k /\ k \in past'.spared)
  BY <1>1, DieOK DEF Putting, Puts
<1>2. ASSUME NEW c \in DOMAIN calls, PutObject(c) PROVE bucket' = bucket \cup {calls[c].file} /\ Putting(c)
  BY <1>2 DEF PutObject, Putting, Puts
<1>3. ASSUME NEW c \in DOMAIN calls, EraseObject(c) PROVE bucket' = bucket \ {calls[c].file}
  BY <1>3 DEF EraseObject
<1>4. ASSUME NEW j \in Key, DeleteObject(j) PROVE bucket' = bucket \ {j} /\ j \in deletes
  BY <1>4 DEF DeleteObject
<1>5. (Crash \/ \E b \in Business, f \in DriveFile : PickTaken(b, f)) =>
        UNCHANGED bucket \/ \E next \in Past : Die(next)
  BY Dies
<1>6. \/ UNCHANGED bucket \/ Crash
      \/ \E b \in Business, f \in DriveFile : PickTaken(b, f)
      \/ \E c \in DOMAIN calls : PutObject(c) \/ EraseObject(c)
      \/ \E j \in Key : DeleteObject(j)
  BY Acts DEF Drop, ToBucket, ToDrive, RecordObject, MakeFolder, MakeFile, Pick, DeleteReceipt, DeleteRow,
              Link, Unlink, DeleteTransaction, SetPreference, UploadLogo, SetLogo, ClearLogo, DeleteBusiness, Callback,
              Exchange, Refresh, Fail, FailDelete
<1> QED BY <1>1, <1>2, <1>3, <1>4, <1>5, <1>6

(* An object that a logo, a receipt without a deletion under way, or a     *)
(* handler that has put it stands for is not deleted.                      *)
LEMMA ObjectStays ==
  ASSUME OwnInv, Next, NEW k \in Key, k \in bucket, k \notin bucket'
  PROVE  ~IsLogo(k) /\ ~PutKey(k) /\ (k \in DOMAIN receipts => \E c \in DOMAIN calls : EraseObject(c) /\ calls[c].file = k)
<1>1. TypeInv /\ OneOwner(k)
  BY DEF OwnInv, LinkInv
<1>2. CASE k \in deletes
  BY <1>1, <1>2 DEF OneOwner
<1>3. ASSUME NEW c \in DOMAIN calls, EraseObject(c), calls[c].file = k
      PROVE  ~IsLogo(k) /\ ~PutKey(k)
  <2>1. ErasesKey(k)
    BY <1>3 DEF EraseObject, At, ErasesKey, Erasing, Erases
  <2> QED BY <1>1, <2>1 DEF OneOwner
<1> QED BY <1>1, <1>2, <1>3, BucketStep

Erased(k) == \E c \in DOMAIN calls : calls[c].pc = "erased" /\ calls[c].file = k

StoredInv ==
  /\ \A k \in Key : IsLogo(k) => k \in bucket
  /\ \A c \in DOMAIN calls : calls[c].pc = "put" => calls[c].file \in bucket
  /\ \A k \in Key : k \in DOMAIN receipts => k \in bucket \/ k \in past.cut \/ Erased(k)

LEMMA StoredStep == ASSUME OwnInv, StoredInv, Next PROVE StoredInv'
<1>0. LinkInv /\ TypeInv /\ CallsFit /\ CallsFit' /\ past.cut \subseteq past'.cut
  BY NextKeeps, PastStep DEF OwnInv
<1>1. ASSUME NEW k \in Key, NEW c \in DOMAIN calls, calls[c].pc = "put", calls[c].file = k PROVE k \in bucket'
  <2>1. k \in bucket /\ PutKey(k)
    BY <1>1 DEF StoredInv, PutKey, Putting, Puts
  <2> QED BY <2>1, ObjectStays
<1>2. ASSUME NEW k \in Key, IsLogo(k)' PROVE k \in bucket'
  <2>1. CASE IsLogo(k)
    BY <2>1, ObjectStays DEF StoredInv
  <2>2. CASE \E c \in DOMAIN calls : LogoOfCall(c, k)
    BY <1>1, <2>2 DEF LogoOfCall, SetLogo, At
  <2> QED BY <1>2, <2>1, <2>2, LogoFrom
<1>3. ASSUME NEW c \in DOMAIN calls', calls'[c].pc = "put" PROVE calls'[c].file \in bucket'
  <2>1. \/ c \in DOMAIN calls /\ calls[c].pc = "put" /\ calls'[c].file = calls[c].file
        \/ c \in DOMAIN calls /\ PutObject(c) /\ calls'[c].file = calls[c].file
    BY <1>0, <1>3, CallsStep DEF MovesOne, Moves, Still, Puts, Erases
  <2>2. calls'[c].file \in Key
    BY <1>0, <1>3 DEF CallsFit, CallOK
  <2> QED BY <1>1, <2>1, <2>2 DEF PutObject
<1>4. ASSUME NEW k \in Key, k \in DOMAIN receipts' PROVE k \in bucket' \/ k \in past'.cut \/ Erased(k)'
  <2>1. CASE \E c \in DOMAIN calls : RowOfCall(c, k)
    BY <1>1, <2>1 DEF RowOfCall
  <2>2. CASE k \in DOMAIN receipts /\ k \in bucket /\ k \notin bucket'
    <3>1. PICK c \in DOMAIN calls : EraseObject(c) /\ calls[c].file = k
      BY <2>2, ObjectStays
    <3>2. calls' = [calls EXCEPT ![c] = [calls[c] EXCEPT !.pc = "erased"]] /\ calls[c] \in Request
      BY <1>0, <3>1 DEF EraseObject, Wait, CallsFit, CallOK
    <3>3. c \in DOMAIN calls' /\ calls'[c].pc = "erased" /\ calls'[c].file = k
      BY <3>1, <3>2 DEF Request
    <3> QED BY <3>3 DEF Erased
  <2>3. ASSUME NEW c \in DOMAIN calls, calls[c].pc = "erased", calls[c].file = k, k \in DOMAIN receipts
        PROVE  k \in past'.cut \/ Erased(k)'
    <3>1. receipts[k] = calls[c].biz
      BY <2>3 DEF OwnInv, EraseOwn, Erasing, Erases
    <3>2. ~DeleteRow(c)
      <4>1. ASSUME DeleteRow(c) PROVE FALSE
        <5>1. Forget({calls[c].file} \cap {f \in DOMAIN receipts : receipts[f] = calls[c].biz})
          BY <4>1 DEF DeleteRow
        <5>2. receipts' = Without(receipts, {calls[c].file} \cap {f \in DOMAIN receipts : receipts[f] = calls[c].biz})
          BY <5>1 DEF Forget
        <5> QED BY <1>4, <2>3, <3>1, <5>2 DEF Without
      <4> QED BY <4>1
    <3> QED BY <1>0, <2>3, <3>2, ErasedGoes DEF Still, Erased
  <2>4. k \in DOMAIN receipts => k \in bucket \/ k \in past.cut \/ Erased(k)
    BY DEF StoredInv
  <2> QED BY <1>0, <1>4, <2>1, <2>2, <2>3, <2>4, KeyRows DEF Erased
<1> QED BY <1>2, <1>3, <1>4 DEF StoredInv

ObjectInv == OwnInv /\ StoredInv

LEMMA Objects == Spec => []ObjectInv
<1>1. Init => ObjectInv
  <2> SUFFICES ASSUME Init PROVE ObjectInv
    OBVIOUS
  <2>1. /\ receipts = [f \in {} |-> None] /\ calls = [c \in {} |-> None] /\ deletes = {}
        /\ logos = [b \in Business |-> None] /\ links = {}
    BY DEF Init
  <2>2. LinkInv
    BY <2>1, TypeInvInit DEF LinkInv, KeysInv, LinksStayInBusiness
  <2>3. \A k \in Key : ~IsLogo(k) /\ ~PutKey(k) /\ ~ErasesKey(k) /\ k \notin deletes /\ k \notin DOMAIN receipts
    BY <2>1, Bounds DEF IsLogo, PutKey, ErasesKey
  <2>4. LogosDiffer /\ EraseOwn
    BY <2>1 DEF LogosDiffer, EraseOwn
  <2>5. StoredInv
    BY <2>1, <2>3 DEF StoredInv
  <2> QED BY <2>2, <2>3, <2>4, <2>5 DEF ObjectInv, OwnInv, OneOwner
<1>2. ObjectInv /\ [Next]_vars => ObjectInv'
  <2>1. ASSUME ObjectInv, UNCHANGED vars PROVE ObjectInv'
    <3>1. LinkInv'
      <4>1. TypeInv'
        BY <2>1, TypeInvNext DEF ObjectInv, OwnInv, LinkInv
      <4> QED BY <2>1, <4>1 DEF ObjectInv, OwnInv, LinkInv, KeysInv, Putting, LinksStayInBusiness, vars, rows
    <3>2. \A k \in Key : OneOwner(k)'
      BY <2>1 DEF ObjectInv, OwnInv, OneOwner, IsLogo, PutKey, Putting, ErasesKey, Erasing, vars, rows
    <3>3. (LogosDiffer /\ EraseOwn)'
      BY <2>1 DEF ObjectInv, OwnInv, LogosDiffer, EraseOwn, Erasing, vars, rows
    <3>4. StoredInv'
      BY <2>1 DEF ObjectInv, StoredInv, IsLogo, Erased, vars, rows
    <3> QED BY <3>1, <3>2, <3>3, <3>4 DEF ObjectInv, OwnInv
  <2> QED BY <2>1, OwnStep, StoredStep DEF ObjectInv
<1> QED BY <1>1, <1>2, PTL DEF Spec

(* No row names an object that is gone: a logo is put before its row is    *)
(* set and deleted after it is replaced (orgs.ts), and a receipt that is   *)
(* listed opens, unless its deletion is between the object and the row, or *)
(* was cut short there (receipts.ts).                                      *)
THEOREM RowsNameObjects == Spec => []NamesResolve
<1>1. ASSUME ObjectInv PROVE NamesResolve
  <2>0. RowsFit /\ CallsFit
    BY <1>1 DEF ObjectInv, OwnInv, LinkInv, TypeInv
  <2>1. ASSUME NEW b \in DOMAIN logos, logos[b] # None PROVE logos[b] \in bucket
    <3>1. logos[b] \in Key /\ IsLogo(logos[b])
      BY <2>0, <2>1 DEF RowsFit, IsLogo
    <3> QED BY <1>1, <3>1 DEF ObjectInv, StoredInv
  <2>2. ASSUME NEW k \in DOMAIN receipts \cap Key
        PROVE  k \in bucket \cup past.cut \/ \E c \in DOMAIN calls : At(c, "erase", "erased") /\ calls[c].file = k
    <3>1. k \in bucket \/ k \in past.cut \/ Erased(k)
      BY <1>1 DEF ObjectInv, StoredInv
    <3>2. \A c \in DOMAIN calls : calls[c].pc = "erased" => At(c, "erase", "erased")
      BY <2>0 DEF CallsFit, CallOK, At
    <3> QED BY <3>1, <3>2 DEF Erased
  <2> QED BY <2>1, <2>2 DEF NamesResolve
<1> QED BY <1>1, Objects, PTL

-----------------------------------------------------------------------------
(* What is left behind. *)

LEMMA UsedStep == ASSUME TypeInv, Next, past'.used # past.used PROVE HasBucket
<1>0. past \in Past /\ CallsFit
  BY DEF TypeInv
<1>1. ASSUME NEW c \in DOMAIN calls, NEW f \in Upload, ToBucket(c, f) PROVE HasBucket
  BY <1>1, FilesAssumption DEF ToBucket, Target
<1>2. ASSUME NEW b \in Business, NEW f \in Upload, UploadLogo(b, f) PROVE HasBucket
  BY <1>2 DEF UploadLogo
<1>3. UNCHANGED past \/ Counted(past) => past'.used = past.used
  BY <1>0, CountedOK
<1>4. Callback => past'.used = past.used
  <2> SUFFICES ASSUME Callback PROVE past'.used = past.used
    OBVIOUS
  <2>1. past.consents + 1 \in 0..MaxConsents
    BY <1>0, Bounds DEF Callback, Past
  <2>2. [past EXCEPT !.consents = @ + 1] \in Past
    BY <1>0, <2>1 DEF Past
  <2> QED BY <1>0, <2>2, CountedOK DEF Callback, Past
<1>5. (Crash \/ \E b \in Business, f \in DriveFile : PickTaken(b, f)) => past'.used = past.used
  BY Dies, DieOK
<1>6. ASSUME NEW S \in SUBSET Key, \/ Faulty([past EXCEPT !.spared = @ \cup S])
                                   \/ past' = [past EXCEPT !.spared = @ \cup S]
      PROVE  past'.used = past.used
  <2>1. [past EXCEPT !.spared = @ \cup S] \in Past
    BY <1>0 DEF Past
  <2> QED BY <1>0, <1>6, <2>1, FaultyOK DEF Past
<1>7. ASSUME NEW c \in DOMAIN calls, RecordObject(c) \/ SetLogo(c) PROVE past'.used = past.used
  <2>1. {calls[c].file} \in SUBSET Key
    BY <1>0, <1>7, FileIsKey DEF RecordObject, SetLogo, At
  <2> QED BY <1>3, <1>6, <1>7, <2>1 DEF RecordObject, SetLogo
<1>8. ASSUME NEW c \in DOMAIN calls, Fail(c) PROVE past'.used = past.used
  <2>1. CASE calls[c].op = "erase"
    <3>1. {calls[c].file} \in SUBSET Key
      BY <1>0, <1>8, <2>1, FileIsKey DEF Fail
    <3> QED BY <1>6, <1>8, <2>1, <3>1 DEF Fail
  <2>2. CASE calls[c].op # "erase"
    <3>1. {calls[c].file} \cap bucket \in SUBSET Key
      BY DEF TypeInv, ObjectsFit
    <3> QED BY <1>6, <1>8, <2>2, <3>1 DEF Fail
  <2> QED BY <2>1, <2>2
<1>9. ASSUME NEW k \in Key, FailDelete(k) PROVE past'.used = past.used
  BY <1>6, <1>9 DEF FailDelete
<1>10. \/ UNCHANGED past \/ Counted(past) \/ Callback \/ Crash
       \/ \E b \in Business, f \in DriveFile : PickTaken(b, f)
       \/ \E c \in DOMAIN calls : (\E f \in Upload : ToBucket(c, f)) \/ RecordObject(c) \/ SetLogo(c) \/ Fail(c)
       \/ \E b \in Business, f \in Upload : UploadLogo(b, f)
       \/ \E k \in Key : FailDelete(k)
  BY Acts DEF Drop, ToDrive, PutObject, MakeFolder, MakeFile, Pick, DeleteReceipt, EraseObject, DeleteRow, Link, Unlink,
              DeleteTransaction, SetPreference, ClearLogo, DeleteBusiness, DeleteObject, Exchange, Refresh
<1> QED BY <1>1, <1>2, <1>3, <1>4, <1>5, <1>7, <1>8, <1>9, <1>10

SweptInv ==
  /\ \A k \in Key : k \in bucket => k \in DOMAIN receipts \/ IsLogo(k) \/ PutKey(k) \/ k \in deletes \/ k \in past.spared
  /\ \A c \in DOMAIN calls : calls[c].pc = "erased" => calls[c].file \notin bucket \/ calls[c].file \in past.spared
  /\ HasBucket \/ (bucket = {} /\ \A c \in DOMAIN calls : ~Putting(c))

LEMMA RowLost ==
  ASSUME LinkInv, Next, NEW k \in Key, k \in DOMAIN receipts, k \notin DOMAIN receipts'
  PROVE  k \in deletes' \/ ~HasBucket \/ \E c \in DOMAIN calls : calls[c].pc = "erased" /\ calls[c].file = k
<1>0. TypeInv /\ RowsFit /\ CallsFit
  BY DEF LinkInv, TypeInv
<1>1. ASSUME NEW f, NEW b, receipts' = With(receipts, f, b) PROVE FALSE
  BY <1>1 DEF With
<1>2. ASSUME NEW c \in DOMAIN calls, RecordObject(c) \/ MakeFile(c) PROVE FALSE
  <2>1. UNCHANGED receipts \/ \E f, b : receipts' = With(receipts, f, b)
    BY <1>2 DEF RecordObject, MakeFile, Record
  <2> QED BY <1>1, <2>1
<1>3. ASSUME NEW b \in Business, NEW f \in File, DeleteReceipt(b, f) PROVE k \in deletes' \/ ~HasBucket
  <2>1. UNCHANGED receipts \/ (Forget({f}) /\ (f \notin Key \/ ~HasBucket))
    BY <1>3 DEF DeleteReceipt
  <2>2. CASE Forget({f})
    BY <2>1, <2>2 DEF Forget, Without
  <2> QED BY <2>1, <2>2
<1>4. ASSUME NEW c \in DOMAIN calls, DeleteRow(c) PROVE calls[c].pc = "erased" /\ calls[c].file = k
  BY <1>4 DEF DeleteRow, At, Forget, Without
<1>5. ASSUME NEW b \in Business, DeleteBusiness(b) PROVE k \in deletes' \/ ~HasBucket
  <2> DEFINE gone == {f \in DOMAIN receipts : receipts[f] = b}
  <2>1. receipts' = Without(receipts, gone) /\ (HasBucket => deletes' = deletes \cup ObjectsOf(b))
    BY <1>5 DEF DeleteBusiness
  <2>2. k \in gone
    <3> HIDE DEF gone
    <3> QED BY <2>1 DEF Without
  <2> QED BY <2>1, <2>2 DEF ObjectsOf
<1>6. \/ UNCHANGED receipts \/ \E f, b : receipts' = With(receipts, f, b)
      \/ \E c \in DOMAIN calls : RecordObject(c) \/ MakeFile(c) \/ DeleteRow(c)
      \/ \E b \in Business, f \in File : DeleteReceipt(b, f)
      \/ \E b \in Business : DeleteBusiness(b)
  BY Acts DEF Drop, ToBucket, ToDrive, PutObject, MakeFolder, Pick, PickTaken, Die, SetPreference, UploadLogo, Callback,
              Crash, EraseObject, Exchange, Refresh, Fail, DeleteObject, FailDelete, SetLogo, ClearLogo, Link, Unlink,
              DeleteTransaction, rows
<1> QED BY <1>1, <1>2, <1>3, <1>4, <1>5, <1>6

LEMMA LogoLost ==
  ASSUME OwnInv, Next, NEW k \in Key, IsLogo(k), ~IsLogo(k)' PROVE k \in deletes' \/ ~HasBucket
<1>1. PICK d \in DOMAIN logos : logos[d] = k
  BY DEF IsLogo
<1>2. ~(d \in DOMAIN logos' /\ logos'[d] = k)
  BY DEF IsLogo
<1>3. ASSUME NEW b, NEW f, LogoChange(b, f) PROVE k \in deletes'
  BY <1>1, <1>2, <1>3, Bounds DEF LogoChange
<1>4. ASSUME NEW b \in Business, DeleteBusiness(b), DOMAIN logos' = DOMAIN logos \ {b},
             \A e \in DOMAIN logos' : logos'[e] = logos[e]
      PROVE  k \in deletes' \/ ~HasBucket
  <2>1. b = d /\ k # None
    BY <1>1, <1>2, <1>4, Bounds
  <2> QED BY <1>1, <1>4, <2>1 DEF DeleteBusiness, ObjectsOf
<1> QED BY <1>1, <1>2, <1>3, <1>4, LogosStep

LEMMA DeleteLost ==
  ASSUME TypeInv, Next, NEW k \in Key, k \in deletes, k \notin deletes'
  PROVE  k \notin bucket' \/ k \in past'.spared
<1>0. past \in Past
  BY DEF TypeInv
<1>1. ASSUME NEW j \in Key, FailDelete(j) PROVE k \in past'.spared
  <2>1. j = k /\ [past EXCEPT !.spared = @ \cup {j}] \in Past
    BY <1>0, <1>1 DEF FailDelete, Past
  <2>2. Faulty([past EXCEPT !.spared = @ \cup {j}])
    BY <1>1 DEF FailDelete
  <2> QED BY <1>0, <2>1, <2>2, FaultyOK DEF Past
<1>2. (Crash \/ \E b \in Business, f \in DriveFile : PickTaken(b, f)) => k \in past'.spared
  BY Dies, DieOK
<1>3. ASSUME NEW j \in Key, DeleteObject(j) PROVE k \notin bucket'
  BY <1>3 DEF DeleteObject
<1>4. \/ deletes \subseteq deletes' \/ Crash
      \/ \E b \in Business, f \in DriveFile : PickTaken(b, f)
      \/ \E j \in Key : DeleteObject(j) \/ FailDelete(j)
  BY Acts DEF Drop, ToBucket, ToDrive, RecordObject, MakeFolder, MakeFile, Pick, DeleteReceipt, DeleteRow, PutObject,
              Link, Unlink, DeleteTransaction, SetPreference, UploadLogo, SetLogo, ClearLogo, DeleteBusiness, Callback,
              Exchange, Refresh, Fail, EraseObject
<1> QED BY <1>1, <1>2, <1>3, <1>4

LEMMA SweptStep == ASSUME OwnInv, SweptInv, Next PROVE SweptInv'
<1>0. /\ LinkInv /\ TypeInv /\ CallsFit /\ CallsFit' /\ past \in Past
      /\ past.used \subseteq past'.used /\ past.spared \subseteq past'.spared
  BY NextKeeps, PastStep DEF OwnInv, TypeInv
<1> DEFINE Named(k) == k \in DOMAIN receipts \/ IsLogo(k) \/ PutKey(k) \/ k \in deletes \/ k \in past.spared
<1>1. ASSUME NEW c \in DOMAIN calls, NEW k \in Key, calls[c].file = k, PutObject(c) PROVE PutKey(k)'
  <2>1. calls' = [calls EXCEPT ![c] = [calls[c] EXCEPT !.pc = "put"]] /\ calls[c] \in Request
    BY <1>0, <1>1 DEF PutObject, Wait, CallsFit, CallOK
  <2>2. c \in DOMAIN calls' /\ calls'[c].pc = "put" /\ calls'[c].file = k
    BY <1>1, <2>1 DEF Request
  <2> QED BY <2>2 DEF PutKey, Putting, Puts
<1>2. ASSUME NEW c \in DOMAIN calls, NEW k \in Key, calls[c].file = k, RecordObject(c) \/ SetLogo(c)
      PROVE  k \in DOMAIN receipts' \/ IsLogo(k)' \/ k \in past'.spared
  <2>1. CASE calls[c].biz \in DOMAIN logos
    <3>1. CASE RecordObject(c)
      BY <1>2, <2>1, <3>1 DEF RecordObject, Record, With
    <3>2. CASE SetLogo(c)
      <4>1. logos' = [logos EXCEPT ![calls[c].biz] = k]
        BY <1>2, <2>1, <3>2 DEF SetLogo
      <4> QED BY <2>1, <4>1 DEF IsLogo
    <3> QED BY <1>2, <3>1, <3>2
  <2>2. CASE calls[c].biz \notin DOMAIN logos
    <3>1. past' = [past EXCEPT !.spared = past.spared \cup {k}]
      BY <1>2, <2>2 DEF RecordObject, SetLogo
    <3> QED BY <1>0, <3>1 DEF Past
  <2> QED BY <2>1, <2>2
<1>3. ASSUME NEW c \in DOMAIN calls, NEW k \in Key, calls[c].file = k, Fail(c), k \in bucket, Putting(c)
      PROVE  k \in past'.spared
  <2>1. calls[c].op # "erase"
    BY <1>0, <1>3 DEF CallsFit, CallOK, Putting, Puts
  <2>2. {k} \cap bucket \in SUBSET Key /\ [past EXCEPT !.spared = @ \cup ({k} \cap bucket)] \in Past
    BY <1>0 DEF Past
  <2>3. Faulty([past EXCEPT !.spared = @ \cup ({k} \cap bucket)])
    BY <1>3, <2>1 DEF Fail
  <2> QED BY <1>0, <1>3, <2>2, <2>3, FaultyOK DEF Past
<1>4. ASSUME NEW k \in Key, k \in bucket, k \in bucket' PROVE Named(k)'
  <2>1. HasBucket /\ Named(k)
    BY <1>4 DEF SweptInv
  <2>2. CASE k \in DOMAIN receipts
    BY <1>0, <1>4, <2>1, <2>2, RowLost DEF SweptInv
  <2>3. CASE IsLogo(k)
    BY <2>1, <2>3, LogoLost
  <2>4. CASE PutKey(k)
    <3>1. PICK c \in DOMAIN calls : Putting(c) /\ calls[c].file = k
      BY <2>4 DEF PutKey
    <3>2. Still(c) => PutKey(k)'
      BY <3>1 DEF Still, PutKey, Putting
    <3> QED BY <1>0, <1>1, <1>2, <1>3, <1>4, <3>1, <3>2, PutsGo
  <2>5. CASE k \in deletes
    BY <1>0, <1>4, <2>5, DeleteLost
  <2> QED BY <1>0, <2>1, <2>2, <2>3, <2>4, <2>5
<1>5. ASSUME NEW k \in Key, k \notin bucket, k \in bucket' PROVE Named(k)'
  BY <1>0, <1>1, <1>5, BucketStep
<1>6. ASSUME NEW c \in DOMAIN calls', calls'[c].pc = "erased"
      PROVE  calls'[c].file \notin bucket' \/ calls'[c].file \in past'.spared
  <2> DEFINE k == calls'[c].file
  <2>1. k \in Key
    BY <1>0, <1>6 DEF CallsFit, CallOK
  <2>2. \/ c \in DOMAIN calls /\ calls[c].pc = "erased" /\ k = calls[c].file
        \/ c \in DOMAIN calls /\ k = calls[c].file /\ (EraseObject(c) \/ k \in past'.spared)
    BY <1>0, <1>6, CallsStep DEF MovesOne, Moves, Still, Puts, Erases
  <2>3. CASE c \in DOMAIN calls /\ calls[c].pc = "erased" /\ k = calls[c].file
    <3>1. k \notin bucket \/ k \in past.spared
      BY <2>3 DEF SweptInv
    <3>2. ~PutKey(k)
      <4>1. ErasesKey(k)
        BY <2>3 DEF ErasesKey, Erasing, Erases
      <4> QED BY <2>1, <4>1 DEF OwnInv, OneOwner
    <3> HIDE DEF k
    <3>3. k \notin bucket => k \notin bucket'
      BY <1>0, <2>1, <3>2, BucketStep DEF PutKey
    <3> QED BY <1>0, <3>1, <3>3 DEF k
  <2>4. CASE c \in DOMAIN calls /\ k = calls[c].file /\ EraseObject(c)
    BY <2>4 DEF EraseObject
  <2> QED BY <2>2, <2>3, <2>4
<1>7. ASSUME ~HasBucket PROVE bucket' = {} /\ \A c \in DOMAIN calls' : calls'[c].pc \notin Puts
  <2>1. bucket = {} /\ \A c \in DOMAIN calls : ~Putting(c)
    BY <1>7 DEF SweptInv
  <2>2. past'.used = past.used
    BY <1>0, <1>7, UsedStep
  <2>3. \A c \in DOMAIN calls' : calls'[c].pc \notin Puts
    BY <1>0, <2>1, <2>2, PutsFrom
  <2>4. \A k \in Key : k \notin bucket'
    BY <1>0, <2>1, BucketStep
  <2>5. bucket' \subseteq Key
    BY <1>0, ObjectsStep DEF ObjectsFit
  <2> QED BY <2>3, <2>4, <2>5
<1> QED BY <1>4, <1>5, <1>6, <1>7 DEF SweptInv, Putting

SweepInv == OwnInv /\ SweptInv

LEMMA Swept == Spec => []SweepInv
<1>1. Init => SweptInv
  BY DEF Init, SweptInv
<1>2. ASSUME ObjectInv, SweptInv, [Next]_vars PROVE SweptInv'
  <2>1. UNCHANGED vars => SweptInv'
    BY <1>2 DEF SweptInv, IsLogo, PutKey, Putting, vars, rows
  <2> QED BY <1>2, <2>1, SweptStep DEF ObjectInv
<1>3. ObjectInv => OwnInv
  BY DEF ObjectInv
<1> QED BY <1>1, <1>2, <1>3, Objects, PTL DEF Spec, SweepInv

(* Without a fault no object stays in the bucket that nothing names:       *)
(* whatever uploads, replacements and deletions of logos, receipts and     *)
(* businesses overlap (receipts.ts, orgs.ts), each object is named by a    *)
(* row or a handler, or its deletion is under way; the exceptions are      *)
(* those that the history names.                                           *)
THEOREM NothingStays == Spec => []NothingLeftBehind
<1>1. ASSUME TypeInv, SweepInv PROVE NothingLeftBehind
  <2>1. bucket \subseteq Key
    BY <1>1 DEF TypeInv, ObjectsFit
  <2>2. \A k \in Key : k \in bucket => k \in DOMAIN receipts \/ IsLogo(k) \/ PutKey(k) \/ k \in deletes \/ k \in past.spared
    BY <1>1 DEF SweepInv, SweptInv
  <2> QED BY <2>1, <2>2 DEF NothingLeftBehind, IsLogo, PutKey
<1> QED BY <1>1, Types, Swept, PTL
=============================================================================
