-------------------------------- MODULE Files --------------------------------
(***************************************************************************)
(* Receipts and logos: rows that name objects in a bucket or files in the  *)
(* user's Google Drive, links of receipts to transactions, and the tokens  *)
(* with which the server reaches the Drive.                                *)
(*                                                                         *)
(*   server/src/routes/receipts.ts           upload, pick, delete, link    *)
(*   server/src/routes/orgs.ts               logos, deleting a business    *)
(*   server/src/repos/impl/ReceiptRepoImpl.ts, BusinessRepoImpl.ts         *)
(*   server/src/services/driveService.ts     tokens, folder, upload        *)
(*   server/src/services/storage/            validation, preference, S3    *)
(*   web/src/components/ReceiptPicker.tsx    batches of uploads            *)
(*                                                                         *)
(* The database is SQLite: its statements never wait, so one action is the *)
(* code from one answer of the bucket or of Google to the next request to  *)
(* them. One user works, in any number of tabs; a business has a logo,     *)
(* transactions and receipts. A receipt is named by its object key or by   *)
(* its Drive file id, which are unique in the table.                       *)
(***************************************************************************)
EXTENDS Integers, FiniteSets

CONSTANTS
  Business, Transaction,
  TxOf,          \* Transaction -> the business it belongs to
  Key,           \* bound: object keys, every upload takes a fresh one
  DriveFile,     \* bound: files in the user's Drive
  Upload,        \* the files that the user may upload, see Content
  HasBucket,     \* s3StorageFromEnv() found a bucket
  Default,       \* getDefaultReceiptStorage()
  Ops,           \* the requests that the pages of the instance send
  Call,          \* bound: requests in flight
  MaxBatch,      \* bound: files dropped at once
  MaxConsents,   \* bound: times the user gives Google a consent
  MaxRequests,   \* bound: requests, a batch counts as one
  MaxFaults,     \* bound: crashes and failing calls of the bucket or of Google
  None

Place == {"kml", "drive"}
Kind == {"pdf", "jpeg", "png", "heic", "webp"}

\* A file as the validation sees it: its size, what its first bytes tell, what the browser declares.
Content == [size : {"empty", "logo", "receipt", "large"}, kind : Kind \cup {None}, mime : Kind \cup {None}]

ASSUME FilesAssumption ==
  /\ TxOf \in [Transaction -> Business]
  /\ Key \cap DriveFile = {} /\ None \notin Key \cup DriveFile \cup Transaction \cup Kind
  /\ Upload \subseteq Content
  /\ HasBucket \in BOOLEAN /\ Default \in Place
  /\ MaxBatch \in Nat \ {0} /\ MaxConsents \in Nat /\ MaxRequests \in Nat /\ MaxFaults \in Nat

VARIABLES
  logos,     \* businesses.logo_storage_key, for each business there is
  txs,       \* the transactions there are
  receipts,  \* receipts: object key or Drive file -> business
  links,     \* transaction_receipts
  pref,      \* users.receipt_storage_preference
  grant,     \* user_drive_tokens, or None
  bucket,    \* the objects there are
  drive,     \* the files of the user's Drive
  calls,     \* handlers that wait for the bucket or for Google
  deletes,   \* deletions of objects that nobody waits for
  past       \* history, see TypeOK

rows == <<logos, txs, receipts, links>>
vars == <<rows, pref, grant, bucket, drive, calls, deletes, past>>

-----------------------------------------------------------------------------
File == Key \cup DriveFile
Consent == 1..MaxConsents

\* Which consent the stored tokens stem from, and whether a folder is cached.
Grant == [refresh : Consent \cup {None}, access : Consent, folder : BOOLEAN]

ASSUME GrantAssumption == None \notin Consent /\ None \notin Grant

\* "putting" and "put": the bucket has not, or has, stored the object, and has not
\* answered; "erasing" and "erased" likewise; "folder", "file", "token": Google.
PC == {"next", "putting", "put", "folder", "file", "erasing", "erased", "token"}

\* "rest" is the number of files of the batch still to come, "with" the consent whose
\* tokens the handler's client holds.
Request == [op : {"upload", "logo", "erase", "consent"}, pc : PC, biz : Business,
            tx : Transaction \cup {None}, file : File \cup {None}, rest : 0..MaxBatch,
            with : Consent \cup {None}]

TypeOK ==
  /\ DOMAIN logos \in SUBSET Business /\ logos \in [DOMAIN logos -> Key \cup {None}]
  /\ txs \in SUBSET Transaction
  /\ DOMAIN receipts \in SUBSET File /\ receipts \in [DOMAIN receipts -> Business]
  /\ links \in SUBSET (Transaction \X File)
  /\ pref \in Place \cup {None}
  /\ grant \in Grant \cup {None}
  /\ bucket \in SUBSET Key /\ drive \in SUBSET DriveFile
  /\ DOMAIN calls \in SUBSET Call /\ calls \in [DOMAIN calls -> Request]
  /\ deletes \in SUBSET Key
  \* keys ever used; receipts whose deletion was cut short; objects that a fault, or the
  \* deletion of their business under the upload, has left behind; what is bounded
  /\ past \in [used : SUBSET Key, cut : SUBSET Key, spared : SUBSET Key,
               consents : 0..MaxConsents, sent : 0..MaxRequests, faults : 0..MaxFaults]

Init ==
  /\ logos = [b \in Business |-> None] /\ txs = Transaction
  /\ receipts = [f \in {} |-> None] /\ links = {}
  /\ pref = None /\ grant = None
  /\ bucket = {} /\ drive = {}
  /\ calls = [c \in {} |-> None] /\ deletes = {}
  /\ past = [used |-> {}, cut |-> {}, spared |-> {}, consents |-> 0, sent |-> 0, faults |-> 0]

-----------------------------------------------------------------------------
(* What is allowed where.                                                   *)

\* validateReceiptUpload: at most 10 MB, no WebP, and the declared type is the found one.
ValidReceipt(f) ==
  /\ f.size \in {"logo", "receipt"}
  /\ f.kind \in Kind \ {"webp"}
  /\ f.mime \in {None, f.kind}

\* validateLogoUpload: at most 1 MB, images of three kinds.
ValidLogo(f) ==
  /\ f.size = "logo"
  /\ f.kind \in {"jpeg", "png", "webp"}
  /\ f.mime \in {None, f.kind}

\* resolveBackend: without a bucket everything goes to the Drive.
Target ==
  LET wanted == IF pref = None THEN Default ELSE pref
  IN  IF wanted = "kml" /\ ~HasBucket THEN "drive" ELSE wanted

-----------------------------------------------------------------------------
With(f, x, y) == [z \in DOMAIN f \cup {x} |-> IF z = x THEN y ELSE f[z]]
Without(f, S) == [z \in DOMAIN f \ S |-> f[z]]

Blank(op, b) == [op |-> op, pc |-> "next", biz |-> b, tx |-> None, file |-> None, rest |-> 0, with |-> None]

\* A request of the pages arrives; "past" becomes "next" with one more request.
Counted(next) == past.sent < MaxRequests /\ past' = [next EXCEPT !.sent = past.sent + 1]
Faulty(next) == past.faults < MaxFaults /\ past' = [next EXCEPT !.faults = past.faults + 1]

Start(request) == \E c \in Call \ DOMAIN calls : calls' = With(calls, c, request)
Wait(c, request) == calls' = [calls EXCEPT ![c] = request]

\* The handler answers. A batch goes on with its next file until one fails.
Answer(c, ok) ==
  LET r == calls[c]
  IN  calls' = IF ok /\ r.rest > 0
                 THEN With(calls, c, [Blank("upload", r.biz) EXCEPT !.tx = r.tx, !.rest = r.rest - 1])
                 ELSE Without(calls, {c})

At(c, op, pc) == c \in DOMAIN calls /\ calls[c].op = op /\ calls[c].pc = pc

\* repos.transactions.findById, repos.receipts.findById: rows of the handler's business.
HasTx(b, t) == t \in txs /\ TxOf[t] = b

\* Fault: the receipt is looked up in every business.
AnyReceipt(b, f) == f \in DOMAIN receipts

HasReceipt(b, f) == f \in DOMAIN receipts /\ receipts[f] = b

\* createFromS3 or create, then linkToTransaction. A foreign key that fails, to a business
\* or a transaction deleted meanwhile, is caught; the row of the receipt stays.
Record(c, f) ==
  LET r == calls[c]
      linked == r.tx # None /\ r.tx \in txs
  IN  IF r.biz \in DOMAIN logos
        THEN /\ receipts' = With(receipts, f, r.biz)
             /\ links' = IF linked THEN links \cup {<<r.tx, f>>} ELSE links
             /\ Answer(c, linked \/ r.tx = None)
        ELSE UNCHANGED <<receipts, links>> /\ Answer(c, FALSE)

-----------------------------------------------------------------------------
(* Receipts.                                                                *)

\* ReceiptPicker: files are dropped for a transaction and are uploaded one by one. The
\* drop zone does not look whether an earlier batch is still on its way.
Drop(b, t, n) ==
  /\ "upload" \in Ops /\ b \in DOMAIN logos /\ HasTx(b, t)
  /\ Counted(past)
  /\ Start([Blank("upload", b) EXCEPT !.tx = t, !.rest = n - 1])
  /\ UNCHANGED <<rows, pref, grant, bucket, drive, deletes>>

\* POST /upload up to its first request to the outside, for a file that goes to the bucket.
ToBucket(c, f) ==
  /\ At(c, "upload", "next") /\ Target = "kml"
  /\ IF HasTx(calls[c].biz, calls[c].tx) /\ ValidReceipt(f)
       THEN \E k \in Key \ past.used :
              /\ Wait(c, [calls[c] EXCEPT !.pc = "putting", !.file = k])
              /\ past' = [past EXCEPT !.used = @ \cup {k}]
       ELSE Answer(c, FALSE) /\ UNCHANGED past
  /\ UNCHANGED <<rows, pref, grant, bucket, drive, deletes>>

\* The same for the Drive: clientForUser, and ensureUserFolder when a folder is cached.
ToDrive(c) ==
  /\ At(c, "upload", "next") /\ Target = "drive"
  /\ IF HasTx(calls[c].biz, calls[c].tx) /\ grant # None
       THEN Wait(c, [calls[c] EXCEPT !.pc = IF grant.folder THEN "file" ELSE "folder",
                                     !.with = grant.refresh])
       ELSE Answer(c, FALSE)
  /\ UNCHANGED <<rows, pref, grant, bucket, drive, deletes, past>>

\* The bucket stores the object, for a receipt or for a logo.
PutObject(c) ==
  /\ c \in DOMAIN calls /\ calls[c].pc = "putting"
  /\ bucket' = bucket \cup {calls[c].file}
  /\ Wait(c, [calls[c] EXCEPT !.pc = "put"])
  /\ UNCHANGED <<rows, pref, grant, drive, deletes, past>>

RecordObject(c) ==
  /\ At(c, "upload", "put")
  /\ Record(c, calls[c].file)
  /\ past' = IF calls[c].biz \in DOMAIN logos THEN past
             ELSE [past EXCEPT !.spared = @ \cup {calls[c].file}]
  /\ UNCHANGED <<logos, txs, pref, grant, bucket, drive, deletes>>

\* ensureUserFolder has made a folder; the last one made is remembered.
MakeFolder(c) ==
  /\ At(c, "upload", "folder")
  /\ grant' = [grant EXCEPT !.folder = TRUE]
  /\ Wait(c, [calls[c] EXCEPT !.pc = "file"])
  /\ UNCHANGED <<rows, pref, bucket, drive, deletes, past>>

MakeFile(c) ==
  /\ At(c, "upload", "file")
  /\ \E f \in DriveFile \ drive :
       /\ drive' = drive \cup {f}
       /\ Record(c, f)
  /\ UNCHANGED <<logos, txs, pref, grant, bucket, deletes, past>>

\* POST /from-drive. A file that another business has already taken breaks the unique
\* index outside of any "try": the request is never answered.
Pick(b, f, t) ==
  /\ "pick" \in Ops /\ b \in DOMAIN logos /\ f \in drive
  /\ f \in DOMAIN receipts => receipts[f] = b
  /\ Counted(past)
  /\ receipts' = With(receipts, f, b)
  /\ links' = IF HasTx(b, t) THEN links \cup {<<t, f>>} ELSE links
  /\ UNCHANGED <<logos, txs, pref, grant, bucket, drive, calls, deletes>>

\* DELETE /:id, for a file in the Drive, which stays there.
Forget(fs) ==
  /\ receipts' = Without(receipts, fs)
  /\ links' = {l \in links : l[2] \notin fs}

DeleteReceipt(b, f) ==
  /\ "erase" \in Ops /\ b \in DOMAIN logos /\ HasReceipt(b, f)
  /\ Counted(past)
  /\ IF f \in Key /\ HasBucket
       THEN Start([Blank("erase", b) EXCEPT !.pc = "erasing", !.file = f]) /\ UNCHANGED <<receipts, links>>
       ELSE Forget({f}) /\ UNCHANGED calls
  /\ UNCHANGED <<logos, txs, pref, grant, bucket, drive, deletes>>

EraseObject(c) ==
  /\ At(c, "erase", "erasing")
  /\ bucket' = bucket \ {calls[c].file}
  /\ Wait(c, [calls[c] EXCEPT !.pc = "erased"])
  /\ UNCHANGED <<rows, pref, grant, drive, deletes, past>>

DeleteRow(c) ==
  /\ At(c, "erase", "erased")
  /\ Forget({calls[c].file} \cap {f \in DOMAIN receipts : receipts[f] = calls[c].biz})
  /\ Answer(c, TRUE)
  /\ UNCHANGED <<logos, txs, pref, grant, bucket, drive, deletes, past>>

\* The "linked" and "existing" tabs of the picker.
Link(b, t, f) ==
  /\ "link" \in Ops /\ HasTx(b, t) /\ HasReceipt(b, f)
  /\ Counted(past)
  /\ links' = links \cup {<<t, f>>}
  /\ UNCHANGED <<logos, txs, receipts, pref, grant, bucket, drive, calls, deletes>>

Unlink(b, t, f) ==
  /\ "link" \in Ops /\ HasTx(b, t) /\ <<t, f>> \in links
  /\ Counted(past)
  /\ links' = links \ {<<t, f>>}
  /\ UNCHANGED <<logos, txs, receipts, pref, grant, bucket, drive, calls, deletes>>

DeleteTransaction(t) ==
  /\ "delete" \in Ops /\ t \in txs
  /\ Counted(past)
  /\ txs' = txs \ {t}
  /\ links' = {l \in links : l[1] # t}
  /\ UNCHANGED <<logos, receipts, pref, grant, bucket, drive, calls, deletes>>

SetPreference(p) ==
  /\ "prefer" \in Ops /\ p # pref
  /\ p = "kml" => HasBucket
  /\ Counted(past)
  /\ pref' = p
  /\ UNCHANGED <<rows, grant, bucket, drive, calls, deletes>>

-----------------------------------------------------------------------------
(* Logos and businesses.                                                    *)

\* Fault: the old object goes before the new one is there.
UploadAfterDelete(b, f) ==
  /\ "logo" \in Ops /\ HasBucket /\ b \in DOMAIN logos /\ ValidLogo(f)
  /\ \E k \in Key \ past.used :
       /\ Start([Blank("logo", b) EXCEPT !.pc = "putting", !.file = k])
       /\ Counted([past EXCEPT !.used = @ \cup {k}])
  /\ deletes' = deletes \cup ({logos[b]} \ {None})
  /\ UNCHANGED <<rows, pref, grant, bucket, drive>>

UploadLogo(b, f) ==
  /\ "logo" \in Ops /\ HasBucket /\ b \in DOMAIN logos /\ ValidLogo(f)
  /\ \E k \in Key \ past.used :
       /\ Start([Blank("logo", b) EXCEPT !.pc = "putting", !.file = k])
       /\ Counted([past EXCEPT !.used = @ \cup {k}])
  /\ UNCHANGED <<rows, pref, grant, bucket, drive, deletes>>

\* setLogo, then the object of the old logo goes. A business deleted meanwhile has no row to
\* set, and nobody deletes the new object.
SetLogo(c) ==
  /\ At(c, "logo", "put")
  /\ LET b == calls[c].biz
     IN  IF b \in DOMAIN logos
           THEN /\ logos' = [logos EXCEPT ![b] = calls[c].file]
                /\ deletes' = deletes \cup ({logos[b]} \ {None})
                /\ UNCHANGED past
           ELSE /\ past' = [past EXCEPT !.spared = @ \cup {calls[c].file}]
                /\ UNCHANGED <<logos, deletes>>
  /\ Answer(c, TRUE)
  /\ UNCHANGED <<txs, receipts, links, pref, grant, bucket, drive>>

ClearLogo(b) ==
  /\ "logo" \in Ops /\ b \in DOMAIN logos /\ logos[b] # None
  /\ Counted(past)
  /\ logos' = [logos EXCEPT ![b] = None]
  /\ deletes' = deletes \cup {logos[b]}
  /\ UNCHANGED <<txs, receipts, links, pref, grant, bucket, drive, calls>>

\* Fault: the keys of the receipts are collected after the rows are gone.
LogoOf(b) == {logos[b]} \ {None}

\* Fault: a business without a logo deletes the object of no key.
ObjectsOrNull(b) == {logos[b]} \cup {f \in DOMAIN receipts \cap Key : receipts[f] = b}

\* The objects that go with a business: its logo and its receipts.
ObjectsOf(b) == ({logos[b]} \ {None}) \cup {f \in DOMAIN receipts \cap Key : receipts[f] = b}

\* The rows go in one transaction, the objects afterwards.
DeleteBusiness(b) ==
  /\ "close" \in Ops /\ b \in DOMAIN logos /\ Cardinality(DOMAIN logos) > 1
  /\ Counted(past)
  /\ LET gone == {f \in DOMAIN receipts : receipts[f] = b}
     IN  /\ receipts' = Without(receipts, gone)
         /\ links' = {l \in links : l[2] \notin gone /\ TxOf[l[1]] # b}
  /\ logos' = Without(logos, {b})
  /\ txs' = {t \in txs : TxOf[t] # b}
  /\ deletes' = IF HasBucket THEN deletes \cup ObjectsOf(b) ELSE deletes
  /\ UNCHANGED <<pref, grant, bucket, drive, calls>>

DeleteObject(k) ==
  /\ k \in deletes
  /\ deletes' = deletes \ {k}
  /\ bucket' = bucket \ {k}
  /\ UNCHANGED <<rows, pref, grant, drive, calls, past>>

-----------------------------------------------------------------------------
(* The tokens of the Drive.                                                 *)

\* The user comes back from Google with a code; the server exchanges it.
Callback ==
  /\ "consent" \in Ops /\ past.consents < MaxConsents
  /\ Counted([past EXCEPT !.consents = @ + 1])
  /\ \E b \in DOMAIN logos : Start([Blank("consent", b) EXCEPT !.pc = "token", !.with = past.consents + 1])
  /\ UNCHANGED <<rows, pref, grant, bucket, drive, deletes>>

\* mergeTokens: what is fresh replaces what is stored, but a refresh token stays.
MergeTokens(fresh) ==
  LET kept == IF grant = None THEN None ELSE grant.refresh
  IN  [refresh |-> IF fresh.refresh = None THEN kept ELSE fresh.refresh,
       access  |-> fresh.access,
       folder  |-> grant # None /\ grant.folder]

\* Google sends a refresh token with the first consent, and perhaps with later ones.
Exchange(c) ==
  /\ At(c, "consent", "token")
  /\ \E r \in {calls[c].with} \cup (IF grant = None THEN {} ELSE {None}) :
       grant' = MergeTokens([refresh |-> r, access |-> calls[c].with])
  /\ Answer(c, TRUE)
  /\ UNCHANGED <<rows, pref, bucket, drive, deletes, past>>

\* Fault: the listener stores the credentials of its own client.
RefreshOwn(c) ==
  /\ c \in DOMAIN calls /\ calls[c].pc \in {"folder", "file"}
  /\ grant' = MergeTokens([refresh |-> calls[c].with, access |-> calls[c].with])
  /\ UNCHANGED <<rows, pref, bucket, drive, calls, deletes, past>>

\* The "tokens" listener of clientForUser: during a request to the Drive the client has
\* got a new access token for the refresh token it was built with.
Refresh(c) ==
  /\ c \in DOMAIN calls /\ calls[c].pc \in {"folder", "file"}
  /\ grant' = MergeTokens([refresh |-> None, access |-> calls[c].with])
  /\ UNCHANGED <<rows, pref, bucket, drive, calls, deletes, past>>

-----------------------------------------------------------------------------
(* Failures.                                                                *)

\* A request of a handler to the bucket or to Google fails: the upload is answered with an
\* error, an object that was put all the same stays. A deletion of a receipt goes on.
Fail(c) ==
  /\ c \in DOMAIN calls /\ calls[c].pc \in PC \ {"next"}
  /\ IF calls[c].op = "erase"
       THEN /\ calls[c].pc = "erasing"
            /\ Faulty([past EXCEPT !.spared = @ \cup {calls[c].file}])
            /\ Wait(c, [calls[c] EXCEPT !.pc = "erased"])
       ELSE /\ Faulty([past EXCEPT !.spared = @ \cup ({calls[c].file} \cap bucket)])
            /\ Answer(c, FALSE)
  /\ UNCHANGED <<rows, pref, grant, bucket, drive, deletes>>

FailDelete(k) ==
  /\ k \in deletes
  /\ Faulty([past EXCEPT !.spared = @ \cup {k}])
  /\ deletes' = deletes \ {k}
  /\ UNCHANGED <<rows, pref, grant, bucket, drive, calls>>

\* Everything under way is lost; what the bucket has been asked to put it may still put.
Die(next) ==
  LET Keys(pcs) == {calls[c].file : c \in {d \in DOMAIN calls : calls[d].pc \in pcs}}
  IN  /\ bucket' \in {bucket \cup S : S \in SUBSET Keys({"putting"})}
      /\ calls' = [c \in {} |-> None] /\ deletes' = {}
      /\ past' = [next EXCEPT !.cut = @ \cup Keys({"erased"}),
                              !.spared = @ \cup deletes \cup Keys({"putting", "put"})]
      /\ UNCHANGED <<rows, pref, grant, drive>>

Crash ==
  /\ past.faults < MaxFaults
  /\ DOMAIN calls # {} \/ deletes # {}
  /\ Die([past EXCEPT !.faults = @ + 1])

\* POST /from-drive for a file of another business: the rejection may end the process.
PickTaken(b, f) ==
  /\ "pick" \in Ops /\ b \in DOMAIN logos /\ f \in DOMAIN receipts \cap drive /\ receipts[f] # b
  /\ past.sent < MaxRequests
  /\ LET next == [past EXCEPT !.sent = @ + 1]
     IN  \/ Die(next)
         \/ past' = next /\ UNCHANGED <<rows, pref, grant, bucket, drive, calls, deletes>>

-----------------------------------------------------------------------------
Handler(c) ==
  \/ \E f \in Upload : ToBucket(c, f)
  \/ ToDrive(c) \/ PutObject(c) \/ RecordObject(c) \/ MakeFolder(c) \/ MakeFile(c)
  \/ EraseObject(c) \/ DeleteRow(c) \/ SetLogo(c) \/ Exchange(c) \/ Refresh(c) \/ Fail(c)

User ==
  \/ \E b \in Business, t \in Transaction, n \in 1..MaxBatch : Drop(b, t, n)
  \/ \E b \in Business, f \in DriveFile, t \in Transaction : Pick(b, f, t)
  \/ \E b \in Business, f \in DriveFile : PickTaken(b, f)
  \/ \E b \in Business, f \in File : DeleteReceipt(b, f)
  \/ \E b \in Business, t \in Transaction, f \in File : Link(b, t, f) \/ Unlink(b, t, f)
  \/ \E t \in Transaction : DeleteTransaction(t)
  \/ \E p \in Place : SetPreference(p)
  \/ \E b \in Business, f \in Upload : UploadLogo(b, f)
  \/ \E b \in Business : ClearLogo(b) \/ DeleteBusiness(b)
  \/ Callback

Next ==
  \/ User \/ Crash
  \/ \E c \in Call : Handler(c)
  \/ \E k \in Key : DeleteObject(k) \/ FailDelete(k)

Spec == Init /\ [][Next]_vars

-----------------------------------------------------------------------------
(* Properties.                                                              *)

\* No row names an object that is gone, whatever fails and whichever uploads, removals and
\* deletions overlap: orgs.ts puts a logo before the row and deletes it after; a receipt
\* that is listed opens, unless its deletion is under way or was cut short between the object
\* and the row (receipts.ts deletes the object first).
NamesResolve ==
  /\ \A b \in DOMAIN logos : logos[b] # None => logos[b] \in bucket
  /\ \A k \in DOMAIN receipts \cap Key :
       k \in bucket \cup past.cut \/ \E c \in DOMAIN calls : At(c, "erase", "erased") /\ calls[c].file = k

\* Without a fault no object stays in the bucket that nothing names and nobody is about to
\* name or to delete; a business that is deleted while an upload to it runs counts as a fault.
NothingLeftBehind ==
  \A k \in bucket :
    \/ k \in DOMAIN receipts \/ \E b \in DOMAIN logos : logos[b] = k
    \/ \E c \in DOMAIN calls : calls[c].file = k
    \/ k \in deletes \cup past.spared

\* A transaction and a receipt that are linked are there and belong to one business, however
\* the deletions of either, or of the business, fall between the steps of an upload.
LinksStayInBusiness ==
  \A l \in links : l[1] \in txs /\ l[2] \in DOMAIN receipts /\ receipts[l[2]] = TxOf[l[1]]

\* A connection to the Drive never loses its refresh token, and only the callback of a consent
\* replaces it: a client that was built with older tokens and refreshes late cannot bring
\* its own back (mergeTokens reads the row again).
KeepsConsent ==
  [][grant # None =>
       /\ grant'.refresh # None
       /\ \/ grant'.refresh = grant.refresh
          \/ \E c \in DOMAIN calls : At(c, "consent", "token") /\ calls[c].with = grant'.refresh
                                     /\ c \notin DOMAIN calls']_vars
=============================================================================
