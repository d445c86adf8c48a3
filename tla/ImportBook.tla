----------------------------- MODULE ImportBook -----------------------------
(***************************************************************************)
(* What importing promises, without statements, categories or handlers:    *)
(* the book of an account only grows by whole files whose lines it does    *)
(* not know yet, or by duplicates that the user asked to keep.             *)
(*                                                                         *)
(* importService.ts says so ("rows whose hash already exists in the DB are *)
(* held back for user review") and does it in two database statements.     *)
(* Ledger implements this specification.                                   *)
(***************************************************************************)
CONSTANTS Request, Line, Account, Hash

VARIABLE book  \* transaction id -> entry

Entry == [account : Account, hash : Hash, origin : {"import", "resolve"}, edited : BOOLEAN]

Known(a) == {book[i].hash : i \in {j \in DOMAIN book : book[j].account = a}}

Init == book = [i \in {} |-> i]

\* The lines of one file enter account a together, as rows of request r.
Enter(r, a, hash, origin) ==
  LET new == {<<r, l>> : l \in DOMAIN hash}
  IN  book' = [i \in DOMAIN book \cup new |->
                 IF i \in DOMAIN book THEN book[i]
                 ELSE [account |-> a, hash |-> hash[i[2]], origin |-> origin, edited |-> FALSE]]

\* An import: lines equal to each other may enter, lines already known may not.
ImportFile(r, a, hash) ==
  /\ \A l \in DOMAIN hash : hash[l] \notin Known(a)
  /\ Enter(r, a, hash, "import")

\* A review: the user has seen the duplicates and keeps them.
KeepDuplicates(r, a, hash) == Enter(r, a, hash, "resolve")

\* An edit by the user may give a row another hash.
Edit(i, h) ==
  /\ i \in DOMAIN book
  /\ book' = [book EXCEPT ![i].hash = h, ![i].edited = TRUE]

Remove(S) == book' = [i \in DOMAIN book \ S |-> book[i]]

Next ==
  \/ \E r \in Request, a \in Account, L \in SUBSET Line :
       \E hash \in [L -> Hash] : ImportFile(r, a, hash) \/ KeepDuplicates(r, a, hash)
  \/ \E i \in DOMAIN book, h \in Hash : Edit(i, h)
  \/ \E S \in SUBSET DOMAIN book : Remove(S)

Spec == Init /\ [][Next]_book

\* Two entries of an account share a hash only if they came in one file, the
\* user kept a duplicate, or the user edited one of them.
NoSilentDuplicate ==
  \A i, j \in DOMAIN book :
    (i # j /\ book[i].account = book[j].account /\ book[i].hash = book[j].hash) =>
      \/ i[1] = j[1]
      \/ "resolve" \in {book[i].origin, book[j].origin}
      \/ book[i].edited \/ book[j].edited
=============================================================================
