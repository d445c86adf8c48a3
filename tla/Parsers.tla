------------------------------ MODULE Parsers ------------------------------
(***************************************************************************)
(* The readers of a bank's statement: server/src/parsers/csv.ts, qif.ts,    *)
(* ofx.ts, pdfPositional.ts, mt.ts, amex.ts, chase.ts, generic.ts and the   *)
(* choice between the last four in index.ts.                                *)
(*                                                                          *)
(* A file is a sequence of symbols, lines, leaves or placed fragments, and  *)
(* its smallest part a cell: a printed date, a printed amount or a word.    *)
(* What a date's or an amount's pattern accepts is what its reader does     *)
(* with the cell; thousands separators, currency marks and white space are  *)
(* left out.  A reader that throws gives {}, one that answers gives the set *)
(* of its one answer.  Amounts are cents.                                   *)
(***************************************************************************)
EXTENDS Integers, Sequences, FiniteSets, FiniteSetsExt, SequencesExt

CONSTANTS
  Statement,   \* what a bank has to say: sequences of transactions
  Form,        \* how it says it, see Form's fields in the writers below
  Now,         \* the year of the server's clock
  Opening,     \* <<year, month>> of the statement's first day
  Closing      \* and of its last

ASSUME ClosingAssumption ==
  /\ Opening \in Nat \X (1..12) /\ Closing \in Nat \X (1..12)
  /\ Opening[1] <= Closing[1] /\ Closing[1] <= Opening[1] + 1
  /\ Opening[1] = Closing[1] => Opening[2] <= Closing[2]
  /\ Opening[1] < Closing[1] => Closing[2] < Opening[2]

VARIABLES form, txs, out, done

fileVars == <<form, txs, out, done>>

(* A year that is not printed.                                              *)
NoYear == -1

(* A cell: a date as printed, <<year, month, day>> with a year of four      *)
(* digits, of two, or NoYear; an amount with the way its sign is printed; a *)
(* word.                                                                    *)
Date(d) == [kind |-> "date", date |-> d, num |-> 0, text |-> ""]
Num(n, sign) == [kind |-> "num", date |-> <<>>, num |-> n, text |-> sign]
Word(t) == [kind |-> "word", date |-> <<>>, num |-> 0, text |-> t]

Abs(n) == IF n < 0 THEN -n ELSE n
Is(c, t) == c.kind = "word" /\ c.text = t
Texts(cells) == [i \in DOMAIN cells |-> cells[i].text]
Tx(date, text, amount) == [date |-> date, text |-> text, amount |-> amount]

(* The one element of each set of a sequence of sets, the empty ones left   *)
(* out: what a loop that skips a line with `continue' collects.             *)
Collect(ss) == FoldLeft(LAMBDA acc, s : acc \o SetToSeq(s), <<>>, ss)

Sane(y, d) == IF d[2] \in 1..12 /\ d[3] \in 1..31 THEN {<<y, d[2], d[3]>>} ELSE {}
Century(y) == IF y >= 100 THEN y ELSE IF y < 50 THEN 2000 + y ELSE 1900 + y

Dated(c) == c.kind = "date" /\ c.date[1] # NoYear
CsvDate(c) ==
  IF Dated(c) THEN Sane(IF c.date[1] < 100 THEN 2000 + c.date[1] ELSE c.date[1], c.date)
              ELSE {}
QifDate(c) == IF Dated(c) THEN Sane(Century(c.date[1]), c.date) ELSE {}
OfxDate(c) == IF c.kind = "date" /\ c.date[1] >= 1000 THEN Sane(c.date[1], c.date) ELSE {}
GenericDate(c) ==
  LET y == IF c.date[1] = NoYear THEN Now ELSE Century(c.date[1])
  IN  IF c.date[2] <= 12 /\ c.date[3] <= 31 THEN {<<y, c.date[2], c.date[3]>>} ELSE {}

Amount(c) == IF c.kind = "num" THEN {c.num} ELSE {}

-----------------------------------------------------------------------------
(* Comma-separated values.                                                  *)

StripBom(text) == IF text # <<>> /\ Is(text[1], "bom") THEN Tail(text) ELSE text

Before(text, i, t) == Cardinality({j \in 1..(i - 1) : Is(text[j], t)})

(* The candidate found most often outside quotes in the first five lines.   *)
DetectDelimiter(text) ==
  LET candidate == <<",", ";", "tab">>
      score == [k \in 1..3 |-> Cardinality({i \in DOMAIN text :
                  /\ Is(text[i], candidate[k])
                  /\ Before(text, i, "quote") % 2 = 0
                  /\ Before(text, i, "newline") < 5})]
  IN  candidate[CHOOSE k \in 1..3 : \A l \in 1..3 :
                  score[l] < score[k] \/ (score[l] = score[k] /\ k <= l)]

EndField(s) == [s EXCEPT !.row = Append(@, s.field), !.field = <<>>]
EndRow(s) == [s EXCEPT !.rows = Append(@, s.row), !.row = <<>>]

ScanSymbol(text, delimiter, s, i) ==
  LET c == text[i]
      add == [s EXCEPT !.field = Append(@, c)]
  IN  CASE s.skip -> [s EXCEPT !.skip = FALSE]
        [] ~s.skip /\ s.inQuote /\ ~Is(c, "quote") -> add
        [] ~s.skip /\ s.inQuote /\ Is(c, "quote") ->
             IF i < Len(text) /\ Is(text[i + 1], "quote")
             THEN [add EXCEPT !.skip = TRUE] ELSE [s EXCEPT !.inQuote = FALSE]
        [] ~s.skip /\ ~s.inQuote ->
             CASE Is(c, "quote") -> [s EXCEPT !.inQuote = TRUE]
               [] Is(c, delimiter) -> EndField(s)
               [] Is(c, "return") -> s
               [] Is(c, "newline") -> EndRow(EndField(s))
               [] OTHER -> add

(* The rows of a text that are not blank.                                   *)
ParseRows(text, delimiter) ==
  LET s == FoldLeft(LAMBDA acc, i : ScanSymbol(text, delimiter, acc, i),
             [rows |-> <<>>, row |-> <<>>, field |-> <<>>, inQuote |-> FALSE,
              skip |-> FALSE], [i \in DOMAIN text |-> i])
      last == IF s.field # <<>> \/ s.row # <<>> THEN EndRow(EndField(s)) ELSE s
      blank(row) == \A i \in DOMAIN row : row[i] = <<>>
  IN  Collect([k \in DOMAIN last.rows |->
                 IF blank(last.rows[k]) THEN {} ELSE {last.rows[k]}])

(* What the reader of values makes of a field; column 0 is no column.       *)
FieldDate(field) == IF Len(field) = 1 THEN CsvDate(field[1]) ELSE {}
FieldAmount(field) == IF Len(field) = 1 THEN Amount(field[1]) ELSE {}
At(row, i) == IF i \in DOMAIN row THEN row[i] ELSE <<>>
KindOf(field) ==
  IF field = <<>> THEN "blank"
  ELSE IF FieldDate(field) # {} THEN "date"
  ELSE IF FieldAmount(field) # {} THEN "num" ELSE "text"

Includes(t, s) == \E i \in 0..(Len(t) - Len(s)) : SubSeq(t, i + 1, i + Len(s)) = s

Synonyms == [
  date   |-> {"date", "posted date", "posting date", "post date",
              "transaction date", "trans date", "posted", "date posted"},
  desc   |-> {"description", "memo", "name", "payee", "details", "narrative",
              "transaction description", "merchant"},
  amount |-> {"amount", "value", "transaction amount"},
  debit  |-> {"debit", "debits", "withdrawal", "withdrawals", "amount debit"},
  credit |-> {"credit", "credits", "deposit", "deposits", "amount credit"}]

(* The first column named as one of the synonyms, else the first whose name *)
(* has one inside.                                                          *)
FindCol(header, synonyms) ==
  LET name(i) == IF Len(header[i]) = 1 THEN header[i][1].text ELSE ""
      exact == {i \in DOMAIN header : name(i) \in synonyms}
      fuzzy == {i \in DOMAIN header : \E s \in synonyms : Includes(name(i), s)}
  IN  IF exact # {} THEN Min(exact) ELSE IF fuzzy # {} THEN Min(fuzzy) ELSE 0

DetectMappingFromHeader(header) ==
  LET m == [role \in DOMAIN Synonyms |-> FindCol(header, Synonyms[role])]
  IN  IF m.date = 0 \/ m.desc = 0 \/ {m.amount, m.debit, m.credit} = {0}
      THEN {} ELSE {m}

LooksLikeHeader(row) ==
  LET cells(k) == Cardinality({i \in DOMAIN row : KindOf(row[i]) = k})
  IN  /\ ~(cells("date") >= 1 /\ cells("num") >= 1)
      /\ cells("text") > cells("date") + cells("num")

(* The columns by what twenty rows hold in them.                            *)
InferMappingFromContent(rows) ==
  LET sample == SubSeq(rows, 1, Min({20, Len(rows)}))
      Cols == 1..Max({Len(sample[r]) : r \in DOMAIN sample})
      cells(c, k) == {r \in DOMAIN sample : KindOf(At(sample[r], c)) = k}
      hits == [c \in Cols |-> [k \in {"blank", "date", "num", "text"} |->
                                 Cardinality(cells(c, k))]]
      allPositive(c) == \A r \in cells(c, "num") : sample[r][c][1].num >= 0
      length(c) == MapThenSumSet(LAMBDA r : Len(sample[r][c]), cells(c, "text"))
      filled(c) == Len(sample) - hits[c]["blank"]
      half(c, k) == /\ hits[c][k] >= 1
                    /\ 2 * hits[c][k] >= filled(c)
      date == CHOOSE c \in Cols : \A o \in Cols :
                hits[o]["date"] < hits[c]["date"]
                  \/ (hits[o]["date"] = hits[c]["date"] /\ c <= o)
      amounts == SetToSortSeq({c \in Cols \ {date} : half(c, "num")},
                   LAMBDA a, b : hits[a]["num"] > hits[b]["num"]
                     \/ (hits[a]["num"] = hits[b]["num"] /\ a < b))
      split == Len(amounts) >= 2 /\ allPositive(amounts[1]) /\ allPositive(amounts[2])
      used == {date} \union (IF split THEN {amounts[1], amounts[2]} ELSE {amounts[1]})
      texts == SetToSortSeq({c \in Cols \ used : half(c, "text")},
                 LAMBDA a, b : length(a) * filled(b) > length(b) * filled(a)
                   \/ (length(a) * filled(b) = length(b) * filled(a) /\ a < b))
  IN  IF hits[date]["date"] = 0 \/ amounts = <<>> \/ texts = <<>> THEN {}
      ELSE {[date |-> date, desc |-> texts[1],
             amount |-> IF split THEN 0 ELSE amounts[1],
             debit  |-> IF split THEN amounts[1] ELSE 0,
             credit |-> IF split THEN amounts[2] ELSE 0]}

InspectCsv(rows) ==
  IF LooksLikeHeader(rows[1]) THEN DetectMappingFromHeader(rows[1])
                              ELSE InferMappingFromContent(rows)

(* A mapping may say -1 for no column of amounts, as csv.ts documents it:   *)
(* the test of the first row takes it for a column, and finds nothing.      *)
RowLooksLikeData(row, m) ==
  /\ FieldDate(At(row, m.date)) # {}
  /\ IF m.amount # 0 THEN FieldAmount(At(row, m.amount)) # {}
     ELSE \E c \in {m.debit, m.credit} : FieldAmount(At(row, c)) # {}

RowAmount(row, m) ==
  LET size(c) == Max({Abs(n) : n \in FieldAmount(At(row, c))} \union {0})
  IN  IF m.amount > 0 THEN FieldAmount(At(row, m.amount))
      ELSE IF size(m.debit) = 0 /\ size(m.credit) = 0 THEN {}
      ELSE {size(m.credit) - size(m.debit)}

ParseRow(row, m) ==
  IF At(row, m.desc) = <<>> THEN {}
  ELSE {Tx(d, Texts(At(row, m.desc)), a) :
          d \in FieldDate(At(row, m.date)), a \in RowAmount(row, m)}

(* mapping is the columns the user chose, {} when none were.                *)
ParseCsv(file, mapping) ==
  LET text == StripBom(file)
      rows == ParseRows(text, DetectDelimiter(text))
      data(m) == IF (IF mapping # {} THEN RowLooksLikeData(rows[1], m)
                                     ELSE ~LooksLikeHeader(rows[1]))
                 THEN rows ELSE Tail(rows)
      read == {Collect([i \in DOMAIN data(m) |-> ParseRow(data(m)[i], m)]) :
                 m \in IF mapping # {} THEN mapping ELSE InspectCsv(rows)}
  IN  IF rows = <<>> THEN {} ELSE read \ {<<>>}

-----------------------------------------------------------------------------
(* Quicken's format: a line is a code and the rest, a record its lines up   *)
(* to `^', a `!' line or the end.                                           *)

EmptyRecord == [date |-> {}, amount |-> {}, payee |-> <<>>, memo |-> <<>>]

Line(code, cells) == [code |-> code, cells |-> cells]

(* A payee and a memo that says something else.                             *)
Describe(payee, memo) ==
  LET both == payee \o (IF memo = payee THEN <<>> ELSE memo)
  IN  IF both = <<>> THEN <<"(no description)">> ELSE both

\* Fault: a record that is not kept leaves its fields to the next one.
CommitWhenKept(s) ==
  LET sign == IF s.account = "ccard" THEN -1 ELSE 1
      kept == {Tx(d, Describe(s.record.payee, s.record.memo), sign * a) :
                 d \in s.record.date, a \in s.record.amount}
  IN  [s EXCEPT !.txs = @ \o SetToSeq(kept),
                !.record = IF kept = {} THEN @ ELSE EmptyRecord]

CommitRecord(s) ==
  LET sign == IF s.account = "ccard" THEN -1 ELSE 1
      kept == {Tx(d, Describe(s.record.payee, s.record.memo), sign * a) :
                 d \in s.record.date, a \in s.record.amount}
  IN  [s EXCEPT !.txs = @ \o SetToSeq(kept), !.record = EmptyRecord]

QifLine(s, line) ==
  LET date == QifDate(line.cells[1])
  IN  CASE line.code = "!" -> [CommitRecord(s) EXCEPT !.account = line.cells[1].text]
        [] line.code = "^" -> CommitRecord(s)
        [] line.code = "D" -> IF date = {} THEN s ELSE [s EXCEPT !.record.date = date]
        [] line.code \in {"T", "U"} -> [s EXCEPT !.record.amount = Amount(line.cells[1])]
        [] line.code = "P" -> [s EXCEPT !.record.payee = Texts(line.cells)]
        [] line.code = "M" -> [s EXCEPT !.record.memo = Texts(line.cells)]
        [] OTHER -> s

ParseQif(lines) ==
  {CommitRecord(FoldLeft(QifLine,
     [account |-> "bank", record |-> EmptyRecord, txs |-> <<>>], lines)).txs} \ {<<>>}

-----------------------------------------------------------------------------
(* Open Financial Exchange: a block per transaction, of leaves that version *)
(* 1 does not close.                                                        *)

Leaf(tag, closed, cells) == [tag |-> tag, closed |-> closed, cells |-> cells]

(* Every leaf that holds something is closed.                               *)
NormalizeSgml(block) ==
  [i \in DOMAIN block |-> [block[i] EXCEPT !.closed = @ \/ block[i].cells # <<>>]]

(* The first closed leaf of a tag: {} when there is none.                   *)
ExtractTagValue(block, tag) ==
  LET found == {i \in DOMAIN block : block[i].tag = tag /\ block[i].closed}
  IN  IF found = {} THEN {} ELSE {block[Min(found)].cells}

OfxTransaction(block) ==
  LET value(tag) == ExtractTagValue(block, tag)
      words(tag) == IF value(tag) = {} THEN <<>> ELSE Texts(CHOOSE v \in value(tag) : TRUE)
      posted == IF value("DTPOSTED") # {} THEN value("DTPOSTED") ELSE value("DTUSER")
      dates == UNION {OfxDate(v[1]) : v \in posted \ {<<>>}}
      amounts == UNION {Amount(v[1]) : v \in value("TRNAMT") \ {<<>>}}
  IN  {Tx(d, Describe(words("NAME"), words("MEMO")) \o words("FITID"), a) :
         d \in dates, a \in amounts}

ParseOfx(blocks) ==
  {Collect([i \in DOMAIN blocks |-> OfxTransaction(NormalizeSgml(blocks[i]))])} \ {<<>>}

-----------------------------------------------------------------------------
(* Portable documents: fragments with their place on the page, in 1/16 of a *)
(* point, y growing upwards.                                                *)

Fragment(x, y, cell) == [x |-> x, y |-> y, cell |-> cell]

SortedBy(s, key(_)) ==
  LET order == SortSeq([i \in DOMAIN s |-> i], LAMBDA i, j : key(s[i]) < key(s[j])
                                       \/ (key(s[i]) = key(s[j]) /\ i < j))
  IN  [k \in DOMAIN s |-> s[order[k]]]

(* Fragments within two points of a line's height join it and move it       *)
(* halfway to themselves.                                                   *)
PlaceFragment(lines, f) ==
  LET near == {k \in DOMAIN lines : Abs(lines[k].y - f.y) <= 32}
      k == Min(near)
  IN  IF near = {} THEN Append(lines, [y |-> f.y, items |-> <<f>>])
      ELSE [lines EXCEPT ![k] = [y |-> (@.y + f.y) \div 2, items |-> Append(@.items, f)]]

GroupByLine(page) ==
  LET lines == FoldLeft(PlaceFragment, <<>>, SortedBy(page, LAMBDA f : -f.y))
  IN  [k \in DOMAIN lines |-> SortedBy(lines[k].items, LAMBDA f : f.x)]

Cells(items) == [i \in DOMAIN items |-> items[i].cell]

(* A line that starts with a date, ends with an amount and has words        *)
(* between, of a bank that prints its years so.                             *)
Framed(items, years) ==
  /\ Len(items) >= 3
  /\ items[1].cell.kind = "date" /\ items[1].cell.date[1] \in years
  /\ Last(items).cell.kind = "num" /\ Last(items).cell.text # "paren"

Middle(items) == Texts(Cells(SubSeq(items, 2, Len(items) - 1)))

(* Chase prints no year: a month after the closing one is of the year the   *)
(* statement opens in.  Without its period the statement is of this year.   *)
Chase(lines, head) ==
  LET year(month) == IF ~head THEN Now
                     ELSE IF month > Closing[2] THEN Opening[1] ELSE Closing[1]
      read(l) == IF Framed(l, {NoYear})
                 THEN LET d == l[1].cell.date
                      IN  {Tx(<<year(d[2]), d[2], d[3]>>, Middle(l), Last(l).cell.num)}
                 ELSE {}
  IN  Collect([k \in DOMAIN lines |-> read(lines[k])])

Amex(lines) ==
  LET read(l) == IF Framed(l, 0..99)
                 THEN LET d == l[1].cell.date
                      IN  {Tx(<<2000 + d[1], d[2], d[3]>>, Middle(l), Last(l).cell.num)}
                 ELSE {}
  IN  Collect([k \in DOMAIN lines |-> read(lines[k])])

(* The left edges of M&T's three columns of amounts.                        *)
FindColumns(lines) ==
  LET xs(k, t) == {i \in DOMAIN lines[k] : Is(lines[k][i].cell, t)}
      heads == {k \in DOMAIN lines : \A t \in {"DEPOSITS", "WITHDRAWALS", "DAILY"} :
                  xs(k, t) # {}}
      edge(t) == lines[Min(heads)][Min(xs(Min(heads), t))].x
  IN  IF heads = {} THEN {}
      ELSE {[deposits |-> edge("DEPOSITS"), withdrawals |-> edge("WITHDRAWALS"),
             balance |-> edge("DAILY")]}

(* An amount is what its column says, five points of tolerance to the left; *)
(* the last one of a column counts, and a deposit before a withdrawal.      *)
MtLine(l, cols) ==
  LET rest == Tail(l)
      edge(c) == cols[c] - 80
      money(f) == f.cell.kind = "num" /\ f.cell.text # "paren"
      column(f) == IF ~money(f) THEN "words"
                   ELSE IF f.x >= edge("balance") THEN "balance"
                   ELSE IF f.x >= edge("withdrawals") THEN "withdrawals"
                   ELSE IF f.x >= edge("deposits") THEN "deposits" ELSE "words"
      deposit == {i \in DOMAIN rest : column(rest[i]) = "deposits"}
      withdrawal == {i \in DOMAIN rest : column(rest[i]) = "withdrawals"}
      words == SelectSeq(rest, LAMBDA f : column(f) = "words")
      balance == \E i \in DOMAIN rest : Is(rest[i].cell, "ENDING BALANCE")
      d == l[1].cell.date
  IN  IF \/ l[1].cell.kind # "date" \/ d[1] < 1000 \/ balance
         \/ deposit \union withdrawal = {}
      THEN {}
      ELSE {Tx(d, Texts(Cells(words)),
               IF deposit # {} THEN rest[Max(deposit)].cell.num
                               ELSE -rest[Max(withdrawal)].cell.num)}

Mt(lines) ==
  LET cols == FindColumns(lines)
  IN  IF cols = {} THEN <<>>
      ELSE Collect([k \in DOMAIN lines |->
                      MtLine(lines[k], CHOOSE c \in cols : TRUE)])

(* The heuristic reader: a date and one or two amounts; of two the left one *)
(* is spent and the right one earned.  A line that was read before is       *)
(* dropped.                                                                 *)
GenericAmount(nums) ==
  LET left == nums[1].cell.num
      right == nums[2].cell.num
  IN  IF Len(nums) = 1 THEN left
      ELSE IF left = 0 THEN right
      ELSE IF right = 0 THEN -Abs(left) ELSE right - Abs(left)

GenericLine(l) ==
  LET dates == SelectSeq(Cells(l), LAMBDA c : c.kind = "date")
      nums == SelectSeq(l, LAMBDA f : f.cell.kind = "num")
      words == SelectSeq(Cells(l), LAMBDA c : c.kind = "word"
                                     \/ (c.kind = "num" /\ c.text = "minus"))
      text == IF words = <<>> THEN <<"Unknown">> ELSE Texts(words)
  IN  IF dates = <<>> \/ Len(nums) \notin 1..2 THEN {}
      ELSE {Tx(d, text, GenericAmount(nums)) : d \in GenericDate(dates[1])}

ParseGeneric(lines) ==
  FoldLeft(LAMBDA acc, t : IF Contains(acc, t) THEN acc ELSE Append(acc, t),
           <<>>, Collect([k \in DOMAIN lines |-> GenericLine(lines[k])]))

(* The first template whose bank the text names; what it cannot read goes   *)
(* to the heuristic reader.                                                 *)
ParseStatement(page, marks, head) ==
  LET lines == GroupByLine(page)
      template == CASE "mt" \in marks -> Mt(lines)
                    [] "mt" \notin marks /\ "amex" \in marks -> Amex(lines)
                    [] marks = {"chase"} -> Chase(lines, head)
                    [] OTHER -> <<>>
  IN  {IF template # <<>> THEN template ELSE ParseGeneric(lines)}

-----------------------------------------------------------------------------
(* The bank's side, which is no code of this program: how a form writes a   *)
(* statement.  form.kind is the format, form.head whether it prints its     *)
(* headings, form.dates how it prints a year, form.junk whether something   *)
(* that is no transaction follows each one.                                 *)

Printed(d) ==
  Date(<<CASE form.dates = "long" -> d[1]
           [] form.dates = "short" -> d[1] % 100
           [] form.dates = "none" -> NoYear, d[2], d[3]>>)
Signed(n) == Num(n, IF n >= 0 THEN "plus" ELSE form.sign)
Words(text) == [i \in DOMAIN text |-> Word(text[i])]
Lines(line(_)) == FlattenSeq([i \in DOMAIN txs |-> line(txs[i])])

(* form.variant separates the columns, form.columns names them: <<what it   *)
(* holds, its heading>>.  Words with a special sign in them are quoted.     *)
Quoted(text) ==
  LET special == {form.variant, "quote", "newline", ",", ";"}
      doubled == FlattenSeq([i \in DOMAIN text |->
                   IF text[i] = "quote" THEN <<"quote", "quote">> ELSE <<text[i]>>])
  IN  IF \A i \in DOMAIN text : text[i] \notin special THEN Words(text)
      ELSE <<Word("quote")>> \o Words(doubled) \o <<Word("quote")>>

Field(role, t) ==
  CASE role = "date" -> <<Printed(t.date)>>
    [] role = "desc" -> Quoted(t.text)
    [] role = "amount" -> <<Signed(t.amount)>>
    [] role = "debit" -> IF t.amount < 0 THEN <<Signed(-t.amount)>> ELSE <<>>
    [] role = "credit" -> IF t.amount > 0 THEN <<Signed(t.amount)>> ELSE <<>>
    [] role = "balance" -> <<Num(900, "plus")>>

CsvRow(field(_)) ==
  FlattenSeq([c \in DOMAIN form.columns |->
    (IF c = 1 THEN <<>> ELSE <<Word(form.variant)>>) \o field(form.columns[c])])
  \o <<Word("return"), Word("newline")>>

CsvFile ==
  LET heading(c) == <<Word(c[2])>>
      row(t) == CsvRow(LAMBDA c : Field(c[1], t))
      closing == CsvRow(LAMBDA c : IF c[1] = "desc" THEN <<Word("closing")>> ELSE <<>>)
  IN  <<Word("bom")>> \o (IF form.head THEN CsvRow(heading) ELSE <<>>)
      \o Lines(LAMBDA t : row(t) \o (IF form.junk THEN closing ELSE <<>>))

(* form.none is how the choice says that there is no column of amounts: 0   *)
(* as the page of the import, that leaves the key out, or -1.               *)
ChosenColumns ==
  {[role \in DOMAIN Synonyms |->
     Max({c \in DOMAIN form.columns : form.columns[c][1] = role}
           \union {IF role = "amount" THEN form.none ELSE 0})] :
     m \in {x \in {TRUE} : form.chosen}}

(* form.head: a memo repeats a payee that has nothing to add.               *)
QifFile ==
  LET record(t) ==
        <<Line("D", <<Printed(t.date)>>),
          Line("T", <<Signed(IF form.variant = "ccard" THEN -t.amount ELSE t.amount)>>),
          Line("P", Words(SubSeq(t.text, 1, 1)))>>
        \o (IF Len(t.text) > 1 THEN <<Line("M", Words(Tail(t.text)))>>
            ELSE IF form.head THEN <<Line("M", Words(t.text))>> ELSE <<>>)
        \o <<Line("^", <<>>)>>
      opening == <<Line("M", Words(<<"opening">>)), Line("T", <<Num(900, "plus")>>),
                   Line("^", <<>>)>>
  IN  Front(<<Line("!", Words(<<form.variant>>))>>
            \o Lines(LAMBDA t : (IF form.junk THEN opening ELSE <<>>) \o record(t)))

(* Version 1 leaves its leaves open, an empty memo included.                *)
OfxFile ==
  [i \in DOMAIN txs |->
    LET leaf(tag, cells) == Leaf(tag, form.variant = "2", cells)
        t == txs[i]
    IN  <<leaf(IF form.junk THEN "DTUSER" ELSE "DTPOSTED", <<Printed(t.date)>>),
          leaf("TRNAMT", <<Signed(t.amount)>>),
          leaf("NAME", Words(SubSeq(t.text, 1, 1))),
          leaf("MEMO", Words(Tail(t.text))),
          leaf("FITID", Words(<<ToString(i)>>))>>]

(* A page: one line of fragments below the other, each a little higher or   *)
(* lower than its neighbour.  M&T prints an amount in one of two columns    *)
(* and the balance in a third, form.variant "columns" in two of its own.    *)
PdfFile ==
  LET row(k, cells, xs) == [i \in DOMAIN cells |->
        Fragment(xs[i], -200 * k - 16 * (i % 2), cells[i])]
      place(cells) == [i \in DOMAIN cells |-> 400 * i]
      mt == form.variant = "mt"
      amount(t) == IF mt \/ form.variant = "columns" THEN Num(Abs(t.amount), "plus")
                                                     ELSE Signed(t.amount)
      extra(t) == CASE mt -> <<Num(900, "plus")>>
                    [] form.variant = "columns" -> <<Num(0, "plus")>>
                    [] OTHER -> <<>>
      xs(t) == LET x == place(t.text \o <<"">>)
               IN  x \o (IF mt THEN <<IF t.amount > 0 THEN 2000 ELSE 3000, 4000>>
                         ELSE IF t.amount > 0 THEN <<3000, 2000>> ELSE <<2000, 3000>>)
      line(k, t) == row(k, <<Printed(t.date)>> \o Words(t.text) \o <<amount(t)>> \o extra(t),
                        xs(t))
      junk(k) == row(k, <<Printed(<<2026, 1, 5>>)>> \o Words(<<"ENDING BALANCE">>),
                     <<400, 800>>)
      heading == row(0, Words(<<"DEPOSITS", "WITHDRAWALS", "DAILY">>), <<2000, 3000, 4000>>)
  IN  (IF form.head THEN heading ELSE <<>>)
      \o FlattenSeq([i \in DOMAIN txs |->
           line(2 * i, txs[i]) \o (IF form.junk THEN junk(2 * i + 1) ELSE <<>>)])

-----------------------------------------------------------------------------
FileInit ==
  /\ form \in Form
  /\ txs \in Statement
  /\ out = {}
  /\ done = FALSE

Read(kind, answer) ==
  /\ ~done
  /\ form.kind = kind
  /\ out' = answer
  /\ done' = TRUE
  /\ UNCHANGED <<form, txs>>

FileNext ==
  \/ Read("csv", ParseCsv(CsvFile, ChosenColumns))
  \/ Read("qif", ParseQif(QifFile))
  \/ Read("ofx", ParseOfx(OfxFile))
  \/ Read("pdf", ParseStatement(PdfFile, form.marks, form.head))

FileSpec == FileInit /\ [][FileNext]_fileVars

-----------------------------------------------------------------------------
(* What a bank wrote in one of the forms Form is what is read: every        *)
(* transaction once, in order, with its year, its sign and its own words,   *)
(* whatever stands between, and nothing else.  OFX keeps the bank's         *)
(* identifier at the end of the words.                                      *)
Expected ==
  [i \in DOMAIN txs |->
     [txs[i] EXCEPT !.text = @ \o (IF form.kind = "ofx" THEN <<ToString(i)>> ELSE <<>>)]]

StatementIsRead == done => out = {Expected}
=============================================================================
