----------------------------- MODULE MCParsers -----------------------------
(* Small instances of Parsers for TLC: one to three of four transactions of *)
(* a statement that crosses the year.  MCForm is the forms that the readers *)
(* are meant for and read as they are written: not every form that csv.ts   *)
(* lists is (README, section 6).                                            *)
EXTENDS Parsers

MCOpening == <<2025, 12>>
MCClosing == <<2026, 1>>

shop == Tx(<<2025, 12, 9>>, <<"shop">>, -250)
rent == Tx(<<2026, 1, 5>>, <<"rent", ",", "may">>, -400)
pay == Tx(<<2025, 12, 30>>, <<"pay", "quote", ";">>, 300)
back == Tx(<<2026, 1, 5>>, <<"shop", "newline">>, 100)

(* The heuristic reader drops a line that it has read before, so that no    *)
(* statement here says the same twice.                                      *)
MCStatement ==
  {s \in UNION {[1..n -> {shop, rent, pay, back}] : n \in 1..3} : IsInjective(s)}

Base == [kind |-> "csv", variant |-> ",", columns |-> <<>>, head |-> TRUE,
         chosen |-> FALSE, dates |-> "long", sign |-> "minus", junk |-> FALSE,
         marks |-> {}, none |-> 0]

Signed3 == << <<"date", "posting date">>, <<"desc", "memo">>, <<"amount", "amount">>,
              <<"balance", "balance">> >>
Split4 == << <<"date", "date">>, <<"debit", "withdrawal">>, <<"credit", "deposits">>,
             <<"desc", "payee name">> >>

Csv == {[Base EXCEPT !.variant = d, !.columns = c, !.junk = j, !.dates = y] :
          d \in {",", ";", "tab"}, c \in {Signed3, Split4}, j \in BOOLEAN,
          y \in {"long", "short"}}
Chosen == {[Base EXCEPT !.columns = c, !.chosen = TRUE, !.head = h, !.none = n] :
             c \in {Signed3, Split4}, h \in BOOLEAN, n \in {0, -1}}

(* "Index of the signed amount column, OR -1 if using debit/credit split":  *)
(* in a file without headings the first row is taken for one.               *)
Sentinel == {f \in Chosen : f.columns = Split4 /\ ~f.head /\ f.none = -1}
Bare == {[Base EXCEPT !.columns = SubSeq(Signed3, 1, 3), !.head = FALSE, !.variant = "tab"]}
Qif == {[Base EXCEPT !.kind = "qif", !.variant = a, !.junk = j, !.dates = y, !.sign = "paren",
                        !.head = h] :
          a \in {"bank", "ccard"}, j \in BOOLEAN, h \in BOOLEAN, y \in {"long", "short"}}
Ofx == {[Base EXCEPT !.kind = "ofx", !.variant = v, !.junk = j] :
          v \in {"1", "2"}, j \in BOOLEAN}
Page == [Base EXCEPT !.kind = "pdf"]
Pdf ==
  {[Page EXCEPT !.variant = "chase", !.marks = {"chase"}, !.dates = "none", !.junk = j] :
     j \in BOOLEAN}
  \union {[Page EXCEPT !.variant = "amex", !.marks = m, !.dates = "short"] :
     m \in {{"amex"}, {"amex", "chase"}}}
  \union {[Page EXCEPT !.variant = "mt", !.marks = m, !.junk = TRUE] :
     m \in {{"mt"}, {"mt", "amex"}}}
  \union {[Page EXCEPT !.variant = v, !.sign = "paren", !.dates = y, !.head = FALSE] :
     v \in {"plain", "columns"}, y \in {"long", "short"}}

MCForm == Csv \union (Chosen \ Sentinel) \union Bare \union Qif \union Ofx \union Pdf
=============================================================================
