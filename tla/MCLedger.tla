------------------------------ MODULE MCLedger ------------------------------
(* Small instances of Ledger for TLC. *)
EXTENDS Ledger, TLC

\* No collision: the hash is the triple it is computed from.
MCHashOf(a, d, m) == <<a, d, m>>

\* Every rule matches the first description only; all descriptions are similar.
MCMatches(u, d, m) == d = "coffee"
MCSimilar(d, e) == TRUE

Entry(d, m) == [desc |-> d, amount |-> m]

\* A file with two equal lines, and one whose second line is new.
MCTwinFile == [l \in {1, 2} |-> Entry("coffee", 5)]
MCMixedFile == [l \in {1, 2} |-> Entry(IF l = 1 THEN "coffee" ELSE "rent", 5)]
MCOneLine == [l \in {1} |-> Entry("coffee", 5)]

MCFiles == {MCTwinFile, MCMixedFile}
MCShortFiles == {MCOneLine}

\* PATCH bodies: the web client's category choice, tax text, and edits of one hashed field.
NoForm == [desc |-> None, amount |-> None, cat |-> None, tax |-> FALSE]
MCChoose == {[NoForm EXCEPT !.cat = c] : c \in Category}
MCEdits == {[NoForm EXCEPT !.desc = "rent"], [NoForm EXCEPT !.amount = -5]}
MCNoForms == {}
MCForms == {[NoForm EXCEPT !.desc = "rent"], [NoForm EXCEPT !.tax = TRUE],
            [NoForm EXCEPT !.cat = CHOOSE c \in Category : TRUE]}

\* Rules of every account, rules of one account each, and rules yet to be made.
MCGeneralRules == [Rule -> [cat : Category, scope : {None}, tax : {TRUE}]]
MCScopedRules == [Rule -> [cat : Category, scope : Account, tax : {TRUE}]]
MCLateRules == {[u \in Rule |-> NotYet]} \cup MCGeneralRules

\* Any strict order will do; model values have none, so CHOOSE picks one.
MCRank == CHOOSE f \in [Rule -> 1 .. Cardinality(Rule)] :
            \A u, v \in Rule : u # v => f[u] # f[v]
MCSymmetry == Permutations(Request)

MCAmount == {5, -5}
MCDesc == {"coffee", "rent"}
=============================================================================
