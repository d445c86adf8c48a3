----------------------------- MODULE BooksProofs -----------------------------
(***************************************************************************)
(* Types of Books, the ticks, and the agreement of its reports, for any    *)
(* number of transactions, categories, clicks and requests.                *)
(***************************************************************************)
EXTENDS Books, FiniteSetTheorems, WellFoundedInduction, TLAPS

-----------------------------------------------------------------------------
(* The calls, as TypeOK leaves them open.                                   *)

Lists == Partial(Tx, Row)
Fields == {"op", "arg", "only", "step", "got"}

(* What a PATCH changes; the server looks the category up itself.           *)
ChangeOK(change) ==
  \/ DOMAIN change = {}
  \/ DOMAIN change = {"amount"} /\ change.amount \in Amount
  \/ DOMAIN change = {"cat", "src"} /\ change.src = "manual"

Shape(q) ==
  /\ DOMAIN q = Fields
  /\ q.only \in BOOLEAN /\ q.step \in Answer
  /\ q.step = "bad" => q.got = None
  /\ q.op = "load" /\ q.step = "sent" =>
       /\ DOMAIN q.got = {"rows", "cats"}
       /\ q.got.rows \in Some(Lists) /\ q.got.cats \in Some(SUBSET Category)
  /\ q.op = "load" /\ q.step = "ok" => q.got.rows \in Lists /\ q.got.cats \in SUBSET Category
  /\ q.op \in {"patch", "edit"} => ChangeOK(q.arg.change)
  /\ q.op = "put" => q.arg.lines \in Split
  /\ q.op = "create" => q.arg.cat \in Category
  /\ q.op = "ai" /\ q.step = "sent" => q.got \in Some(SUBSET Category)
  /\ q.op = "ai" /\ q.step = "ok" => q.got \in Some(Category)
  /\ q.op = "split" /\ q.step = "ok" => q.got = None

CallsOK == DOMAIN calls \subseteq Call /\ \A c \in DOMAIN calls : Shape(calls[c])
PastOK == past \in [acts : 0..MaxActs, elsewhere : 0..MaxElsewhere, edited : SUBSET Tx]

TypeInv == TablesOK /\ PageOK /\ CallsOK /\ PastOK

(* A row that was not edited since has the amount that its split adds up to, *)
(* to a cent.                                                               *)
SplitsFit ==
  \A t \in DOMAIN rows \ past.edited :
    splits[t] # NoSplit => Sum(splits[t]) - rows[t].amount \in -1..1

-----------------------------------------------------------------------------
(* Sums over finite sets.                                                   *)

(* A set of numbers has a least one.                                        *)
LEMMA Least ==
  ASSUME NEW S \in SUBSET Nat, S # {}
  PROVE  \E x \in S : \A y \in S : x <= y
<1> DEFINE less == {ss \in Nat \X Nat : ss[1] < ss[2]}
<1>1. less = OpToRel(<, Nat)
  BY DEF OpToRel
<1>2. IsWellFoundedOn(less, Nat)
  BY <1>1, NatLessThanWellFounded
<1> HIDE DEF less
<1>3. PICK x \in S : \A y \in S : <<y, x>> \notin less
  BY <1>2, WFMin
<1>4. ASSUME NEW y \in S PROVE x <= y
  <2>1. x \in Nat /\ y \in Nat /\ ~(y < x)
    BY <1>3 DEF less
  <2> QED BY <2>1
<1> QED BY <1>3, <1>4

(* Induction over the subsets of a finite set, for a set G in place of a    *)
(* predicate: what holds of {}, and of a set when it holds of all that have *)
(* one element less, holds of every subset.                                 *)
LEMMA SetInduction ==
  ASSUME NEW D, IsFiniteSet(D), NEW G, {} \in G,
         \A s \in SUBSET D : s # {} /\ (\A x \in s : s \ {x} \in G) => s \in G
  PROVE  SUBSET D \subseteq G
<1>1. \A s \in SUBSET D : IsFiniteSet(s) /\ Cardinality(s) \in Nat
  BY FS_Subset, FS_CardinalityType
<1> DEFINE Bad == {s \in SUBSET D : s \notin G}
           Sizes == {Cardinality(s) : s \in Bad}
<1> SUFFICES ASSUME Bad # {} PROVE FALSE
  OBVIOUS
<1>2. Sizes \in SUBSET Nat /\ Sizes # {}
  BY <1>1
<1>3. PICK n \in Sizes : \A m \in Sizes : n <= m
  <2> HIDE DEF Sizes
  <2> QED BY <1>2, Least
<1>4. PICK s \in Bad : n = Cardinality(s)
  BY <1>3
<1>5. ASSUME NEW x \in s PROVE s \ {x} \in G
  <2>1. Cardinality(s \ {x}) = Cardinality(s) - 1
    BY <1>1, <1>4, FS_RemoveElement
  <2>2. n \in Nat /\ ~(n <= n - 1)
    BY <1>2, <1>3
  <2>4. ~(n <= Cardinality(s \ {x}))
    <3> HIDE DEF Bad, Sizes
    <3> QED BY <1>4, <2>1, <2>2
  <2>3. s \ {x} \notin Bad
    BY <1>3, <2>4
  <2> QED BY <2>3
<1> QED BY <1>4, <1>5

(* MapThenSumSet picks an element and adds its value to the sum of the rest: *)
(* Running(f) is the function of the subsets of f's domain that it defines. *)
Pick(s) == CHOOSE x \in s : TRUE
Adds(f, g, D) == g = [s \in D |-> IF s = {} THEN 0 ELSE f[Pick(s)] + g[s \ {Pick(s)}]]
Running(f) == CHOOSE g : Adds(f, g, SUBSET DOMAIN f)

LEMMA SumIs == ASSUME NEW f PROVE Sum(f) = Running(f)[DOMAIN f]
BY DEF Sum, MapThenSumSet, MapThenFoldSet, Running, Adds, Pick

LEMMA Picked == ASSUME NEW s, s # {} PROVE Pick(s) \in s
BY DEF Pick

(* The equation of a running sum, on the subsets of D alone.                *)
Follows(f, g, D) ==
  /\ g[{}] = 0
  /\ \A s \in SUBSET D : s # {} => g[s] = f[Pick(s)] + g[s \ {Pick(s)}]

LEMMA AddsAt ==
  ASSUME NEW D, NEW f, NEW g, Adds(f, g, SUBSET D)
  PROVE  \A E \in SUBSET D : Follows(f, g, E)
<1>1. {} \in SUBSET D
  OBVIOUS
<1>2. Follows(f, g, D)
  BY <1>1 DEF Adds, Follows
<1> QED BY <1>2 DEF Follows

(* Two running sums agree on a set where the functions do.                  *)
LEMMA Agree ==
  ASSUME NEW D, IsFiniteSet(D), NEW f, NEW g, NEW fs, NEW gs,
         Follows(f, fs, D), Follows(g, gs, D),
         \A x \in D : f[x] = g[x]
  PROVE  \A s \in SUBSET D : fs[s] = gs[s]
<1> DEFINE G == {s \in SUBSET D : fs[s] = gs[s]}
<1>1. {} \in G
  BY DEF Follows
<1>2. ASSUME NEW s \in SUBSET D, s # {}, \A x \in s : s \ {x} \in G
      PROVE  s \in G
  <2>1. Pick(s) \in s
    BY <1>2, Picked
  <2>2. fs[s \ {Pick(s)}] = gs[s \ {Pick(s)}]
    BY <1>2, <2>1
  <2>3. fs[s] = f[Pick(s)] + fs[s \ {Pick(s)}]
    BY <1>2 DEF Follows
  <2>4. gs[s] = g[Pick(s)] + gs[s \ {Pick(s)}]
    BY <1>2 DEF Follows
  <2>5. f[Pick(s)] = g[Pick(s)]
    BY <2>1
  <2> QED BY <2>2, <2>3, <2>4, <2>5
<1>3. SUBSET D \subseteq G
  <2> HIDE DEF G
  <2> QED BY <1>1, <1>2, SetInduction
<1> QED BY <1>3

LEMMA Removed ==
  ASSUME NEW D, IsFiniteSet(D), NEW s \in SUBSET D
  PROVE  /\ IsFiniteSet(s) /\ Cardinality(s) \in Nat
         /\ Cardinality(s) = 0 <=> s = {}
         /\ \A x \in s : s \ {x} \in SUBSET D /\ Cardinality(s \ {x}) = Cardinality(s) - 1
<1>1. IsFiniteSet(s) /\ Cardinality(s) \in Nat
  BY FS_Subset, FS_CardinalityType
<1>2. Cardinality(s) = 0 <=> s = {}
  BY <1>1, FS_EmptySet
<1>3. ASSUME NEW x \in s PROVE Cardinality(s \ {x}) = Cardinality(s) - 1
  BY <1>1, <1>3, FS_RemoveElement
<1> QED BY <1>1, <1>2, <1>3

(* A running sum exists: it is built for the sets of at most n elements.    *)
LEMMA RunningExists ==
  ASSUME NEW D, IsFiniteSet(D), NEW f \in [D -> Int]
  PROVE  \E g \in [SUBSET D -> Int] : Adds(f, g, SUBSET D)
<1> DEFINE Up(n) == {s \in SUBSET D : Cardinality(s) <= n}
           Has(n) == \E g \in [Up(n) -> Int] : Adds(f, g, Up(n))
<1>1. Has(0)
  <2> DEFINE g == [s \in Up(0) |-> 0]
  <2>1. \A s \in Up(0) : s = {}
    BY Removed
  <2>2. g \in [Up(0) -> Int] /\ Adds(f, g, Up(0))
    BY <2>1 DEF Adds
  <2> QED BY <2>2
<1>2. ASSUME NEW n \in Nat, Has(n) PROVE Has(n + 1)
  <2>1. PICK g \in [Up(n) -> Int] : Adds(f, g, Up(n))
    BY <1>2
  <2> DEFINE next(s) == IF s = {} THEN 0 ELSE f[Pick(s)] + g[s \ {Pick(s)}]
             h == [s \in Up(n + 1) |-> next(s)]
  <2>2. ASSUME NEW s \in Up(n + 1), s # {}
        PROVE  Pick(s) \in D /\ s \ {Pick(s)} \in Up(n)
    <3>1. Pick(s) \in s /\ s \in SUBSET D /\ Cardinality(s) <= n + 1
      BY <2>2, Picked
    <3>2. s \ {Pick(s)} \in SUBSET D /\ Cardinality(s \ {Pick(s)}) = Cardinality(s) - 1 /\ Cardinality(s) \in Nat
      BY <3>1, Removed
    <3> QED BY <3>1, <3>2
  <2>3. \A s \in Up(n + 1) : next(s) \in Int
    BY <2>2
  <2>4. h \in [Up(n + 1) -> Int]
    BY <2>3
  <2>5. \A s \in Up(n) : s \in Up(n + 1) /\ g[s] = next(s)
    <3>1. \A s \in Up(n) : s \in Up(n + 1)
      <4> SUFFICES ASSUME NEW s \in Up(n) PROVE Cardinality(s) <= n + 1
        OBVIOUS
      <4>1. Cardinality(s) \in Nat
        BY Removed
      <4> QED BY <4>1
    <3>2. \A s \in Up(n) : g[s] = next(s)
      BY <2>1 DEF Adds
    <3> QED BY <3>1, <3>2
  <2>6. \A s \in Up(n + 1) : s # {} => h[s \ {Pick(s)}] = g[s \ {Pick(s)}]
    BY <2>2, <2>5
  <2>7. Adds(f, h, Up(n + 1))
    <3>1. \A s \in Up(n + 1) : h[s] = IF s = {} THEN 0 ELSE f[Pick(s)] + h[s \ {Pick(s)}]
      BY <2>6
    <3>2. h = [s \in Up(n + 1) |-> h[s]]
      OBVIOUS
    <3> HIDE DEF h, next, Up
    <3>3. h = [s \in Up(n + 1) |-> IF s = {} THEN 0 ELSE f[Pick(s)] + h[s \ {Pick(s)}]]
      BY <3>1, <3>2
    <3> QED BY <3>3 DEF Adds
  <2> QED BY <2>4, <2>7
<1> HIDE DEF Has
<1> DEFINE Bad == {n \in Nat : ~Has(n)}
<1>3. Bad = {}
  <2> SUFFICES ASSUME Bad # {} PROVE FALSE
    OBVIOUS
  <2>1. PICK m \in Bad : \A n \in Bad : m <= n
    BY Least
  <2>2. m # 0 /\ m - 1 \in Nat /\ (m - 1) + 1 = m
    BY <1>1
  <2>3. Has(m - 1)
    BY <2>1, <2>2
  <2> QED BY <1>2, <2>2, <2>3
<1>4. Has(Cardinality(D))
  BY <1>3, FS_CardinalityType
<1>5. Up(Cardinality(D)) = SUBSET D
  <2>1. \A s \in SUBSET D : Cardinality(s) <= Cardinality(D)
    BY FS_Subset
  <2> QED BY <2>1
<1> QED BY <1>4, <1>5 DEF Has

LEMMA RunningIs ==
  ASSUME NEW f, IsFiniteSet(DOMAIN f), f \in [DOMAIN f -> Int]
  PROVE  /\ \A E \in SUBSET DOMAIN f : Follows(f, Running(f), E)
         /\ \A s \in SUBSET DOMAIN f : Running(f)[s] \in Int
<1> DEFINE D == DOMAIN f
<1>1. PICK g \in [SUBSET D -> Int] : Adds(f, g, SUBSET D)
  BY RunningExists
<1>2. Adds(f, Running(f), SUBSET D)
  BY <1>1 DEF Running
<1>3. \A E \in SUBSET D : Follows(f, Running(f), E)
  BY <1>2, AddsAt
<1>4. Follows(f, g, D) /\ Follows(f, Running(f), D)
  BY <1>1, <1>2, AddsAt
<1>5. \A s \in SUBSET D : Running(f)[s] = g[s]
  <2> DEFINE R == Running(f)
  <2> HIDE DEF R, D
  <2>1. Follows(f, R, D) /\ IsFiniteSet(D)
    BY <1>4 DEF R, D
  <2>2. \A s \in SUBSET D : R[s] = g[s]
    BY <1>4, <2>1, Agree
  <2> QED BY <2>2 DEF R
<1> QED BY <1>1, <1>3, <1>5

(* The sum of a part of a function is the running sum there.                *)
LEMMA SumRestricted ==
  ASSUME NEW f, IsFiniteSet(DOMAIN f), f \in [DOMAIN f -> Int], NEW D \in SUBSET DOMAIN f
  PROVE  Sum(Restricted(f, D)) = Running(f)[D]
<1> DEFINE h == Restricted(f, D)
<1>1. DOMAIN h = D /\ h \in [D -> Int] /\ IsFiniteSet(D) /\ \A x \in D : h[x] = f[x]
  BY FS_Subset DEF Restricted
<1> HIDE DEF h
<1>2. Follows(h, Running(h), D) /\ Follows(f, Running(f), D)
  BY <1>1, RunningIs
<1>3. \A s \in SUBSET D : Running(h)[s] = Running(f)[s]
  <2> DEFINE H == Running(h)
             F == Running(f)
  <2>1. Follows(h, H, D) /\ Follows(f, F, D)
    BY <1>2
  <2> HIDE DEF H, F
  <2>2. \A s \in SUBSET D : H[s] = F[s]
    BY <1>1, <2>1, Agree
  <2> QED BY <2>2 DEF H, F
<1>4. Sum(h) = Running(h)[D]
  BY <1>1, SumIs
<1> QED BY <1>3, <1>4 DEF h

(* It does not matter which element is taken away.                          *)
LEMMA RunningStep ==
  ASSUME NEW f, IsFiniteSet(DOMAIN f), f \in [DOMAIN f -> Int]
  PROVE  \A s \in SUBSET DOMAIN f : \A x \in s : Running(f)[s] = f[x] + Running(f)[s \ {x}]
<1> DEFINE D == DOMAIN f
           R == Running(f)
           G == {s \in SUBSET D : \A x \in s : R[s] = f[x] + R[s \ {x}]}
<1>1. /\ Follows(f, R, D)
      /\ \A s \in SUBSET D : R[s] \in Int
      /\ \A x \in D : f[x] \in Int
  BY RunningIs
<1> HIDE DEF R
<1>2. {} \in G
  OBVIOUS
<1>3. ASSUME NEW s \in SUBSET D, s # {}, \A x \in s : s \ {x} \in G
      PROVE  s \in G
  <2> SUFFICES ASSUME NEW x \in s PROVE R[s] = f[x] + R[s \ {x}]
    BY <1>3
  <2> DEFINE p == Pick(s)
             both == (s \ {x}) \ {p}
  <2>1. p \in s
    BY <1>3, Picked
  <2> HIDE DEF p
  <2>2. R[s] = f[p] + R[s \ {p}]
    BY <1>1, <1>3 DEF p, Follows
  <2>3. CASE x = p
    BY <2>2, <2>3
  <2>4. CASE x # p
    <3>1. R[s \ {p}] = f[x] + R[(s \ {p}) \ {x}]
      BY <1>3, <2>1, <2>4
    <3>2. R[s \ {x}] = f[p] + R[both]
      BY <1>3, <2>1, <2>4
    <3>3. (s \ {p}) \ {x} = both
      OBVIOUS
    <3>4. both \in SUBSET D /\ x \in D /\ p \in D
      BY <2>1
    <3> HIDE DEF both
    <3>5. R[both] \in Int /\ f[x] \in Int /\ f[p] \in Int
      BY <1>1, <3>4
    <3>6. R[s] = f[p] + (f[x] + R[both])
      BY <2>2, <3>1, <3>3
    <3>7. f[p] + (f[x] + R[both]) = f[x] + (f[p] + R[both])
      BY <3>5
    <3> QED BY <3>2, <3>6, <3>7
  <2> QED BY <2>3, <2>4
<1>4. SUBSET D \subseteq G
  <2> HIDE DEF G
  <2> QED BY <1>2, <1>3, SetInduction
<1> QED BY <1>4 DEF R

(* What the rest needs to know of a sum.                                    *)
IntFunction(f) == IsFiniteSet(DOMAIN f) /\ f \in [DOMAIN f -> Int]

LEMMA SumInt == ASSUME NEW f, IntFunction(f) PROVE Sum(f) \in Int
<1>1. \A s \in SUBSET DOMAIN f : Running(f)[s] \in Int
  BY RunningIs DEF IntFunction
<1> QED BY <1>1, SumIs

(* A sum grows by the value at the element that is added.                   *)
LEMMA SumParts ==
  ASSUME NEW f, IntFunction(f)
  PROVE  /\ Sum(Restricted(f, {})) = 0
         /\ Sum(Restricted(f, DOMAIN f)) = Sum(f)
         /\ \A s \in SUBSET DOMAIN f :
              /\ Sum(Restricted(f, s)) \in Int
              /\ \A x \in s : Sum(Restricted(f, s)) = f[x] + Sum(Restricted(f, s \ {x}))
<1> DEFINE D == DOMAIN f
           R == Running(f)
<1>1. /\ Follows(f, R, D) /\ \A s \in SUBSET D : R[s] \in Int
      /\ \A s \in SUBSET D : \A x \in s : R[s] = f[x] + R[s \ {x}]
  BY RunningIs, RunningStep DEF IntFunction
<1>2. \A s \in SUBSET D : Sum(Restricted(f, s)) = R[s]
  BY SumRestricted DEF IntFunction
<1>3. Sum(f) = R[D]
  BY SumIs
<1> HIDE DEF R
<1>4. {} \in SUBSET D /\ D \in SUBSET D /\ \A s \in SUBSET D : \A x \in s : s \ {x} \in SUBSET D
  OBVIOUS
<1> QED BY <1>1, <1>2, <1>3, <1>4 DEF Follows

(* The sum of a sum of functions.                                           *)
LEMMA SumPlus ==
  ASSUME NEW f, NEW g, NEW h, IntFunction(f), IntFunction(g), IntFunction(h),
         DOMAIN f = DOMAIN h, DOMAIN g = DOMAIN h,
         \A x \in DOMAIN h : h[x] = f[x] + g[x]
  PROVE  Sum(h) = Sum(f) + Sum(g)
<1> DEFINE D == DOMAIN h
           F(s) == Sum(Restricted(f, s))
           H(s) == Sum(Restricted(h, s))
           J(s) == Sum(Restricted(g, s))
           G == {s \in SUBSET D : H(s) = F(s) + J(s)}
<1>1. /\ F({}) = 0 /\ F(D) = Sum(f)
      /\ \A s \in SUBSET D : F(s) \in Int /\ \A x \in s : F(s) = f[x] + F(s \ {x})
  BY SumParts
<1>2. /\ J({}) = 0 /\ J(D) = Sum(g)
      /\ \A s \in SUBSET D : J(s) \in Int /\ \A x \in s : J(s) = g[x] + J(s \ {x})
  BY SumParts
<1>3. /\ H({}) = 0 /\ H(D) = Sum(h)
      /\ \A s \in SUBSET D : H(s) \in Int /\ \A x \in s : H(s) = h[x] + H(s \ {x})
  BY SumParts
<1>4. \A x \in D : f[x] \in Int /\ g[x] \in Int
  BY DEF IntFunction
<1> HIDE DEF F, H, J
<1>5. {} \in G
  BY <1>1, <1>2, <1>3
<1>6. ASSUME NEW s \in SUBSET D, s # {}, \A x \in s : s \ {x} \in G
      PROVE  s \in G
  <2>1. PICK x \in s : TRUE
    BY <1>6
  <2>2. s \ {x} \in SUBSET D /\ H(s \ {x}) = F(s \ {x}) + J(s \ {x})
    BY <1>6
  <2>3. /\ F(s) = f[x] + F(s \ {x}) /\ J(s) = g[x] + J(s \ {x}) /\ H(s) = h[x] + H(s \ {x})
        /\ F(s \ {x}) \in Int /\ J(s \ {x}) \in Int /\ f[x] \in Int /\ g[x] \in Int
        /\ h[x] = f[x] + g[x]
    BY <1>1, <1>2, <1>3, <1>4, <2>2
  <2>4. H(s) = F(s) + J(s)
    BY <2>2, <2>3
  <2> QED BY <2>4
<1>7. SUBSET D \subseteq G
  <2> HIDE DEF G
  <2>1. IsFiniteSet(D)
    BY DEF IntFunction
  <2> QED BY <1>5, <1>6, <2>1, SetInduction
<1>8. D \in G
  BY <1>7
<1> QED BY <1>1, <1>2, <1>3, <1>8

(* Zeros add nothing.                                                       *)
LEMMA SumSupport ==
  ASSUME NEW f, IntFunction(f), NEW E \in SUBSET DOMAIN f,
         \A x \in DOMAIN f \ E : f[x] = 0
  PROVE  Sum(f) = Sum(Restricted(f, E))
<1> DEFINE D == DOMAIN f
           F(s) == Sum(Restricted(f, s))
           G == {s \in SUBSET D : F(s) = F(s \cap E)}
<1>1. /\ F(D) = Sum(f)
      /\ \A s \in SUBSET D : F(s) \in Int /\ \A x \in s : F(s) = f[x] + F(s \ {x})
  BY SumParts
<1> HIDE DEF F
<1>2. {} \in G
  <2>1. {} \cap E = {}
    OBVIOUS
  <2> QED BY <2>1
<1>3. ASSUME NEW s \in SUBSET D, s # {}, \A x \in s : s \ {x} \in G
      PROVE  s \in G
  <2>1. PICK x \in s : TRUE
    BY <1>3
  <2>2. PICK r \in SUBSET D : r = (s \ {x}) \cap E
    OBVIOUS
  <2>3. F(s) = f[x] + F(r) /\ F(r) \in Int
    <3>1. F(s) = f[x] + F(s \ {x})
      BY <1>1
    <3>2. F(s \ {x}) = F(r)
      BY <1>3, <2>2
    <3> QED BY <1>1, <3>1, <3>2
  <2>4. CASE x \in E
    <3>1. PICK w \in SUBSET D : w = s \cap E
      OBVIOUS
    <3>2. x \in w /\ w \ {x} = r
      BY <2>2, <2>4, <3>1
    <3>3. F(w) = f[x] + F(r)
      BY <1>1, <3>2
    <3> QED BY <2>3, <3>1, <3>3
  <2>5. CASE x \notin E
    <3>1. PICK w : w = s \cap E
      OBVIOUS
    <3>2. w = r
      BY <2>2, <2>5, <3>1
    <3>3. F(s) = F(w)
      BY <2>3, <2>5, <3>2
    <3> QED BY <3>1, <3>3
  <2> QED BY <2>4, <2>5
<1>4. SUBSET D \subseteq G
  <2> HIDE DEF G
  <2>1. IsFiniteSet(D)
    BY DEF IntFunction
  <2>2. \A s \in SUBSET D : s # {} /\ (\A x \in s : s \ {x} \in G) => s \in G
    BY <1>3
  <2> HIDE DEF D
  <2> QED BY <1>2, <2>1, <2>2, SetInduction
<1>5. D \in G /\ D \cap E = E
  BY <1>4
<1> QED BY <1>1, <1>5 DEF F

LEMMA SumOne ==
  ASSUME NEW f, IntFunction(f), NEW x \in DOMAIN f, \A y \in DOMAIN f \ {x} : f[y] = 0
  PROVE  Sum(f) = f[x]
<1>1. Sum(f) = Sum(Restricted(f, {x}))
  BY SumSupport
<1>2. Sum(Restricted(f, {x})) = f[x] + Sum(Restricted(f, {x} \ {x}))
  BY SumParts
<1>3. Sum(Restricted(f, {x} \ {x})) = 0 /\ f[x] \in Int
  <2>1. {x} \ {x} = {}
    OBVIOUS
  <2> QED BY <2>1, SumParts DEF IntFunction
<1> QED BY <1>1, <1>2, <1>3

-----------------------------------------------------------------------------
(* The reports, one row more.                                               *)

LEMMA TotalStep ==
  ASSUME TablesOK, NEW S \in SUBSET DOMAIN rows
  PROVE  /\ Total({}) = 0 /\ Total(S) \in Int
         /\ \A t \in S : rows[t].amount \in Int /\ Total(S) = rows[t].amount + Total(S \ {t})
<1> DEFINE f == [t \in DOMAIN rows |-> rows[t].amount]
<1>1. \A t \in DOMAIN rows : rows[t].amount \in Int
  BY BooksAssumption DEF TablesOK, Row
<1>2. IsFiniteSet(DOMAIN rows)
  BY BooksAssumption, FS_Subset DEF TablesOK
<1>3. IntFunction(f)
  BY <1>1, <1>2 DEF IntFunction
<1>4. \A T \in SUBSET DOMAIN rows : Restricted(f, T) = [t \in T |-> rows[t].amount]
  BY DEF Restricted
<1>5. \A T \in SUBSET DOMAIN rows : Total(T) = Sum(Restricted(f, T))
  BY <1>4 DEF Total
<1>6. DOMAIN f = DOMAIN rows /\ \A t \in DOMAIN rows : f[t] = rows[t].amount
  OBVIOUS
<1> HIDE DEF f
<1>7. {} \in SUBSET DOMAIN rows /\ \A t \in S : S \ {t} \in SUBSET DOMAIN rows
  OBVIOUS
<1>8. Total({}) = 0 /\ Total(S) \in Int
  BY <1>3, <1>5, <1>6, <1>7, SumParts
<1>9. ASSUME NEW t \in S PROVE Total(S) = rows[t].amount + Total(S \ {t})
  <2>1. Sum(Restricted(f, S)) = f[t] + Sum(Restricted(f, S \ {t}))
    BY <1>3, <1>6, SumParts
  <2> QED BY <1>5, <1>6, <1>7, <2>1
<1> QED BY <1>1, <1>8, <1>9

(* The lines of one category.                                               *)
Lines(S, k) == Sum([t \in {u \in S : k \in DOMAIN splits[u]} |-> splits[t][k]])

LEMMA SplitTyped ==
  ASSUME TablesOK, NEW t \in DOMAIN rows
  PROVE  IntFunction(splits[t]) /\ DOMAIN splits[t] \subseteq categories
<1>1. PICK D \in SUBSET Category : splits[t] \in [D -> Part]
  BY DEF TablesOK, Split, Partial
<1>2. IsFiniteSet(D) /\ Part \subseteq Int
  BY BooksAssumption, FS_Subset
<1>3. DOMAIN splits[t] = D /\ splits[t] \in [D -> Int]
  BY <1>1, <1>2
<1> QED BY <1>2, <1>3 DEF IntFunction, TablesOK

LEMMA LinesStep ==
  ASSUME TablesOK, NEW S \in SUBSET DOMAIN rows, NEW k
  PROVE  /\ Lines({}, k) = 0 /\ Lines(S, k) \in Int
         /\ \A t \in S :
              /\ k \notin DOMAIN splits[t] => Lines(S, k) = Lines(S \ {t}, k)
              /\ k \in DOMAIN splits[t] =>
                   splits[t][k] \in Int /\ Lines(S, k) = splits[t][k] + Lines(S \ {t}, k)
<1> DEFINE H(T) == {u \in T : k \in DOMAIN splits[u]}
           W == H(DOMAIN rows)
           f == [t \in W |-> splits[t][k]]
<1>1. \A t \in W : splits[t][k] \in Int
  BY SplitTyped DEF IntFunction
<1>2. IsFiniteSet(W)
  <2>1. W \in SUBSET DOMAIN rows /\ IsFiniteSet(DOMAIN rows)
    BY BooksAssumption, FS_Subset DEF TablesOK
  <2> QED BY <2>1, FS_Subset
<1>3. IntFunction(f)
  BY <1>1, <1>2 DEF IntFunction
<1>4. \A T \in SUBSET DOMAIN rows : H(T) \in SUBSET W
  OBVIOUS
<1>5. \A T \in SUBSET DOMAIN rows : Lines(T, k) = Sum(Restricted(f, H(T)))
  <2> SUFFICES ASSUME NEW T \in SUBSET DOMAIN rows PROVE Lines(T, k) = Sum(Restricted(f, H(T)))
    OBVIOUS
  <2>1. Restricted(f, H(T)) = [t \in H(T) |-> splits[t][k]]
    BY <1>4 DEF Restricted
  <2> QED BY <2>1 DEF Lines
<1>6. DOMAIN f = W /\ \A t \in W : f[t] = splits[t][k]
  OBVIOUS
<1>7. H({}) = {} /\ {} \in SUBSET DOMAIN rows
  OBVIOUS
<1>8. Lines({}, k) = 0
  <2>1. Sum(Restricted(f, {})) = 0
    BY <1>3, SumParts
  <2> QED BY <1>5, <1>7, <2>1
<1>9. Lines(S, k) \in Int
  <2> HIDE DEF f, W, H
  <2>1. H(S) \in SUBSET DOMAIN f
    BY <1>4, <1>6
  <2>2. Sum(Restricted(f, H(S))) \in Int
    BY <1>3, <2>1, SumParts
  <2> QED BY <1>5, <2>2
<1>10. ASSUME NEW t \in S, k \notin DOMAIN splits[t]
       PROVE  Lines(S, k) = Lines(S \ {t}, k)
  <2>1. H(S) = H(S \ {t})
    BY <1>10
  <2>2. {u \in S : k \in DOMAIN splits[u]} = {u \in S \ {t} : k \in DOMAIN splits[u]}
    BY <2>1
  <2> QED BY <2>2 DEF Lines
<1>11. ASSUME NEW t \in S, k \in DOMAIN splits[t]
       PROVE  splits[t][k] \in Int /\ Lines(S, k) = splits[t][k] + Lines(S \ {t}, k)
  <2>1. t \in H(S) /\ t \in W /\ S \ {t} \in SUBSET DOMAIN rows
    BY <1>11
  <2>2. H(S) \ {t} = H(S \ {t})
    OBVIOUS
  <2>3. H(S) \in SUBSET W
    BY <1>4
  <2> HIDE DEF f, W, H
  <2>4. Sum(Restricted(f, H(S))) = f[t] + Sum(Restricted(f, H(S) \ {t}))
    BY <1>3, <1>6, <2>1, <2>3, SumParts
  <2>5. Lines(S, k) = f[t] + Lines(S \ {t}, k)
    BY <1>5, <2>1, <2>2, <2>4
  <2> QED BY <1>1, <1>6, <2>1, <2>5
<1> QED BY <1>8, <1>9, <1>10, <1>11

(* What a row adds to the report by category.                               *)
Reported == Some(categories) \ transfers
Share(t) ==
  [k \in Reported |->
     IF splits[t] = NoSplit THEN IF rows[t].cat = k THEN rows[t].amount ELSE 0
     ELSE IF k \in DOMAIN splits[t] THEN splits[t][k] ELSE 0]

LEMMA ReportTyped ==
  ASSUME TablesOK
  PROVE  /\ \A S \in SUBSET DOMAIN rows : IntFunction(ByCategory(S)) /\ DOMAIN ByCategory(S) = Reported
         /\ \A t \in DOMAIN rows : IntFunction(Share(t)) /\ DOMAIN Share(t) = Reported
<1>1. IsFiniteSet(Reported)
  <2>1. IsFiniteSet(categories)
    BY BooksAssumption, FS_Subset DEF TablesOK
  <2>2. IsFiniteSet(Some(categories))
    BY <2>1, FS_AddElement DEF Some
  <2> QED BY <2>2, FS_Subset DEF Reported
<1>2. ASSUME NEW S \in SUBSET DOMAIN rows
      PROVE  IntFunction(ByCategory(S)) /\ DOMAIN ByCategory(S) = Reported
  <2> DEFINE T(k) == {t \in Unsplit(S) : rows[t].cat = k}
  <2>1. \A k : T(k) \in SUBSET DOMAIN rows
    BY DEF Unsplit
  <2>2. \A k : Total(T(k)) \in Int /\ Lines(S, k) \in Int
    BY <2>1, TotalStep, LinesStep
  <2>3. ByCategory(S) = [k \in Reported |-> Total(T(k)) + Lines(S, k)]
    BY DEF ByCategory, Lines, Reported
  <2> HIDE DEF T
  <2>4. \A k : Total(T(k)) + Lines(S, k) \in Int
    BY <2>2
  <2> QED BY <1>1, <2>3, <2>4 DEF IntFunction
<1>3. ASSUME NEW t \in DOMAIN rows
      PROVE  IntFunction(Share(t)) /\ DOMAIN Share(t) = Reported
  <2>1. rows[t].amount \in Int
    BY BooksAssumption DEF TablesOK, Row
  <2>2. \A k \in DOMAIN splits[t] : splits[t][k] \in Int
    BY SplitTyped DEF IntFunction
  <2> QED BY <1>1, <2>1, <2>2 DEF IntFunction, Share
<1> QED BY <1>2, <1>3

LEMMA NoSplitIs == DOMAIN NoSplit = {}
BY DEF NoSplit, Restricted

LEMMA ByCategoryStep ==
  ASSUME TablesOK, NEW S \in SUBSET DOMAIN rows, NEW t \in S
  PROVE  Sum(ByCategory(S)) = Sum(ByCategory(S \ {t})) + Sum(Share(t))
<1> DEFINE T(V, k) == {u \in Unsplit(V) : rows[u].cat = k}
           U == S \ {t}
<1>0. U \in SUBSET DOMAIN rows
  OBVIOUS
<1>1. ASSUME NEW k \in Reported
      PROVE  ByCategory(S)[k] = ByCategory(U)[k] + Share(t)[k]
  <2>1. /\ ByCategory(S)[k] = Total(T(S, k)) + Lines(S, k)
        /\ ByCategory(U)[k] = Total(T(U, k)) + Lines(U, k)
    BY DEF ByCategory, Lines, Reported
  <2>2. T(S, k) \in SUBSET DOMAIN rows /\ T(U, k) \in SUBSET DOMAIN rows
    BY DEF Unsplit
  <2>3. Total(T(U, k)) \in Int /\ Lines(U, k) \in Int
    <3> HIDE DEF T, U
    <3> QED BY <1>0, <2>2, TotalStep, LinesStep
  <2>4. CASE splits[t] = NoSplit
    <3>1. Lines(S, k) = Lines(U, k)
      BY <2>4, NoSplitIs, LinesStep
    <3>2. CASE rows[t].cat = k
      <4>1. t \in T(S, k) /\ T(S, k) \ {t} = T(U, k)
        BY <2>4, <3>2 DEF Unsplit
      <4>2. Share(t)[k] = rows[t].amount
        BY <2>4, <3>2 DEF Share
      <4> HIDE DEF T, U
      <4>3. Total(T(S, k)) = rows[t].amount + Total(T(U, k)) /\ rows[t].amount \in Int
        BY <2>2, <4>1, TotalStep
      <4> QED BY <2>1, <2>3, <3>1, <4>2, <4>3
    <3>3. CASE rows[t].cat # k
      <4>1. T(S, k) = T(U, k)
        BY <3>3 DEF Unsplit
      <4>2. Share(t)[k] = 0
        BY <2>4, <3>3 DEF Share
      <4>3. Total(T(S, k)) = Total(T(U, k))
        BY <4>1
      <4> HIDE DEF T, U
      <4> QED BY <2>1, <2>3, <3>1, <4>2, <4>3
    <3> QED BY <3>2, <3>3
  <2>5. CASE splits[t] # NoSplit
    <3>1. T(S, k) = T(U, k)
      BY <2>5 DEF Unsplit
    <3>2. Total(T(S, k)) = Total(T(U, k))
      BY <3>1
    <3>3. Lines(S, k) = Lines(U, k) + Share(t)[k]
      <4>1. CASE k \in DOMAIN splits[t]
        <5>1. Share(t)[k] = splits[t][k]
          BY <2>5, <4>1 DEF Share
        <5>2. splits[t][k] \in Int /\ Lines(S, k) = splits[t][k] + Lines(U, k)
          BY <4>1, LinesStep
        <5> QED BY <2>3, <5>1, <5>2
      <4>2. CASE k \notin DOMAIN splits[t]
        <5>1. Share(t)[k] = 0
          BY <2>5, <4>2 DEF Share
        <5>2. Lines(S, k) = Lines(U, k)
          BY <4>2, LinesStep
        <5> QED BY <2>3, <5>1, <5>2
      <4> QED BY <4>1, <4>2
    <3>4. Share(t)[k] \in Int
      BY ReportTyped DEF IntFunction
    <3> HIDE DEF T, U
    <3> QED BY <2>1, <2>3, <3>2, <3>3, <3>4
  <2> QED BY <2>4, <2>5
<1> HIDE DEF U
<1>2. /\ IntFunction(ByCategory(S)) /\ IntFunction(ByCategory(U)) /\ IntFunction(Share(t))
      /\ DOMAIN ByCategory(S) = Reported /\ DOMAIN ByCategory(U) = Reported /\ DOMAIN Share(t) = Reported
  BY <1>0, ReportTyped
<1> DEFINE h == ByCategory(S)
           f == ByCategory(U)
           g == Share(t)
<1>3. \A k \in DOMAIN h : h[k] = f[k] + g[k]
  BY <1>1, <1>2
<1>4. IntFunction(f) /\ IntFunction(g) /\ IntFunction(h) /\ DOMAIN f = DOMAIN h /\ DOMAIN g = DOMAIN h
  BY <1>2
<1> HIDE DEF f, g, h
<1>5. Sum(h) = Sum(f) + Sum(g)
  BY <1>3, <1>4, SumPlus
<1> QED BY <1>5 DEF f, g, h, U

(* It is the row's amount, or what its lines add up to, when nothing of it  *)
(* is a transfer.                                                           *)
Plain(t) == transfers \cap ({rows[t].cat} \cup DOMAIN splits[t]) = {}

LEMMA ShareSum ==
  ASSUME TablesOK, NEW t \in DOMAIN rows, Plain(t)
  PROVE  Sum(Share(t)) = IF splits[t] = NoSplit THEN rows[t].amount ELSE Sum(splits[t])
<1> DEFINE f == Share(t)
<1>1. IntFunction(f) /\ DOMAIN f = Reported
  BY ReportTyped
<1>2. CASE splits[t] = NoSplit
  <2>1. rows[t].cat \in Reported
    BY DEF Plain, Reported, TablesOK, Some
  <2>2. f[rows[t].cat] = rows[t].amount /\ \A k \in Reported \ {rows[t].cat} : f[k] = 0
    BY <1>2, <2>1 DEF Share
  <2> HIDE DEF f
  <2>3. Sum(f) = f[rows[t].cat]
    BY <1>1, <2>1, <2>2, SumOne
  <2> QED BY <1>2, <2>2, <2>3 DEF f
<1>3. CASE splits[t] # NoSplit
  <2> DEFINE D == DOMAIN splits[t]
  <2>1. D \in SUBSET Reported
    BY SplitTyped DEF Plain, Reported, Some
  <2>2. (\A k \in D : f[k] = splits[t][k]) /\ \A k \in Reported \ D : f[k] = 0
    BY <1>3, <2>1 DEF Share
  <2>3. Restricted(f, D) = splits[t]
    <3>1. splits[t] = [k \in D |-> splits[t][k]]
      BY SplitTyped DEF IntFunction
    <3>2. Restricted(f, D) = [k \in D |-> splits[t][k]]
      BY <2>2 DEF Restricted
    <3> QED BY <3>1, <3>2
  <2> HIDE DEF f, D
  <2>4. Sum(f) = Sum(Restricted(f, D))
    BY <1>1, <2>1, <2>2, SumSupport
  <2> QED BY <1>3, <2>3, <2>4 DEF f
<1> QED BY <1>2, <1>3

LEMMA YearNetStep ==
  ASSUME TablesOK, NEW S \in SUBSET DOMAIN rows, NEW t \in S, Plain(t)
  PROVE  /\ YearNet(S) \in Int /\ YearNet(S \ {t}) \in Int
         /\ YearNet(S) = YearNet(S \ {t}) + rows[t].amount
<1> DEFINE Up(V) == {u \in {w \in V : rows[w].cat \notin transfers} : rows[u].amount > 0}
           Down(V) == {u \in {w \in V : rows[w].cat \notin transfers} : rows[u].amount < 0}
           U == S \ {t}
<1>1. ASSUME NEW V \in SUBSET DOMAIN rows
      PROVE  /\ Total(Up(V)) \in Int /\ Total(Down(V)) \in Int
             /\ YearNet(V) = Total(Up(V)) + Total(Down(V))
  <2>1. Up(V) \in SUBSET DOMAIN rows /\ Down(V) \in SUBSET DOMAIN rows
    OBVIOUS
  <2>2. YearNet(V) = Total(Up(V)) - (-Total(Down(V)))
    BY DEF YearNet, Cashflow
  <2> HIDE DEF Up, Down
  <2>3. Total(Up(V)) \in Int /\ Total(Down(V)) \in Int
    BY <2>1, TotalStep
  <2> QED BY <2>2, <2>3
<1>2. U \in SUBSET DOMAIN rows /\ rows[t].amount \in Int /\ rows[t].cat \notin transfers
  BY TotalStep DEF Plain
<1>3. CASE rows[t].amount > 0
  <2>1. t \in Up(S) /\ Up(S) \ {t} = Up(U) /\ Up(S) \in SUBSET DOMAIN rows
    BY <1>2, <1>3
  <2>2. Down(S) = Down(U)
    BY <1>2, <1>3
  <2>3. Total(Down(S)) = Total(Down(U))
    BY <2>2
  <2> HIDE DEF Up, Down, U
  <2>4. Total(Up(S)) = rows[t].amount + Total(Up(U))
    BY <2>1, TotalStep
  <2>5. YearNet(S) = YearNet(U) + rows[t].amount /\ YearNet(S) \in Int /\ YearNet(U) \in Int
    BY <1>1, <1>2, <2>3, <2>4
  <2> QED BY <2>5 DEF U
<1>4. CASE rows[t].amount < 0
  <2>1. t \in Down(S) /\ Down(S) \ {t} = Down(U) /\ Down(S) \in SUBSET DOMAIN rows
    BY <1>2, <1>4
  <2>2. Up(S) = Up(U)
    BY <1>2, <1>4
  <2>3. Total(Up(S)) = Total(Up(U))
    BY <2>2
  <2> HIDE DEF Up, Down, U
  <2>4. Total(Down(S)) = rows[t].amount + Total(Down(U))
    BY <2>1, TotalStep
  <2>5. YearNet(S) = YearNet(U) + rows[t].amount /\ YearNet(S) \in Int /\ YearNet(U) \in Int
    BY <1>1, <1>2, <2>3, <2>4
  <2> QED BY <2>5 DEF U
<1>5. CASE rows[t].amount = 0
  <2>1. Up(S) = Up(U)
    BY <1>5
  <2>2. Down(S) = Down(U)
    BY <1>5
  <2>3. Total(Up(S)) = Total(Up(U)) /\ Total(Down(S)) = Total(Down(U))
    BY <2>1, <2>2
  <2> HIDE DEF Up, Down, U
  <2>5. YearNet(S) = YearNet(U) + rows[t].amount /\ YearNet(S) \in Int /\ YearNet(U) \in Int
    BY <1>1, <1>2, <1>5, <2>3
  <2> QED BY <2>5 DEF U
<1> QED BY <1>2, <1>3, <1>4, <1>5

LEMMA NothingReported ==
  ASSUME TablesOK
  PROVE  Sum(ByCategory({})) = 0 /\ YearNet({}) = 0
<1>1. {} \in SUBSET DOMAIN rows
  OBVIOUS
<1>2. Total({}) = 0 /\ \A k : Lines({}, k) = 0
  BY <1>1, TotalStep, LinesStep
<1>3. \A k \in Reported : ByCategory({})[k] = 0
  <2>1. \A k : {t \in Unsplit({}) : rows[t].cat = k} = {}
    BY DEF Unsplit
  <2>2. \A k \in Reported : ByCategory({})[k] = Total({}) + Lines({}, k)
    BY <2>1 DEF ByCategory, Lines, Reported
  <2> QED BY <1>2, <2>2
<1>4. Sum(ByCategory({})) = 0
  <2> DEFINE f == ByCategory({})
  <2>1. IntFunction(f) /\ DOMAIN f = Reported
    BY <1>1, ReportTyped
  <2>2. \A k \in DOMAIN f \ {} : f[k] = 0
    BY <1>3, <2>1
  <2> HIDE DEF f
  <2>3. Sum(f) = Sum(Restricted(f, {}))
    BY <2>1, <2>2, SumSupport
  <2> QED BY <2>1, <2>3, SumParts DEF f
<1>5. YearNet({}) = 0
  <2>1. /\ {u \in {w \in {} : rows[w].cat \notin transfers} : rows[u].amount > 0} = {}
        /\ {u \in {w \in {} : rows[w].cat \notin transfers} : rows[u].amount < 0} = {}
    OBVIOUS
  <2>2. YearNet({}) = Total({}) - (-Total({}))
    BY <2>1 DEF YearNet, Cashflow
  <2> QED BY <1>2, <2>2
<1> QED BY <1>4, <1>5

(* The reports agree when every split fits.                                 *)
LEMMA FittingReportsAgree ==
  ASSUME TablesOK, SplitsFit
  PROVE  ReportsAgree
<1> SUFFICES ASSUME NEW S \in SUBSET (DOMAIN rows \ past.edited), \A t \in S : Plain(t)
             PROVE  LET d == Sum(ByCategory(S)) - YearNet(S)
                        n == Cardinality(S \ Unsplit(S))
                    IN  -n <= d /\ d <= n
  BY DEF ReportsAgree, Plain
<1> DEFINE A(V) == Sum(ByCategory(V))
           B(V) == YearNet(V)
           C(V) == V \ Unsplit(V)
           N(V) == Cardinality(C(V))
           G == {V \in SUBSET S : A(V) - B(V) <= N(V) /\ -N(V) <= A(V) - B(V)}
<1>1. S \in SUBSET DOMAIN rows /\ IsFiniteSet(S)
  BY BooksAssumption, FS_Subset DEF TablesOK
<1>2. \A V \in SUBSET S : IsFiniteSet(C(V)) /\ N(V) \in Nat
  <2>1. \A V \in SUBSET S : C(V) \in SUBSET S
    OBVIOUS
  <2> HIDE DEF C
  <2> QED BY <1>1, <2>1, FS_Subset, FS_CardinalityType
<1>3. {} \in G
  <2>1. A({}) = 0 /\ B({}) = 0
    BY NothingReported
  <2>2. {} \in SUBSET S /\ N({}) \in Nat
    BY <1>2
  <2> HIDE DEF A, B, N
  <2>3. A({}) - B({}) <= N({}) /\ -N({}) <= A({}) - B({})
    BY <2>1, <2>2
  <2> QED BY <2>3
<1>4. ASSUME NEW V \in SUBSET S, V # {}, \A t \in V : V \ {t} \in G
      PROVE  V \in G
  <2>1. PICK t \in V : TRUE
    BY <1>4
  <2> DEFINE U == V \ {t}
  <2>2. U \in SUBSET S /\ A(U) - B(U) <= N(U) /\ -N(U) <= A(U) - B(U)
    BY <1>4
  <2>3. V \in SUBSET DOMAIN rows /\ U \in SUBSET DOMAIN rows /\ t \in DOMAIN rows /\ Plain(t)
    BY <1>1
  <2>4. A(V) = A(U) + Sum(Share(t))
    BY <2>3, ByCategoryStep
  <2>5. B(V) = B(U) + rows[t].amount /\ B(U) \in Int /\ rows[t].amount \in Int
    BY <2>3, YearNetStep, TotalStep
  <2>6. A(U) \in Int
    BY <2>3, ReportTyped, SumInt
  <2>7. Sum(Share(t)) = IF splits[t] = NoSplit THEN rows[t].amount ELSE Sum(splits[t])
    BY <2>3, ShareSum
  <2>8. N(U) \in Nat /\ N(V) \in Nat
    BY <1>2, <2>2
  <2>9. CASE splits[t] = NoSplit
    <3>1. C(V) = C(U)
      BY <2>9 DEF Unsplit
    <3>2. N(V) = N(U)
      BY <3>1
    <3> HIDE DEF A, B, N, U
    <3>3. A(V) - B(V) = A(U) - B(U)
      BY <2>4, <2>5, <2>6, <2>7, <2>9
    <3>4. A(V) - B(V) <= N(V) /\ -N(V) <= A(V) - B(V)
      BY <2>2, <3>2, <3>3
    <3> QED BY <3>4
  <2>10. CASE splits[t] # NoSplit
    <3>1. t \in C(V) /\ C(V) \ {t} = C(U)
      BY <2>10 DEF Unsplit
    <3>2. IsFiniteSet(C(V))
      BY <1>2
    <3>3. N(V) = N(U) + 1
      <4>1. Cardinality(C(V) \ {t}) = Cardinality(C(V)) - 1
        <5> HIDE DEF C
        <5> QED BY <3>1, <3>2, FS_RemoveElement
      <4>2. N(U) = N(V) - 1
        BY <3>1, <4>1
      <4> HIDE DEF N, U
      <4> QED BY <2>8, <4>2
    <3>4. Sum(splits[t]) - rows[t].amount \in -1..1 /\ Sum(splits[t]) \in Int
      <4>1. t \in DOMAIN rows \ past.edited
        OBVIOUS
      <4>2. Sum(splits[t]) \in Int
        BY <2>3, SplitTyped, SumInt
      <4> QED BY <2>10, <4>1, <4>2 DEF SplitsFit
    <3> HIDE DEF A, B, N, U
    <3>5. A(V) - B(V) = (A(U) - B(U)) + (Sum(splits[t]) - rows[t].amount)
      BY <2>4, <2>5, <2>6, <2>7, <2>10, <3>4
    <3>6. A(V) - B(V) <= N(V) /\ -N(V) <= A(V) - B(V)
      <4> DEFINE d == A(U) - B(U)
                 e == Sum(splits[t]) - rows[t].amount
      <4>1. d \in Int /\ e \in Int /\ -1 <= e /\ e <= 1 /\ d <= N(U) /\ -N(U) <= d
        BY <2>2, <2>5, <2>6, <3>4
      <4>2. A(V) - B(V) = d + e
        BY <3>5
      <4> HIDE DEF d, e
      <4> QED BY <2>8, <3>3, <4>1, <4>2
    <3> QED BY <3>6
  <2> QED BY <2>9, <2>10
<1>5. S \in G
  <2> HIDE DEF G
  <2>1. \A V \in SUBSET S : V # {} /\ (\A t \in V : V \ {t} \in G) => V \in G
    BY <1>4
  <2> QED BY <1>1, <1>3, <2>1, SetInduction
<1> QED BY <1>5

-----------------------------------------------------------------------------
(* The tables keep their types.                                             *)

LEMMA ListedTyped == ASSUME TablesOK, NEW only PROVE Listed(only) \in Lists
<1> DEFINE D == {t \in DOMAIN rows : only => /\ rows[t].cat = None
                                             /\ rows[t].src \in {None, "suggested"}}
<1>1. Listed(only) = [t \in D |-> rows[t]]
  BY DEF Listed, Restricted
<1>2. D \in SUBSET Tx /\ \A t \in D : rows[t] \in Row
  BY DEF TablesOK
<1> HIDE DEF D
<1>3. [t \in D |-> rows[t]] \in [D -> Row]
  BY <1>2
<1> QED BY <1>1, <1>2, <1>3 DEF Lists, Partial

LEMMA ChangedTyped ==
  ASSUME NEW row \in Row, NEW change, ChangeOK(change),
         "cat" \in DOMAIN change => change.cat \in Category
  PROVE  /\ Changed(row, change) \in Row
         /\ Changed(row, change).sugg = row.sugg
         /\ Changed(row, change).cat \in {row.cat, change.cat}
         /\ "cat" \notin DOMAIN change => Changed(row, change).cat = row.cat
         /\ "amount" \notin DOMAIN change => Changed(row, change).amount = row.amount
<1> DEFINE q == Changed(row, change)
<1>1. DOMAIN row = {"amount", "cat", "sugg", "src"}
  BY DEF Row
<1>2. /\ q.amount = IF "amount" \in DOMAIN change THEN change.amount ELSE row.amount
      /\ q.cat = IF "cat" \in DOMAIN change THEN change.cat ELSE row.cat
      /\ q.sugg = IF "sugg" \in DOMAIN change THEN change.sugg ELSE row.sugg
      /\ q.src = IF "src" \in DOMAIN change THEN change.src ELSE row.src
  BY <1>1 DEF Changed
<1>3. q = [amount |-> q.amount, cat |-> q.cat, sugg |-> q.sugg, src |-> q.src]
  BY <1>1 DEF Changed
<1>4. q.sugg = row.sugg /\ q.amount \in Amount /\ q.cat \in Some(Category)
      /\ q.src \in {"manual", "rule", "suggested", None}
  BY <1>2 DEF ChangeOK, Row, Some
<1>5. q \in Row
  <2> HIDE DEF q
  <2> QED BY <1>3, <1>4, <1>2 DEF Row
<1> QED BY <1>2, <1>4, <1>5

(* TablesOK, row by row.                                                    *)
RowOK(row, lines, cats) ==
  /\ row \in Row /\ row.cat \in Some(cats) /\ row.sugg \in Some(cats)
  /\ lines \in Split /\ DOMAIN lines \subseteq cats

LEMMA RowsOK ==
  ASSUME TablesOK
  PROVE  \A t \in DOMAIN rows : t \in Tx /\ RowOK(rows[t], splits[t], categories)
BY DEF TablesOK, RowOK

LEMMA NewTables ==
  ASSUME NEW D \in SUBSET Tx, rows' = [t \in D |-> rows'[t]], splits' = [t \in D |-> splits'[t]],
         categories' \in SUBSET Category, transfers' \in SUBSET categories',
         \A t \in D : RowOK(rows'[t], splits'[t], categories')
  PROVE  TablesOK'
BY DEF TablesOK, RowOK

LEMMA DeleteRowsOK == ASSUME TablesOK, NEW S, DeleteRows(S) PROVE TablesOK'
<1> DEFINE D == DOMAIN rows \ S
<1>1. /\ rows' = [t \in D |-> rows[t]] /\ splits' = [t \in D |-> splits[t]]
      /\ UNCHANGED <<categories, transfers>>
  BY DEF DeleteRows, Restricted
<1>2. /\ D \in SUBSET Tx /\ rows' = [t \in D |-> rows'[t]] /\ splits' = [t \in D |-> splits'[t]]
      /\ \A t \in D : RowOK(rows'[t], splits'[t], categories')
  BY <1>1, RowsOK
<1>3. categories' \in SUBSET Category /\ transfers' \in SUBSET categories'
  BY <1>1 DEF TablesOK
<1> HIDE DEF D
<1> QED BY <1>2, <1>3, NewTables

LEMMA PatchRowOK ==
  ASSUME TablesOK, NEW t \in DOMAIN rows, NEW change, ChangeOK(change),
         "cat" \in DOMAIN change => change.cat \in categories, PatchRow(t, change)
  PROVE  TablesOK' /\ DOMAIN rows' = DOMAIN rows
<1> DEFINE D == DOMAIN rows
<1>1. /\ rows' = [rows EXCEPT ![t] = Changed(rows[t], change)] /\ splits' = splits
      /\ categories' = categories /\ transfers' = transfers
  BY DEF PatchRow
<1>2. RowOK(Changed(rows[t], change), splits[t], categories)
  <2>1. RowOK(rows[t], splits[t], categories)
    BY RowsOK
  <2>2. categories \subseteq Category
    BY DEF TablesOK
  <2>3. rows[t] \in Row /\ ("cat" \in DOMAIN change => change.cat \in Category)
    BY <2>1, <2>2 DEF RowOK
  <2> DEFINE q == Changed(rows[t], change)
  <2>4. /\ q \in Row /\ q.sugg = rows[t].sugg /\ q.cat \in {rows[t].cat, change.cat}
        /\ "cat" \notin DOMAIN change => q.cat = rows[t].cat
    BY <2>3, ChangedTyped
  <2> HIDE DEF q
  <2>5. q.cat \in Some(categories)
    BY <2>1, <2>4 DEF RowOK, Some
  <2>6. RowOK(q, splits[t], categories)
    BY <2>1, <2>4, <2>5 DEF RowOK
  <2> QED BY <2>6 DEF q
<1>3. /\ D \in SUBSET Tx /\ rows' = [u \in D |-> rows'[u]] /\ splits' = [u \in D |-> splits'[u]]
  BY <1>1, RowsOK DEF TablesOK
<1>4. ASSUME NEW u \in D PROVE RowOK(rows'[u], splits'[u], categories')
  <2>1. CASE u = t
    BY <1>1, <1>2, <2>1
  <2>2. CASE u # t
    BY <1>1, <2>2, RowsOK
  <2> QED BY <2>1, <2>2
<1>5. categories' \in SUBSET Category /\ transfers' \in SUBSET categories'
  BY <1>1 DEF TablesOK
<1>6. DOMAIN rows' = D
  BY <1>1
<1> HIDE DEF D
<1> QED BY <1>3, <1>4, <1>5, <1>6, NewTables DEF D

LEMMA PutSplitsOK ==
  ASSUME TablesOK, NEW t \in DOMAIN rows, NEW lines \in Split, DOMAIN lines \subseteq categories,
         PutSplits(t, lines)
  PROVE  TablesOK'
<1> DEFINE D == DOMAIN rows
<1>1. /\ splits' = [splits EXCEPT ![t] = lines] /\ rows' = rows
      /\ categories' = categories /\ transfers' = transfers
  BY DEF PutSplits
<1>2. /\ D \in SUBSET Tx /\ rows' = [u \in D |-> rows'[u]] /\ splits' = [u \in D |-> splits'[u]]
      /\ DOMAIN splits = D
  BY <1>1, RowsOK DEF TablesOK
<1>3. ASSUME NEW u \in D PROVE RowOK(rows'[u], splits'[u], categories')
  <2>1. RowOK(rows[u], splits[u], categories)
    BY RowsOK
  <2>2. CASE u = t
    BY <1>1, <1>2, <2>1, <2>2 DEF RowOK
  <2>3. CASE u # t
    BY <1>1, <1>2, <2>1, <2>3
  <2> QED BY <2>2, <2>3
<1>4. categories' \in SUBSET Category /\ transfers' \in SUBSET categories'
  BY <1>1 DEF TablesOK
<1> HIDE DEF D
<1> QED BY <1>2, <1>3, <1>4, NewTables

LEMMA RemoveCategoryOK ==
  ASSUME TablesOK, NEW c, Removable(c), RemoveCategory(c)
  PROVE  TablesOK'
<1> DEFINE D == DOMAIN rows
           row(u) == [rows[u] EXCEPT !.cat = IF @ = c THEN None ELSE @, !.sugg = IF @ = c THEN None ELSE @]
<1>1. /\ categories' = categories \ {c} /\ transfers' = transfers \ {c}
      /\ rows' = [u \in D |-> row(u)] /\ splits' = splits
  BY DEF RemoveCategory
<1>2. /\ D \in SUBSET Tx /\ rows' = [u \in D |-> rows'[u]] /\ splits' = [u \in D |-> splits'[u]]
  BY <1>1 DEF TablesOK
<1>3. ASSUME NEW u \in D PROVE RowOK(rows'[u], splits'[u], categories')
  <2>1. RowOK(rows[u], splits[u], categories)
    BY RowsOK
  <2>2. /\ row(u) \in Row /\ row(u).cat \in {None, rows[u].cat} \ ({c} \ {None})
        /\ row(u).sugg \in {None, rows[u].sugg} \ ({c} \ {None})
    BY <2>1 DEF RowOK, Row, Some
  <2>3. rows'[u] = row(u) /\ splits'[u] = splits[u]
    BY <1>1
  <2> HIDE DEF row
  <2>4. row(u).cat \in Some(categories') /\ row(u).sugg \in Some(categories')
    BY <1>1, <2>1, <2>2 DEF RowOK, Some
  <2>5. DOMAIN splits[u] \subseteq categories'
    BY <1>1, <2>1 DEF Removable, RowOK
  <2> QED BY <2>1, <2>2, <2>3, <2>4, <2>5 DEF RowOK
<1>4. categories' \in SUBSET Category /\ transfers' \in SUBSET categories'
  BY <1>1 DEF TablesOK
<1> HIDE DEF D
<1> QED BY <1>2, <1>3, <1>4, NewTables

LEMMA ApplyRuleOK ==
  ASSUME TablesOK, NEW S, NEW c \in categories, ApplyRule(S, c)
  PROVE  TablesOK' /\ DOMAIN rows' = DOMAIN rows /\ \A u \in DOMAIN rows : rows'[u].amount = rows[u].amount
<1> DEFINE D == DOMAIN rows
           row(u) == IF u \in S /\ rows[u].src # "manual"
                       THEN [rows[u] EXCEPT !.cat = c, !.src = "rule"] ELSE rows[u]
<1>1. /\ rows' = [u \in D |-> row(u)] /\ splits' = splits
      /\ categories' = categories /\ transfers' = transfers
  BY DEF ApplyRule
<1>2. /\ D \in SUBSET Tx /\ rows' = [u \in D |-> rows'[u]] /\ splits' = [u \in D |-> splits'[u]]
  BY <1>1 DEF TablesOK
<1>3. ASSUME NEW u \in D PROVE RowOK(rows'[u], splits'[u], categories') /\ rows'[u].amount = rows[u].amount
  <2>1. RowOK(rows[u], splits[u], categories) /\ c \in Category
    BY RowsOK DEF TablesOK
  <2>2. /\ row(u) \in Row /\ row(u).cat \in {c, rows[u].cat} /\ row(u).sugg = rows[u].sugg
        /\ row(u).amount = rows[u].amount
    BY <2>1 DEF RowOK, Row, Some
  <2>3. rows'[u] = row(u) /\ splits'[u] = splits[u]
    BY <1>1
  <2> HIDE DEF row
  <2>4. row(u).cat \in Some(categories')
    BY <1>1, <2>1, <2>2 DEF RowOK, Some
  <2> QED BY <1>1, <2>1, <2>2, <2>3, <2>4 DEF RowOK
<1>4. categories' \in SUBSET Category /\ transfers' \in SUBSET categories'
  BY <1>1 DEF TablesOK
<1>5. DOMAIN rows' = D
  BY <1>1
<1> HIDE DEF D
<1> QED BY <1>2, <1>3, <1>4, <1>5, NewTables DEF D

LEMMA MoreCategories ==
  ASSUME TablesOK, UNCHANGED <<rows, splits>>,
         categories \subseteq categories', categories' \in SUBSET Category, transfers' \in SUBSET categories'
  PROVE  TablesOK'
BY DEF TablesOK, Some

LEMMA AddCategoryOK ==
  ASSUME TablesOK, NEW c \in Category, NEW transfer, AddCategory(c, transfer)
  PROVE  TablesOK'
<1>1. /\ categories' = categories \cup {c} /\ transfers' \subseteq transfers \cup {c}
      /\ UNCHANGED <<rows, splits>>
  BY DEF AddCategory
<1>2. categories' \in SUBSET Category /\ transfers' \in SUBSET categories' /\ categories \subseteq categories'
  BY <1>1 DEF TablesOK
<1> QED BY <1>1, <1>2, MoreCategories

LEMMA InsertRowOK ==
  ASSUME TablesOK, NEW t \in Tx \ DOMAIN rows, NEW a \in Amount, NEW s \in Some(categories),
         rows' = With(rows, t, NewRow(a, s)), splits' = With(splits, t, NoSplit),
         UNCHANGED <<categories, transfers>>
  PROVE  TablesOK' /\ DOMAIN rows' = DOMAIN rows \cup {t} /\ splits'[t] = NoSplit
         /\ \A u \in DOMAIN rows : rows'[u] = rows[u] /\ splits'[u] = splits[u]
<1> DEFINE D == DOMAIN rows \cup {t}
<1>1. /\ rows' = [u \in D |-> IF u = t THEN NewRow(a, s) ELSE rows[u]]
      /\ splits' = [u \in D |-> IF u = t THEN NoSplit ELSE splits[u]]
  BY DEF With, TablesOK
<1>2. RowOK(NewRow(a, s), NoSplit, categories)
  <2>1. NoSplit \in Split /\ DOMAIN NoSplit = {}
    <3>1. NoSplit \in [{} -> Part]
      BY DEF NoSplit, Restricted
    <3> QED BY <3>1, NoSplitIs DEF Split, Partial
  <2>2. NewRow(a, s) \in Row /\ NewRow(a, s).cat = None /\ NewRow(a, s).sugg = s
    BY DEF NewRow, Row, Some, TablesOK
  <2> QED BY <2>1, <2>2 DEF RowOK, Some
<1>3. /\ D \in SUBSET Tx /\ rows' = [u \in D |-> rows'[u]] /\ splits' = [u \in D |-> splits'[u]]
  <2>1. D \in SUBSET Tx
    BY DEF TablesOK
  <2> HIDE DEF D
  <2> QED BY <1>1, <2>1
<1>4. ASSUME NEW u \in D PROVE RowOK(rows'[u], splits'[u], categories')
  <2>1. CASE u = t
    BY <1>1, <1>2, <2>1
  <2>2. CASE u # t
    <3>1. RowOK(rows[u], splits[u], categories)
      BY <2>2, RowsOK
    <3> QED BY <1>1, <2>2, <3>1
  <2> QED BY <2>1, <2>2
<1>5. categories' \in SUBSET Category /\ transfers' \in SUBSET categories'
  BY DEF TablesOK
<1>6. TablesOK'
  <2> HIDE DEF D
  <2> QED BY <1>3, <1>4, <1>5, NewTables
<1> QED BY <1>1, <1>6

-----------------------------------------------------------------------------
(* The tables keep their types and the splits that fit.                     *)

TablesInv == TablesOK /\ SplitsFit

LEMMA FitFrom ==
  ASSUME SplitsFit,
         \A u \in DOMAIN rows' \ past'.edited :
           \/ splits'[u] = NoSplit
           \/ Sum(splits'[u]) - rows'[u].amount \in -1..1
           \/ /\ u \in DOMAIN rows \ past.edited
              /\ splits'[u] = splits[u] /\ rows'[u].amount = rows[u].amount
  PROVE  SplitsFit'
<1> SUFFICES ASSUME NEW u \in DOMAIN rows' \ past'.edited, splits'[u] # NoSplit
             PROVE  Sum(splits'[u]) - rows'[u].amount \in -1..1
  BY DEF SplitsFit
<1> QED BY DEF SplitsFit

LEMMA TablesSame ==
  ASSUME TablesInv, UNCHANGED tables, past'.edited = past.edited PROVE TablesInv'
<1>1. /\ rows' = rows /\ splits' = splits /\ categories' = categories /\ transfers' = transfers
  BY DEF tables
<1>2. TablesOK'
  BY <1>1 DEF TablesOK, TablesInv
<1>3. SplitsFit'
  BY <1>1, FitFrom DEF TablesInv
<1> QED BY <1>2, <1>3 DEF TablesInv

LEMMA DeleteRowsKeep ==
  ASSUME TablesInv, NEW S, DeleteRows(S), past'.edited = past.edited PROVE TablesInv'
<1>1. TablesOK'
  BY DeleteRowsOK DEF TablesInv
<1>2. \A u \in DOMAIN rows' : u \in DOMAIN rows /\ splits'[u] = splits[u] /\ rows'[u] = rows[u]
  BY DEF DeleteRows, Restricted
<1>3. SplitsFit'
  BY <1>2, FitFrom DEF TablesInv
<1> QED BY <1>1, <1>3 DEF TablesInv

LEMMA PatchRowKeeps ==
  ASSUME TablesInv, NEW t \in DOMAIN rows, NEW change, ChangeOK(change),
         "cat" \in DOMAIN change => change.cat \in categories,
         PatchRow(t, change), past'.edited = Edited(t, change)
  PROVE  TablesInv'
<1>1. TablesOK' /\ DOMAIN rows' = DOMAIN rows
  BY PatchRowOK DEF TablesInv
<1>2. rows' = [rows EXCEPT ![t] = Changed(rows[t], change)] /\ splits' = splits
  BY DEF PatchRow
<1>3. past.edited \subseteq past'.edited
  BY DEF Edited
<1>4. ASSUME NEW u \in DOMAIN rows' \ past'.edited
      PROVE  \/ splits'[u] = NoSplit
             \/ u \in DOMAIN rows \ past.edited /\ splits'[u] = splits[u] /\ rows'[u].amount = rows[u].amount
  <2>1. u \in DOMAIN rows \ past.edited /\ splits'[u] = splits[u]
    BY <1>1, <1>2, <1>3
  <2>2. CASE u # t
    BY <1>2, <2>1, <2>2
  <2>3. CASE u = t /\ "amount" \in DOMAIN change
    <3>1. splits[u] = NoSplit
      BY <2>3 DEF Edited
    <3> QED BY <2>1, <3>1
  <2>4. CASE u = t /\ "amount" \notin DOMAIN change
    <3>1. rows[t] \in Row /\ categories \subseteq Category
      BY DEF TablesInv, TablesOK
    <3>2. Changed(rows[t], change).amount = rows[t].amount
      BY <2>4, <3>1, ChangedTyped
    <3> QED BY <1>2, <2>1, <2>4, <3>2
  <2> QED BY <2>2, <2>3, <2>4
<1>5. SplitsFit'
  BY <1>4, FitFrom DEF TablesInv
<1> QED BY <1>1, <1>5 DEF TablesInv

LEMMA PutSplitsKeeps ==
  ASSUME TablesInv, PastOK, NEW t \in DOMAIN rows, NEW lines \in Split, DOMAIN lines \subseteq categories,
         Accepts(t, lines), PutSplits(t, lines), past'.edited = past.edited \ {t}
  PROVE  TablesInv'
<1>1. TablesOK'
  BY PutSplitsOK DEF TablesInv
<1>2. rows' = rows /\ splits' = [splits EXCEPT ![t] = lines] /\ DOMAIN splits = DOMAIN rows
  BY DEF PutSplits, TablesInv, TablesOK
<1>3. ASSUME NEW u \in DOMAIN rows' \ past'.edited
      PROVE  \/ splits'[u] = NoSplit
             \/ Sum(splits'[u]) - rows'[u].amount \in -1..1
             \/ u \in DOMAIN rows \ past.edited /\ splits'[u] = splits[u] /\ rows'[u].amount = rows[u].amount
  <2>1. CASE u = t
    <3>1. splits'[u] = lines /\ rows'[u] = rows[u]
      BY <1>2, <2>1
    <3> QED BY <2>1, <3>1 DEF Accepts
  <2>2. CASE u # t
    BY <1>2, <2>2
  <2> QED BY <2>1, <2>2
<1>4. SplitsFit'
  BY <1>3, FitFrom DEF TablesInv
<1> QED BY <1>1, <1>4 DEF TablesInv

LEMMA RemoveCategoryKeeps ==
  ASSUME TablesInv, NEW c, Removable(c), RemoveCategory(c), past'.edited = past.edited
  PROVE  TablesInv'
<1>1. TablesOK'
  BY RemoveCategoryOK DEF TablesInv
<1>2. DOMAIN rows' = DOMAIN rows /\ \A u \in DOMAIN rows : splits'[u] = splits[u] /\ rows'[u].amount = rows[u].amount
  BY DEF RemoveCategory, TablesInv, TablesOK, Row
<1>3. SplitsFit'
  BY <1>2, FitFrom DEF TablesInv
<1> QED BY <1>1, <1>3 DEF TablesInv

LEMMA ApplyRuleKeeps ==
  ASSUME TablesInv, NEW S, NEW c \in categories, ApplyRule(S, c), past'.edited = past.edited
  PROVE  TablesInv'
<1>1. TablesOK' /\ DOMAIN rows' = DOMAIN rows /\ \A u \in DOMAIN rows : rows'[u].amount = rows[u].amount
  BY ApplyRuleOK DEF TablesInv
<1>2. splits' = splits
  BY DEF ApplyRule
<1>3. SplitsFit'
  BY <1>1, <1>2, FitFrom DEF TablesInv
<1> QED BY <1>1, <1>3 DEF TablesInv

LEMMA AddCategoryKeeps ==
  ASSUME TablesInv, NEW c \in Category, NEW transfer, AddCategory(c, transfer), past'.edited = past.edited
  PROVE  TablesInv'
<1>1. TablesOK' /\ UNCHANGED <<rows, splits>>
  BY AddCategoryOK DEF TablesInv, AddCategory
<1>2. SplitsFit'
  BY <1>1, FitFrom DEF TablesInv
<1> QED BY <1>1, <1>2 DEF TablesInv

LEMMA InsertRowKeeps ==
  ASSUME TablesInv, NEW t \in Tx \ DOMAIN rows, NEW a \in Amount, NEW s \in Some(categories),
         rows' = With(rows, t, NewRow(a, s)), splits' = With(splits, t, NoSplit),
         UNCHANGED <<categories, transfers>>, past'.edited = past.edited \ {t}
  PROVE  TablesInv'
<1>1. /\ TablesOK' /\ DOMAIN rows' = DOMAIN rows \cup {t} /\ splits'[t] = NoSplit
      /\ \A u \in DOMAIN rows : rows'[u] = rows[u] /\ splits'[u] = splits[u]
  BY InsertRowOK DEF TablesInv
<1>2. SplitsFit'
  BY <1>1, FitFrom DEF TablesInv
<1> QED BY <1>1, <1>2 DEF TablesInv

-----------------------------------------------------------------------------
(* The calls keep their shapes.                                             *)

LEMMA CallsSame == ASSUME CallsOK, UNCHANGED calls PROVE CallsOK'
BY DEF CallsOK

LEMMA NewCall ==
  ASSUME CallsOK, NEW c \in Call, NEW q, Shape(q), calls' = With(calls, c, q) PROVE CallsOK'
<1>1. DOMAIN calls' = DOMAIN calls \cup {c}
  BY DEF With
<1>2. \A d \in DOMAIN calls' : calls'[d] = IF d = c THEN q ELSE calls[d]
  BY DEF With
<1> QED BY <1>1, <1>2 DEF CallsOK

LEMMA OtherCall ==
  ASSUME CallsOK, NEW c \in DOMAIN calls, NEW q, Shape(q), calls' = [calls EXCEPT ![c] = q] PROVE CallsOK'
BY DEF CallsOK

LEMMA GoneCall == ASSUME CallsOK, NEW c, calls' = Gone(c) PROVE CallsOK'
BY DEF CallsOK, Gone, Restricted

LEMMA RefusedShape ==
  ASSUME NEW q, Shape(q) PROVE Shape([q EXCEPT !.step = "bad", !.got = None])
<1> DEFINE r == [q EXCEPT !.step = "bad", !.got = None]
<1>1. /\ DOMAIN r = Fields /\ r.op = q.op /\ r.arg = q.arg /\ r.only = q.only
      /\ r.step = "bad" /\ r.got = None
  BY DEF Shape, Fields
<1> HIDE DEF r
<1>2. Shape(r)
  BY <1>1 DEF Shape, Answer
<1> QED BY <1>2 DEF r

LEMMA FailedShape == ASSUME NEW q, Shape(q) PROVE Shape(Failed(q))
<1>1. CASE q.op = "rule" /\ q.got # None
  <2> DEFINE r == [q EXCEPT !.step = "ok"]
  <2>1. /\ DOMAIN r = Fields /\ r.op = q.op /\ r.arg = q.arg /\ r.only = q.only
        /\ r.step = "ok" /\ r.got = q.got
    BY DEF Shape, Fields
  <2>2. Failed(q) = r
    BY <1>1 DEF Failed
  <2> HIDE DEF r
  <2>3. Shape(r)
    BY <1>1, <2>1 DEF Shape, Answer
  <2> QED BY <2>2, <2>3
<1>2. CASE ~(q.op = "rule" /\ q.got # None)
  BY <1>2, RefusedShape DEF Failed
<1> QED BY <1>1, <1>2

LEMMA BadAnswer ==
  ASSUME CallsOK, NEW c \in DOMAIN calls, Answers(c, "bad", None) PROVE CallsOK'
<1>1. calls' = [calls EXCEPT ![c] = [calls[c] EXCEPT !.step = "bad", !.got = None]]
  BY DEF Answers
<1> QED BY <1>1, RefusedShape, OtherCall DEF CallsOK

LEMMA ExitCalls ==
  ASSUME CallsOK, Exit PROVE CallsOK'
<1>1. \A d \in DOMAIN calls : Shape(calls[d]) /\ Shape(Failed(calls[d]))
  BY FailedShape DEF CallsOK
<1>2. DOMAIN calls' = DOMAIN calls
  BY DEF Exit
<1>3. \A d \in DOMAIN calls : calls'[d] \in {calls[d], Failed(calls[d])}
  BY DEF Exit
<1> QED BY <1>1, <1>2, <1>3 DEF CallsOK

LEMMA GoodAnswer ==
  ASSUME CallsOK, NEW c \in DOMAIN calls, NEW step \in {"sent", "ok"}, NEW got,
         Answers(c, step, got),
         calls[c].op = "load" =>
           \/ /\ step = "sent" /\ DOMAIN got = {"rows", "cats"}
              /\ got.rows \in Some(Lists) /\ got.cats \in Some(SUBSET Category)
           \/ step = "ok" /\ got.rows \in Lists /\ got.cats \in SUBSET Category,
         calls[c].op = "ai" =>
           \/ step = "sent" /\ got \in Some(SUBSET Category)
           \/ step = "ok" /\ got \in Some(Category),
         calls[c].op = "split" => got = None
  PROVE  CallsOK'
<1> DEFINE q == calls[c]
           r == [q EXCEPT !.step = step, !.got = got]
<1>1. calls' = [calls EXCEPT ![c] = r]
  BY DEF Answers
<1>2. Shape(q)
  BY DEF CallsOK
<1>3. /\ DOMAIN r = Fields /\ r.op = q.op /\ r.arg = q.arg /\ r.only = q.only
      /\ r.step = step /\ r.got = got
  BY <1>2 DEF Shape, Fields
<1> HIDE DEF r
<1>4. Shape(r)
  BY <1>2, <1>3 DEF Shape, Answer
<1> QED BY <1>1, <1>4, OtherCall

-----------------------------------------------------------------------------
(* The page, and what the user does there.                                  *)

PageIs(p) ==
  /\ p \in [only : BOOLEAN, list : Lists, cats : SUBSET Category,
            ticked : SUBSET Tx, dialog : Some(Dialog), creating : Some(Creation)]
  /\ p.ticked \subseteq DOMAIN p.list

PageInv == PageOK /\ TicksAreListed
Inv == TablesInv /\ PageInv /\ CallsOK /\ PastOK

LEMMA ListTyped == ASSUME NEW list PROVE list \in Lists <=> DOMAIN list \subseteq Tx /\ list \in [DOMAIN list -> Row]
BY DEF Lists, Partial

LEMMA PageParts == PageInv <=> PageIs(page)
<1> USE DEF PageInv, PageOK, TicksAreListed, PageIs
<1>1. ASSUME PageInv PROVE PageIs(page)
  <2>1. page.list \in Lists
    BY <1>1, ListTyped
  <2> QED BY <1>1, <2>1
<1>2. ASSUME PageIs(page) PROVE PageInv
  <2>1. DOMAIN page.list \subseteq Tx /\ page.list \in [DOMAIN page.list -> Row]
    BY <1>2, ListTyped
  <2> QED BY <1>2, <2>1
<1> QED BY <1>1, <1>2

LEMMA NewPage == ASSUME PageIs(page') PROVE PageInv'
<1>1. DOMAIN page'.list \subseteq Tx /\ page'.list \in [DOMAIN page'.list -> Row]
  BY ListTyped DEF PageIs
<1> QED BY <1>1 DEF PageInv, PageOK, TicksAreListed, PageIs

LEMMA PageSame == ASSUME PageInv, UNCHANGED page PROVE PageInv'
BY PageParts, NewPage

LEMMA CountedOK == ASSUME PastOK, Counted PROVE PastOK' /\ past'.edited = past.edited
BY BooksAssumption DEF PastOK, Counted, CanAct

ArgOK(op, arg) ==
  /\ op # "load"
  /\ op \in {"patch", "edit"} => ChangeOK(arg.change)
  /\ op = "put" => arg.lines \in Split
  /\ op = "create" => arg.cat \in Category

LEMMA RequestShape ==
  ASSUME PageInv, NEW op, NEW arg, ArgOK(op, arg) PROVE Shape(Request(op, arg))
<1>1. page.only \in BOOLEAN
  BY DEF PageInv, PageOK
<1> QED BY <1>1 DEF Request, Shape, ArgOK, Fields, Answer, Some

LEMMA SendOK ==
  ASSUME Inv, NEW c, NEW op, NEW arg, Send(c, op, arg), ArgOK(op, arg)
  PROVE  c \in Call /\ TablesInv' /\ CallsOK' /\ PastOK'
<1>1. c \in Call /\ calls' = With(calls, c, Request(op, arg)) /\ Counted /\ UNCHANGED tables
  BY DEF Send
<1>2. CallsOK'
  BY <1>1, RequestShape, NewCall DEF Inv
<1>3. PastOK' /\ past'.edited = past.edited
  BY <1>1, CountedOK DEF Inv
<1> QED BY <1>1, <1>2, <1>3, TablesSame DEF Inv

LEMMA LoadShape == ASSUME NEW only \in BOOLEAN PROVE Shape(Load(only))
BY DEF Load, NoReads, Shape, Fields, Answer, Some

LEMMA PageFacts ==
  ASSUME PageInv
  PROVE  /\ page.dialog # None => page.dialog \in Dialog
         /\ page.only \in BOOLEAN /\ page.cats \subseteq Category /\ DOMAIN page.list \subseteq Tx
         /\ \A t \in DOMAIN page.list : page.list[t] \in Row
BY DEF PageInv, PageOK, Some

LEMMA ShownTyped ==
  ASSUME PageInv, NEW kind \in {"bulk", "delete", "edit", "split", "rule", "ai"},
         NEW t \in Some(DOMAIN page.list)
  PROVE  Shown(kind, t) \in Dialog
<1>1. t \in Some(Tx) /\ (t # None => page.list[t].amount \in Amount)
  BY PageFacts DEF Some, Row
<1> QED BY <1>1 DEF Shown, Dialog, Some

LEMMA BeginOK == ASSUME CallsOK, NEW only \in BOOLEAN, Begin(Load(only)) PROVE CallsOK'
<1>1. PICK c \in Call \ DOMAIN calls : calls' = With(calls, c, Load(only))
  BY DEF Begin
<1> QED BY <1>1, LoadShape, NewCall

(* Steps that change the page alone.                                        *)
LEMMA PageStep ==
  ASSUME Inv, Filter \/ Tick \/ OpenBulk \/ Close \/ OfferCategory
              \/ \E kind \in {"delete", "edit", "rule"} : Open(kind)
  PROVE  Inv'
<1>0. PageIs(page)
  BY PageParts DEF Inv
<1>1. CASE Filter
  <2>1. PICK only \in BOOLEAN : page' = [page EXCEPT !.only = only] /\ Begin(Load(only))
    BY <1>1 DEF Filter
  <2>2. PageIs(page')
    BY <1>0, <2>1 DEF PageIs
  <2>3. CallsOK'
    BY <2>1, BeginOK DEF Inv
  <2>4. PastOK' /\ past'.edited = past.edited /\ UNCHANGED tables
    BY <1>1, CountedOK DEF Filter, Inv
  <2> QED BY <2>2, <2>3, <2>4, NewPage, TablesSame DEF Inv
<1>2. CASE Tick
  <2>1. PICK S \in SUBSET DOMAIN page.list : page' = [page EXCEPT !.ticked = S]
    BY <1>2 DEF Tick
  <2>2. S \in SUBSET Tx
    BY PageFacts DEF Inv
  <2>3. PageIs(page')
    BY <1>0, <2>1, <2>2 DEF PageIs
  <2>4. PastOK' /\ past'.edited = past.edited /\ UNCHANGED tables /\ UNCHANGED calls
    BY <1>2, CountedOK DEF Tick, Inv
  <2> QED BY <2>3, <2>4, NewPage, TablesSame, CallsSame DEF Inv
<1>3. ASSUME UNCHANGED <<tables, calls, past>>, PageIs(page') PROVE Inv'
  <2>1. PastOK' /\ past'.edited = past.edited /\ UNCHANGED tables /\ UNCHANGED calls
    BY <1>3 DEF PastOK, Inv
  <2> QED BY <1>3, <2>1, NewPage, TablesSame, CallsSame DEF Inv
<1>4. CASE OpenBulk
  <2>1. Shown("bulk", None) \in Dialog
    BY ShownTyped DEF Inv, Some
  <2>2. PageIs(page')
    BY <1>0, <1>4, <2>1 DEF OpenBulk, PageIs, Some
  <2> QED BY <1>3, <1>4, <2>2 DEF OpenBulk
<1>5. CASE Close
  <2>1. PageIs(page')
    BY <1>0, <1>5 DEF Close, PageIs, Some
  <2> QED BY <1>3, <1>5, <2>1 DEF Close
<1>6. CASE OfferCategory
  <2>1. PICK t : /\ t \in DOMAIN page.list \/ (page.dialog # None /\ t = page.dialog.tx)
                 /\ \/ page' = [page EXCEPT !.creating = For(t)]
                    \/ page' = [page EXCEPT !.creating = For(t), !.dialog = None]
    BY <1>6 DEF OfferCategory, Shows
  <2>2. t \in Some(Tx)
    BY <2>1, PageFacts DEF Inv, Dialog, Some
  <2>3. For(t) \in Creation
    BY <2>2 DEF For, Creation, Some
  <2>4. PageIs(page')
    BY <1>0, <2>1, <2>3 DEF PageIs, Some
  <2> QED BY <1>3, <1>6, <2>4 DEF OfferCategory
<1>7. ASSUME NEW kind \in {"delete", "edit", "rule"}, Open(kind) PROVE Inv'
  <2>1. PICK t \in DOMAIN page.list : page' = [page EXCEPT !.dialog = Shown(kind, t)]
    BY <1>7 DEF Open
  <2>2. Shown(kind, t) \in Dialog
    BY ShownTyped DEF Inv, Some
  <2>3. PageIs(page')
    BY <1>0, <2>1, <2>2 DEF PageIs, Some
  <2> QED BY <1>3, <1>7, <2>3 DEF Open
<1> QED BY <1>1, <1>2, <1>4, <1>5, <1>6, <1>7

(* A request of the user that leaves the page as it is, or sets the dialog. *)
LEMMA SendKeeps ==
  ASSUME Inv, NEW c, NEW op, NEW arg, Send(c, op, arg), ArgOK(op, arg), UNCHANGED page
  PROVE  Inv'
BY SendOK, PageSame DEF Inv

LEMMA SubmitKeeps ==
  ASSUME Inv, NEW kind, NEW c, NEW op, NEW arg, Submit(kind, op, arg, c), ArgOK(op, arg)
  PROVE  Inv'
<1>1. Send(c, op, arg) /\ page' = [page EXCEPT !.dialog.busy = c] /\ page.dialog # None
  BY DEF Submit, Shows, SetDialog
<1>2. c \in Call /\ TablesInv' /\ CallsOK' /\ PastOK'
  BY <1>1, SendOK
<1>3. PageIs(page) /\ page.dialog \in Dialog
  BY <1>1, PageParts, PageFacts DEF Inv
<1> DEFINE d == [page.dialog EXCEPT !.busy = c]
<1>4. page' = [page EXCEPT !.dialog = d]
  BY <1>1
<1>5. d \in Dialog
  BY <1>2, <1>3 DEF Dialog, Some
<1> HIDE DEF d
<1>6. PageIs(page')
  BY <1>3, <1>4, <1>5 DEF PageIs, Some
<1> QED BY <1>2, <1>6, NewPage DEF Inv

LEMMA UserStep ==
  ASSUME Inv, NEW c, User(c) PROVE Inv'
<1>1. ASSUME NEW t \in Tx, NEW k \in Category, Categorize(t, k, c) PROVE Inv'
  <2> DEFINE arg == [tx |-> t, change |-> [cat |-> k, src |-> "manual"]]
  <2>1. Send(c, "patch", arg) /\ UNCHANGED page
    BY <1>1 DEF Categorize
  <2>2. ArgOK("patch", arg)
    BY DEF ArgOK, ChangeOK
  <2> HIDE DEF arg
  <2> QED BY <2>1, <2>2, SendKeeps
<1>2. ASSUME NEW t \in Tx, Approve(t, c) PROVE Inv'
  <2>1. Send(c, "approve", t) /\ UNCHANGED page /\ ArgOK("approve", t)
    BY <1>2 DEF Approve, ArgOK
  <2> QED BY <2>1, SendKeeps
<1>3. ASSUME NEW t \in Tx, SaveTax(t, c) PROVE Inv'
  <2>1. Send(c, "tax", t) /\ UNCHANGED page /\ ArgOK("tax", t)
    BY <1>3 DEF SaveTax, ArgOK
  <2> QED BY <2>1, SendKeeps
<1>4. ASSUME NEW t \in Tx, NEW kind \in {"split", "ai"}, OpenLoading(kind, t, c) PROVE Inv'
  <2> DEFINE d == [Shown(kind, t) EXCEPT !.loading = c]
  <2>1. /\ t \in DOMAIN page.list /\ Send(c, kind, t) /\ page' = [page EXCEPT !.dialog = d]
        /\ ArgOK(kind, t)
    BY <1>4 DEF OpenLoading, ArgOK
  <2>2. c \in Call /\ TablesInv' /\ CallsOK' /\ PastOK'
    BY <2>1, SendOK
  <2>3. Shown(kind, t) \in Dialog
    BY <2>1, ShownTyped DEF Inv, Some
  <2>4. d \in Dialog
    BY <2>2, <2>3 DEF Dialog, Some
  <2> HIDE DEF d
  <2>5. PageIs(page')
    BY <2>1, <2>4, PageParts DEF PageIs, Some, Inv
  <2> QED BY <2>2, <2>5, NewPage DEF Inv
<1>5. CASE Confirm(c)
  <2>1. PICK S : Send(c, page.dialog.kind, S)
    BY <1>5 DEF Confirm
  <2>2. UNCHANGED page /\ ArgOK(page.dialog.kind, S)
    BY <1>5 DEF Confirm, ArgOK
  <2> QED BY <2>1, <2>2, SendKeeps
<1>6. ASSUME NEW a \in Amount, SaveEdit(a, c) PROVE Inv'
  <2> DEFINE arg == [tx |-> page.dialog.tx, change |-> [amount |-> a]]
  <2>1. Submit("edit", "edit", arg, c) /\ ArgOK("edit", arg)
    BY <1>6 DEF SaveEdit, ArgOK, ChangeOK
  <2> HIDE DEF arg
  <2> QED BY <2>1, SubmitKeeps
<1>7. ASSUME NEW lines \in Split, Submit("split", "put", [tx |-> page.dialog.tx, lines |-> lines], c)
      PROVE  Inv'
  <2> DEFINE arg == [tx |-> page.dialog.tx, lines |-> lines]
  <2>1. Submit("split", "put", arg, c) /\ ArgOK("put", arg)
    BY <1>7 DEF ArgOK
  <2> HIDE DEF arg
  <2> QED BY <2>1, SubmitKeeps
<1>8. ASSUME NEW lines \in FormLines, SaveSplits(lines, c) PROVE Inv'
  BY <1>7, <1>8 DEF SaveSplits, FormLines
<1>9. CASE ClearSplits(c)
  <2>1. NoSplit \in Split
    <3>1. NoSplit \in [{} -> Part]
      BY DEF NoSplit, Restricted
    <3> QED BY <3>1 DEF Split, Partial
  <2> QED BY <1>7, <1>9, <2>1 DEF ClearSplits
<1>10. ASSUME NEW k \in Category, NEW all, NEW now, SaveRule(k, all, now, c) PROVE Inv'
  <2>1. PICK arg : Submit("rule", "rule", arg, c)
    BY <1>10 DEF SaveRule
  <2>2. ArgOK("rule", arg)
    BY DEF ArgOK
  <2> QED BY <2>1, <2>2, SubmitKeeps
<1>11. ASSUME NEW patch, NEW rule, ApplyAdvice(patch, rule, c) PROVE Inv'
  <2>1. PICK arg : Submit("ai", "apply", arg, c)
    BY <1>11 DEF ApplyAdvice
  <2>2. ArgOK("apply", arg)
    BY DEF ArgOK
  <2> QED BY <2>1, <2>2, SubmitKeeps
<1>12. ASSUME NEW k \in Category, NEW transfer, CreateCategory(k, transfer, c) PROVE Inv'
  <2> DEFINE arg == [tx |-> page.creating.tx, cat |-> k, transfer |-> transfer]
             n == [page.creating EXCEPT !.busy = c]
  <2>1. /\ Send(c, "create", arg) /\ ArgOK("create", arg)
        /\ page.creating # None /\ page' = [page EXCEPT !.creating = n]
    BY <1>12 DEF CreateCategory, ArgOK
  <2> HIDE DEF arg
  <2>2. c \in Call /\ TablesInv' /\ CallsOK' /\ PastOK'
    BY <2>1, SendOK
  <2>3. PageIs(page) /\ page.creating \in Creation
    BY <2>1, PageParts DEF PageIs, Some, Inv
  <2>4. n \in Creation
    BY <2>2, <2>3 DEF Creation, Some
  <2> HIDE DEF n
  <2>5. PageIs(page')
    BY <2>1, <2>3, <2>4 DEF PageIs, Some
  <2> QED BY <2>2, <2>5, NewPage DEF Inv
<1> QED BY <1>1, <1>2, <1>3, <1>4, <1>5, <1>6, <1>8, <1>9, <1>10, <1>11, <1>12 DEF User

-----------------------------------------------------------------------------
(* What the server does.                                                    *)

LEMMA PastSame == ASSUME PastOK, UNCHANGED past PROVE PastOK' /\ past'.edited = past.edited
BY DEF PastOK

LEMMA CallTyped == ASSUME Inv, NEW c \in DOMAIN calls PROVE c \in Call /\ Shape(calls[c])
BY DEF Inv, CallsOK

LEMMA RefuseKeeps == ASSUME Inv, NEW c \in DOMAIN calls, Refuse(c) PROVE Inv'
<1>1. Answers(c, "bad", None) /\ UNCHANGED tables /\ UNCHANGED page /\ UNCHANGED past
  BY DEF Refuse
<1> QED BY <1>1, BadAnswer, TablesSame, PageSame, PastSame DEF Inv

LEMMA ExitKeeps == ASSUME Inv, Exit PROVE Inv'
<1>1. UNCHANGED tables /\ UNCHANGED page /\ UNCHANGED past
  BY DEF Exit
<1> QED BY <1>1, ExitCalls, TablesSame, PageSame, PastSame DEF Inv

(* An answer that says nothing but that it was done.                        *)
LEMMA DoneAnswer ==
  ASSUME Inv, NEW c \in DOMAIN calls, NEW step \in {"sent", "ok"}, NEW got, Answers(c, step, got),
         calls[c].op \notin {"load", "ai", "split"}
  PROVE  CallsOK'
BY GoodAnswer DEF Inv

LEMMA PatchedKeeps ==
  ASSUME Inv, NEW c \in DOMAIN calls, calls[c].op \notin {"load", "ai", "split"},
         NEW t, NEW change, ChangeOK(change), Patched(c, t, change)
  PROVE  Inv'
<1>1. CASE t \notin DOMAIN rows
  BY <1>1, RefuseKeeps DEF Patched
<1>2. CASE t \in DOMAIN rows /\ "cat" \in DOMAIN change /\ change.cat \notin categories
  BY <1>2, ExitKeeps DEF Patched
<1>3. CASE t \in DOMAIN rows /\ ("cat" \in DOMAIN change => change.cat \in categories)
  <2>1. /\ PatchRow(t, change) /\ Answers(c, "ok", None) /\ UNCHANGED page
        /\ past' = [past EXCEPT !.edited = Edited(t, change)]
    BY <1>3 DEF Patched
  <2>2. Edited(t, change) \in SUBSET Tx
    BY <1>3 DEF Edited, Inv, PastOK, TablesInv, TablesOK
  <2>3. PastOK' /\ past'.edited = Edited(t, change)
    BY <2>1, <2>2 DEF Inv, PastOK
  <2>4. TablesInv'
    BY <1>3, <2>1, <2>3, PatchRowKeeps DEF Inv
  <2>5. CallsOK'
    BY <2>1, DoneAnswer
  <2> QED BY <2>1, <2>3, <2>4, <2>5, PageSame DEF Inv
<1> QED BY <1>1, <1>2, <1>3

LEMMA ServeLoadKeeps == ASSUME Inv, NEW c, ServeLoad(c) PROVE Inv'
<1> DEFINE g == calls[c].got
<1>1. /\ c \in DOMAIN calls /\ calls[c].op = "load" /\ calls[c].step = "sent"
      /\ UNCHANGED tables /\ UNCHANGED page /\ UNCHANGED past
  BY DEF ServeLoad, Asked
<1>2. /\ DOMAIN g = {"rows", "cats"}
      /\ g.rows \in Some(Lists) /\ g.cats \in Some(SUBSET Category)
  BY <1>1, CallTyped DEF Shape
<1>3. CallsOK'
  <2>1. CASE g.rows = None /\ Answers(c, IF g.cats = None THEN "sent" ELSE "ok",
                                         [g EXCEPT !.rows = Listed(calls[c].only)])
    <3> DEFINE got == [g EXCEPT !.rows = Listed(calls[c].only)]
               step == IF g.cats = None THEN "sent" ELSE "ok"
    <3>1. Listed(calls[c].only) \in Lists
      BY ListedTyped DEF Inv, TablesInv
    <3>2. DOMAIN got = {"rows", "cats"} /\ got.rows \in Lists /\ got.cats = g.cats
      BY <1>2, <3>1
    <3>3. /\ step \in {"sent", "ok"} /\ Answers(c, step, got)
          /\ step = "ok" => g.cats \in SUBSET Category
      BY <1>2, <2>1 DEF Some
    <3> HIDE DEF got, step, g
    <3> QED BY <1>1, <1>2, <3>2, <3>3, GoodAnswer DEF Inv, Some
  <2>2. CASE g.cats = None /\ Answers(c, IF g.rows = None THEN "sent" ELSE "ok",
                                         [g EXCEPT !.cats = categories])
    <3> DEFINE got == [g EXCEPT !.cats = categories]
               step == IF g.rows = None THEN "sent" ELSE "ok"
    <3>1. categories \in SUBSET Category
      BY DEF Inv, TablesInv, TablesOK
    <3>2. DOMAIN got = {"rows", "cats"} /\ got.cats \in SUBSET Category /\ got.rows = g.rows
      BY <1>2, <3>1
    <3>3. /\ step \in {"sent", "ok"} /\ Answers(c, step, got)
          /\ step = "ok" => g.rows \in Lists
      BY <1>2, <2>2 DEF Some
    <3> HIDE DEF got, step, g
    <3> QED BY <1>1, <1>2, <3>2, <3>3, GoodAnswer DEF Inv, Some
  <2> QED BY <2>1, <2>2 DEF ServeLoad
<1> QED BY <1>1, <1>3, TablesSame, PageSame, PastSame DEF Inv

LEMMA ServerStep == ASSUME Inv, NEW c, Server(c) PROVE Inv'
<1>1. CASE ServeDelete(c)
  <2>1. c \in DOMAIN calls /\ calls[c].op \in {"bulk", "delete"}
    BY <1>1 DEF ServeDelete, Asked
  <2>2. \/ Refuse(c)
        \/ DeleteRows(calls[c].arg) /\ Answers(c, "ok", None) /\ UNCHANGED page /\ UNCHANGED past
    BY <1>1 DEF ServeDelete
  <2>3. CASE Refuse(c)
    BY <2>1, <2>3, RefuseKeeps
  <2>4. CASE DeleteRows(calls[c].arg) /\ Answers(c, "ok", None) /\ UNCHANGED page /\ UNCHANGED past
    <3>1. CallsOK'
      BY <2>1, <2>4, DoneAnswer
    <3>2. PastOK' /\ past'.edited = past.edited
      BY <2>4, PastSame DEF Inv
    <3>3. TablesInv'
      BY <2>4, <3>2, DeleteRowsKeep DEF Inv
    <3> QED BY <2>4, <3>1, <3>2, <3>3, PageSame DEF Inv
  <2> QED BY <2>2, <2>3, <2>4
<1>2. CASE ServePatch(c)
  <2>1. c \in DOMAIN calls /\ calls[c].op \in {"patch", "edit"}
    BY <1>2 DEF ServePatch, Asked
  <2>2. ChangeOK(calls[c].arg.change)
    BY <2>1, CallTyped DEF Shape
  <2>3. Patched(c, calls[c].arg.tx, calls[c].arg.change)
    BY <1>2 DEF ServePatch
  <2> QED BY <2>1, <2>2, <2>3, PatchedKeeps
<1>3. CASE ServeTax(c)
  <2>1. c \in DOMAIN calls /\ calls[c].op = "tax" /\ Patched(c, calls[c].arg, NoSplit)
    BY <1>3 DEF ServeTax, Asked
  <2>2. ChangeOK(NoSplit)
    BY NoSplitIs DEF ChangeOK
  <2> QED BY <2>1, <2>2, PatchedKeeps
<1>4. CASE ServeApprove(c)
  <2>1. c \in DOMAIN calls /\ calls[c].op = "approve"
    BY <1>4 DEF ServeApprove, Asked
  <2> DEFINE change(k) == [cat |-> k, src |-> "manual"]
  <2>2. \A k : ChangeOK(change(k))
    BY DEF ChangeOK
  <2>3. Refuse(c) \/ Patched(c, calls[c].arg, change(rows[calls[c].arg].sugg))
    BY <1>4 DEF ServeApprove
  <2> HIDE DEF change
  <2> QED BY <2>1, <2>2, <2>3, RefuseKeeps, PatchedKeeps
<1>5. CASE ServeSplits(c)
  <2>1. c \in DOMAIN calls /\ calls[c].op = "split"
    BY <1>5 DEF ServeSplits, Asked
  <2>2. \/ Refuse(c)
        \/ Answers(c, "ok", None) /\ UNCHANGED tables /\ UNCHANGED page /\ UNCHANGED past
    BY <1>5 DEF ServeSplits
  <2>3. Answers(c, "ok", None) => CallsOK'
    BY <2>1, GoodAnswer DEF Inv
  <2> QED BY <2>1, <2>2, <2>3, RefuseKeeps, TablesSame, PageSame, PastSame DEF Inv
<1>6. CASE ServePut(c)
  <2> DEFINE t == calls[c].arg.tx
             lines == calls[c].arg.lines
  <2>1. c \in DOMAIN calls /\ calls[c].op = "put"
    BY <1>6 DEF ServePut, Asked
  <2>2. lines \in Split
    BY <2>1, CallTyped DEF Shape
  <2>3. \/ Refuse(c) \/ Exit
        \/ /\ t \in DOMAIN rows /\ DOMAIN lines \subseteq categories /\ Accepts(t, lines)
           /\ PutSplits(t, lines) /\ Answers(c, "ok", None) /\ UNCHANGED page
           /\ past' = [past EXCEPT !.edited = @ \ {t}]
    BY <1>6 DEF ServePut
  <2>4. ASSUME t \in DOMAIN rows, DOMAIN lines \subseteq categories, Accepts(t, lines),
               PutSplits(t, lines), Answers(c, "ok", None), UNCHANGED page,
               past' = [past EXCEPT !.edited = @ \ {t}]
        PROVE  Inv'
    <3>1. PastOK' /\ past'.edited = past.edited \ {t}
      BY <2>4 DEF Inv, PastOK
    <3>2. CallsOK'
      BY <2>1, <2>4, DoneAnswer
    <3> HIDE DEF t, lines
    <3>3. TablesInv'
      BY <2>2, <2>4, <3>1, PutSplitsKeeps DEF Inv
    <3> QED BY <2>4, <3>1, <3>2, <3>3, PageSame DEF Inv
  <2> HIDE DEF t, lines
  <2> QED BY <2>1, <2>3, <2>4, RefuseKeeps, ExitKeeps
<1>7. CASE ServeRule(c)
  <2>1. c \in DOMAIN calls /\ calls[c].op = "rule"
    BY <1>7 DEF ServeRule, Asked
  <2>2. \/ Exit
        \/ /\ \/ UNCHANGED tables
              \/ calls[c].arg.cat \in categories /\ ApplyRule(calls[c].arg.hits, calls[c].arg.cat)
           /\ Answers(c, "sent", "made") \/ Answers(c, "ok", calls[c].got)
           /\ UNCHANGED page /\ UNCHANGED past
    BY <1>7 DEF ServeRule
  <2>3. ASSUME \/ UNCHANGED tables
               \/ calls[c].arg.cat \in categories /\ ApplyRule(calls[c].arg.hits, calls[c].arg.cat),
               Answers(c, "sent", "made") \/ Answers(c, "ok", calls[c].got),
               UNCHANGED page, UNCHANGED past
        PROVE  Inv'
    <3>1. PastOK' /\ past'.edited = past.edited
      BY <2>3, PastSame DEF Inv
    <3>2. CallsOK'
      BY <2>1, <2>3, DoneAnswer
    <3>3. TablesInv'
      BY <2>3, <3>1, ApplyRuleKeeps, TablesSame DEF Inv
    <3> QED BY <2>3, <3>1, <3>2, <3>3, PageSame DEF Inv
  <2> QED BY <2>2, <2>3, ExitKeeps
<1>8. CASE AskModel(c)
  <2>1. c \in DOMAIN calls /\ calls[c].op = "ai"
    BY <1>8 DEF AskModel, Asked
  <2>2. \/ Refuse(c)
        \/ Answers(c, "sent", categories) /\ UNCHANGED tables /\ UNCHANGED page /\ UNCHANGED past
    BY <1>8 DEF AskModel
  <2>3. categories \in Some(SUBSET Category)
    BY DEF Inv, TablesInv, TablesOK, Some
  <2>4. Answers(c, "sent", categories) => CallsOK'
    BY <2>1, <2>3, GoodAnswer DEF Inv
  <2> QED BY <2>1, <2>2, <2>4, RefuseKeeps, TablesSame, PageSame, PastSame DEF Inv
<1>9. CASE ServeAdvice(c)
  <2>1. c \in DOMAIN calls /\ calls[c].op = "ai" /\ calls[c].step = "sent" /\ calls[c].got # None
    BY <1>9 DEF ServeAdvice, Asked
  <2>2. calls[c].got \in SUBSET Category
    BY <2>1, CallTyped DEF Shape, Some
  <2>3. ASSUME NEW k \in Some(calls[c].got), Answers(c, "ok", k),
               UNCHANGED tables, UNCHANGED page, UNCHANGED past
        PROVE  Inv'
    <3>1. k \in Some(Category)
      BY <2>2 DEF Some
    <3>2. CallsOK'
      BY <2>1, <2>3, <3>1, GoodAnswer DEF Inv
    <3> QED BY <2>3, <3>2, TablesSame, PageSame, PastSame DEF Inv
  <2>4. \/ Refuse(c)
        \/ \E k \in Some(calls[c].got) :
             Answers(c, "ok", k) /\ UNCHANGED tables /\ UNCHANGED page /\ UNCHANGED past
    BY <1>9 DEF ServeAdvice
  <2> QED BY <2>1, <2>3, <2>4, RefuseKeeps
<1>10. CASE ServeApply(c)
  <2> DEFINE a == calls[c].arg
             change == [cat |-> a.cat, src |-> "manual"]
  <2>1. c \in DOMAIN calls /\ calls[c].op = "apply"
    BY <1>10 DEF ServeApply, Asked
  <2>2. \/ Refuse(c) \/ Exit
        \/ Answers(c, "ok", None) /\ UNCHANGED tables /\ UNCHANGED page /\ UNCHANGED past
        \/ /\ a.tx \in DOMAIN rows /\ a.cat \in categories /\ PatchRow(a.tx, change)
           /\ Answers(c, IF a.rule THEN "sent" ELSE "ok", "patched") /\ UNCHANGED page /\ UNCHANGED past
    BY <1>10 DEF ServeApply
  <2>3. ASSUME Answers(c, "ok", None), UNCHANGED tables, UNCHANGED page, UNCHANGED past
        PROVE  Inv'
    BY <2>1, <2>3, DoneAnswer, TablesSame, PageSame, PastSame DEF Inv
  <2>4. ASSUME a.tx \in DOMAIN rows, a.cat \in categories, PatchRow(a.tx, change),
               Answers(c, IF a.rule THEN "sent" ELSE "ok", "patched"), UNCHANGED page, UNCHANGED past
        PROVE  Inv'
    <3>1. PastOK' /\ past'.edited = past.edited
      BY <2>4, PastSame DEF Inv
    <3>2. CallsOK'
      <4> DEFINE step == IF a.rule THEN "sent" ELSE "ok"
      <4>1. step \in {"sent", "ok"} /\ Answers(c, step, "patched")
        BY <2>4
      <4> HIDE DEF step
      <4> QED BY <2>1, <4>1, DoneAnswer
    <3>3. ChangeOK(change) /\ change.cat = a.cat /\ Edited(a.tx, change) = past.edited
      BY DEF ChangeOK, Edited
    <3> HIDE DEF a, change
    <3>4. TablesInv'
      BY <2>4, <3>1, <3>3, PatchRowKeeps DEF Inv
    <3> QED BY <2>4, <3>1, <3>2, <3>4, PageSame DEF Inv
  <2> HIDE DEF a, change
  <2> QED BY <2>1, <2>2, <2>3, <2>4, RefuseKeeps, ExitKeeps
<1>11. CASE ServeCreate(c)
  <2>1. c \in DOMAIN calls /\ calls[c].op = "create"
    BY <1>11 DEF ServeCreate, Asked
  <2>2. calls[c].arg.cat \in Category
    BY <2>1, CallTyped DEF Shape
  <2>3. \/ Exit
        \/ /\ AddCategory(calls[c].arg.cat, calls[c].arg.transfer)
           /\ Answers(c, "ok", None) /\ UNCHANGED page /\ UNCHANGED past
    BY <1>11 DEF ServeCreate
  <2>4. ASSUME AddCategory(calls[c].arg.cat, calls[c].arg.transfer),
               Answers(c, "ok", None), UNCHANGED page, UNCHANGED past
        PROVE  Inv'
    <3>1. PastOK' /\ past'.edited = past.edited /\ CallsOK'
      BY <2>1, <2>4, PastSame, DoneAnswer DEF Inv
    <3>2. TablesInv'
      BY <2>2, <2>4, <3>1, AddCategoryKeeps DEF Inv
    <3> QED BY <2>4, <3>1, <3>2, PageSame DEF Inv
  <2> QED BY <2>3, <2>4, ExitKeeps
<1> QED BY <1>1, <1>2, <1>3, <1>4, <1>5, <1>6, <1>7, <1>8, <1>9, <1>10, <1>11, ServeLoadKeeps DEF Server

-----------------------------------------------------------------------------
(* What the page takes, what is lost, and what happens elsewhere.           *)

(* A step that leaves tables and history alone.                             *)
LEMMA CalmStep ==
  ASSUME Inv, UNCHANGED tables, UNCHANGED past, CallsOK', PageInv' PROVE Inv'
BY TablesSame, PastSame DEF Inv

LEMMA ClosingTyped == ASSUME PageInv, NEW kinds PROVE Closing(kinds) \in Some(Dialog)
BY PageFacts DEF Closing, Some

LEMMA TakeStep == ASSUME Inv, NEW c, Take(c) PROVE Inv'
<1>0. PageIs(page) /\ PageInv
  BY PageParts DEF Inv
<1>1. CASE TakeList(c)
  <2>1. /\ c \in DOMAIN calls /\ calls[c].op = "load" /\ calls[c].step = "ok"
        /\ calls' = Gone(c) /\ UNCHANGED tables /\ UNCHANGED past
    BY <1>1 DEF TakeList, Answered
  <2>2. PICK list, cats : list = calls[c].got.rows /\ cats = calls[c].got.cats
    OBVIOUS
  <2>3. list \in Lists /\ cats \in SUBSET Category
    BY <2>1, <2>2, CallTyped DEF Shape
  <2>4. page' = [page EXCEPT !.list = list, !.cats = cats, !.ticked = {}]
    BY <1>1, <2>2 DEF TakeList, TicksAfter
  <2>5. PageIs(page')
    BY <1>0, <2>3, <2>4 DEF PageIs
  <2> QED BY <2>1, <2>5, GoneCall, NewPage, CalmStep DEF Inv
<1>2. CASE TakeTax(c)
  <2>1. calls' = Gone(c) /\ UNCHANGED tables /\ UNCHANGED past /\ page' = [page EXCEPT !.ticked = {}]
    BY <1>2 DEF TakeTax, TicksAfter
  <2>2. PageIs(page')
    BY <1>0, <2>1 DEF PageIs
  <2> QED BY <2>1, <2>2, GoneCall, NewPage, CalmStep DEF Inv
<1>3. CASE TakeDone(c)
  <2>1. c \in DOMAIN calls /\ Reload(c) /\ UNCHANGED tables /\ UNCHANGED past
    BY <1>3 DEF TakeDone, Answered
  <2>2. PICK d \in Some(Dialog) : page' = [page EXCEPT !.dialog = d]
    BY <1>0, <1>3, ClosingTyped DEF TakeDone
  <2>3. PageIs(page')
    BY <1>0, <2>2 DEF PageIs
  <2>4. Shape(Load(calls[c].only))
    BY <2>1, CallTyped, LoadShape DEF Shape
  <2>5. CallsOK'
    BY <2>1, <2>4, OtherCall DEF Reload, Inv
  <2> QED BY <2>1, <2>3, <2>5, NewPage, CalmStep
<1>4. CASE TakeCreated(c)
  <2> DEFINE arg == [tx |-> calls[c].arg.tx, change |-> [cat |-> calls[c].arg.cat, src |-> "manual"]]
             q == [Request("patch", arg) EXCEPT !.only = calls[c].only]
  <2>1. /\ c \in DOMAIN calls /\ calls' = [calls EXCEPT ![c] = q] /\ UNCHANGED tables /\ UNCHANGED past
        /\ page' = [page EXCEPT !.creating = None]
    BY <1>4 DEF TakeCreated, Answered
  <2>2. ArgOK("patch", arg)
    BY DEF ArgOK, ChangeOK
  <2> HIDE DEF arg
  <2>3. Shape(Request("patch", arg)) /\ calls[c].only \in BOOLEAN
    BY <1>0, <2>1, <2>2, CallTyped, RequestShape DEF Shape
  <2>4. Shape(q)
    <3>1. /\ DOMAIN q = Fields /\ q.op = "patch" /\ q.arg = arg /\ q.step = "sent" /\ q.got = None
          /\ q.only = calls[c].only
      BY DEF Request, Fields
    <3> HIDE DEF q
    <3> QED BY <2>2, <2>3, <3>1 DEF Shape, ArgOK, Answer
  <2> HIDE DEF q
  <2>5. CallsOK'
    BY <2>1, <2>4, OtherCall DEF Inv
  <2>6. PageIs(page')
    BY <1>0, <2>1 DEF PageIs, Some
  <2> QED BY <2>1, <2>5, <2>6, NewPage, CalmStep
<1>5. CASE TakeError(c)
  <2>1. calls' = Gone(c) /\ UNCHANGED tables /\ UNCHANGED past
    BY <1>5 DEF TakeError
  <2>2. CASE UNCHANGED page
    BY <1>0, <2>1, <2>2, GoneCall, PageSame, CalmStep DEF Inv
  <2>3. CASE page.dialog # None /\ page' = [page EXCEPT !.dialog.busy = None]
    <3> DEFINE d == [page.dialog EXCEPT !.busy = None]
    <3>1. page' = [page EXCEPT !.dialog = d]
      BY <2>3
    <3>2. d \in Dialog
      BY <1>0, <2>3, PageFacts DEF Dialog, Some
    <3> HIDE DEF d
    <3>3. PageIs(page')
      BY <1>0, <3>1, <3>2 DEF PageIs, Some
    <3> QED BY <2>1, <3>3, GoneCall, NewPage, CalmStep DEF Inv
  <2>4. CASE page.creating # None /\ page' = [page EXCEPT !.creating.busy = None]
    <3> DEFINE n == [page.creating EXCEPT !.busy = None]
    <3>1. page' = [page EXCEPT !.creating = n]
      BY <2>4
    <3>2. n \in Creation
      BY <1>0, <2>4 DEF PageIs, Creation, Some
    <3> HIDE DEF n
    <3>3. PageIs(page')
      BY <1>0, <3>1, <3>2 DEF PageIs, Some
    <3> QED BY <2>1, <3>3, GoneCall, NewPage, CalmStep DEF Inv
  <2> QED BY <1>5, <2>2, <2>3, <2>4 DEF TakeError
<1>6. ASSUME NEW step \in {"ok", "bad"}, TakeLoaded(c, step) PROVE Inv'
  <2>1. /\ c \in DOMAIN calls /\ calls[c].op \in {"split", "ai"} /\ calls[c].step = step
        /\ calls' = Gone(c) /\ UNCHANGED tables /\ UNCHANGED past
    BY <1>6 DEF TakeLoaded, Answered
  <2>2. CASE UNCHANGED page
    BY <1>0, <2>1, <2>2, GoneCall, PageSame, CalmStep DEF Inv
  <2>3. CASE page.dialog # None /\ page' = [page EXCEPT !.dialog.loading = None, !.dialog.advice = calls[c].got]
    <3> DEFINE d == [page.dialog EXCEPT !.loading = None, !.advice = calls[c].got]
    <3>1. page' = [page EXCEPT !.dialog = d]
      BY <2>3
    <3>2. calls[c].got \in Some(Category)
      BY <2>1, CallTyped DEF Shape, Some
    <3>3. d \in Dialog
      BY <1>0, <2>3, <3>2, PageFacts DEF Dialog, Some
    <3> HIDE DEF d
    <3>4. PageIs(page')
      BY <1>0, <3>1, <3>3 DEF PageIs, Some
    <3> QED BY <2>1, <3>4, GoneCall, NewPage, CalmStep DEF Inv
  <2> QED BY <1>6, <2>2, <2>3 DEF TakeLoaded
<1> QED BY <1>1, <1>2, <1>3, <1>4, <1>5, <1>6 DEF Take

LEMMA ElsewhereOK ==
  ASSUME PastOK, NEW edited \in SUBSET Tx, NEW next, next = [past EXCEPT !.edited = edited], Elsewhere(next)
  PROVE  PastOK' /\ past'.edited = edited
<1>1. past.elsewhere \in 0..MaxElsewhere /\ past.elsewhere < MaxElsewhere
  BY DEF PastOK, Elsewhere
<1>2. past' = [past EXCEPT !.edited = edited, !.elsewhere = @ + 1]
  BY DEF Elsewhere, PastOK
<1>3. past.elsewhere + 1 \in 0..MaxElsewhere
  BY <1>1, BooksAssumption
<1> QED BY <1>2, <1>3 DEF PastOK

LEMMA ElsewhereSame == ASSUME PastOK, Elsewhere(past) PROVE PastOK' /\ past'.edited = past.edited
<1>1. past = [past EXCEPT !.edited = past.edited] /\ past.edited \in SUBSET Tx
  BY DEF PastOK
<1> QED BY <1>1, ElsewhereOK

LEMMA LoseKeeps == ASSUME Inv, NEW c, Lose(c) PROVE Inv'
<1>1. /\ c \in DOMAIN calls /\ calls' = [calls EXCEPT ![c] = Failed(calls[c])] /\ Elsewhere(past)
      /\ UNCHANGED tables /\ UNCHANGED page
  BY DEF Lose
<1>2. CallsOK'
  BY <1>1, CallTyped, FailedShape, OtherCall DEF Inv
<1> QED BY <1>1, <1>2, ElsewhereSame, TablesSame, PageSame DEF Inv

(* Other tabs change the tables and the history alone.                      *)
LEMMA ElsewhereStep ==
  ASSUME Inv,
         \/ \E t \in Tx, a \in Amount, s \in Some(Category) : Import(t, a, s)
         \/ \E t \in Tx, a \in Amount : Amend(t, a)
         \/ \E t \in Tx : Remove(t)
         \/ \E k \in Category : DeleteCategory(k)
         \/ \E k \in Category, transfer \in BOOLEAN : EditCategory(k, transfer)
  PROVE  Inv'
<1>0. ASSUME TablesInv', PastOK', UNCHANGED page, UNCHANGED calls PROVE Inv'
  BY <1>0, PageSame, CallsSame DEF Inv
<1>1. ASSUME NEW t \in Tx, NEW a \in Amount, NEW s \in Some(Category), Import(t, a, s) PROVE Inv'
  <2>1. /\ t \in Tx \ DOMAIN rows /\ s \in Some(categories)
        /\ rows' = With(rows, t, NewRow(a, s)) /\ splits' = With(splits, t, NoSplit)
        /\ UNCHANGED <<categories, transfers>> /\ UNCHANGED page /\ UNCHANGED calls
        /\ Elsewhere([past EXCEPT !.edited = @ \ {t}])
    BY <1>1 DEF Import
  <2>2. PastOK' /\ past'.edited = past.edited \ {t}
    <3> DEFINE e == past.edited \ {t}
    <3>1. e \in SUBSET Tx /\ Elsewhere([past EXCEPT !.edited = e])
      BY <2>1 DEF Inv, PastOK
    <3> HIDE DEF e
    <3>2. PastOK' /\ past'.edited = e
      BY <3>1, ElsewhereOK DEF Inv
    <3> QED BY <3>2 DEF e
  <2>3. TablesInv'
    BY <2>1, <2>2, InsertRowKeeps DEF Inv
  <2> QED BY <1>0, <2>1, <2>2, <2>3
<1>2. ASSUME NEW t \in Tx, NEW a \in Amount, Amend(t, a) PROVE Inv'
  <2> DEFINE change == [amount |-> a]
  <2>1. /\ t \in DOMAIN rows /\ PatchRow(t, change) /\ UNCHANGED page /\ UNCHANGED calls
        /\ Elsewhere([past EXCEPT !.edited = Edited(t, change)])
    BY <1>2 DEF Amend
  <2>2. ChangeOK(change) /\ "cat" \notin DOMAIN change
    BY DEF ChangeOK
  <2> HIDE DEF change
  <2>3. Edited(t, change) \in SUBSET Tx
    BY DEF Edited, Inv, PastOK
  <2>4. PastOK' /\ past'.edited = Edited(t, change)
    BY <2>1, <2>3, ElsewhereOK DEF Inv
  <2>5. TablesInv'
    BY <2>1, <2>2, <2>4, PatchRowKeeps DEF Inv
  <2> QED BY <1>0, <2>1, <2>4, <2>5
<1>3. ASSUME NEW t \in Tx, Remove(t) PROVE Inv'
  <2>1. DeleteRows({t}) /\ Elsewhere(past) /\ UNCHANGED page /\ UNCHANGED calls
    BY <1>3 DEF Remove
  <2>2. PastOK' /\ past'.edited = past.edited
    BY <2>1, ElsewhereSame DEF Inv
  <2>3. TablesInv'
    BY <2>1, <2>2, DeleteRowsKeep DEF Inv
  <2> QED BY <1>0, <2>1, <2>2, <2>3
<1>4. ASSUME NEW k \in Category, DeleteCategory(k) PROVE Inv'
  <2>1. CASE Removable(k) /\ RemoveCategory(k) /\ Elsewhere(past) /\ UNCHANGED page /\ UNCHANGED calls
    <3>1. PastOK' /\ past'.edited = past.edited
      BY <2>1, ElsewhereSame DEF Inv
    <3>2. TablesInv'
      BY <2>1, <3>1, RemoveCategoryKeeps DEF Inv
    <3> QED BY <1>0, <2>1, <3>1, <3>2
  <2>2. CASE Exit
    BY <2>2, ExitKeeps
  <2> QED BY <1>4, <2>1, <2>2 DEF DeleteCategory
<1>5. ASSUME NEW k \in Category, NEW transfer \in BOOLEAN, EditCategory(k, transfer) PROVE Inv'
  <2>1. Elsewhere(past) /\ UNCHANGED page /\ UNCHANGED calls
    BY <1>5 DEF EditCategory
  <2>2. PastOK' /\ past'.edited = past.edited
    BY <2>1, ElsewhereSame DEF Inv
  <2>3. CASE k \in categories
    <3>1. /\ UNCHANGED <<rows, splits>> /\ categories' = categories
          /\ transfers' \subseteq transfers \cup {k}
      BY <1>5, <2>3 DEF EditCategory
    <3>2. TablesOK'
      BY <2>3, <3>1, MoreCategories DEF Inv, TablesInv, TablesOK
    <3>3. SplitsFit'
      BY <2>2, <3>1, FitFrom DEF Inv, TablesInv
    <3> QED BY <1>0, <2>1, <2>2, <3>2, <3>3 DEF TablesInv
  <2>4. CASE k \notin categories
    <3>1. AddCategory(k, transfer)
      BY <1>5, <2>4 DEF EditCategory
    <3>2. TablesInv'
      BY <2>2, <3>1, AddCategoryKeeps DEF Inv
    <3> QED BY <1>0, <2>1, <2>2, <3>2
  <2> QED BY <2>3, <2>4
<1> QED BY <1>1, <1>2, <1>3, <1>4, <1>5

-----------------------------------------------------------------------------
(* The theorems.                                                            *)

LEMMA InvInit == Init => Inv
<1> SUFFICES ASSUME Init PROVE Inv
  OBVIOUS
<1>1. NoSplit \in Split /\ DOMAIN NoSplit = {}
  <2>1. NoSplit \in [{} -> Part]
    BY DEF NoSplit, Restricted
  <2> QED BY <2>1, NoSplitIs DEF Split, Partial
<1>2. \A t \in Tx : NewRow(Start[t], None) \in Row /\ NewRow(Start[t], None).cat = None
                    /\ NewRow(Start[t], None).sugg = None
  BY BooksAssumption DEF NewRow, Row, Some
<1>3. /\ DOMAIN rows = Tx /\ rows \in [Tx -> Row] /\ splits \in [Tx -> Split]
      /\ \A t \in Tx : rows[t].cat = None /\ rows[t].sugg = None /\ splits[t] = NoSplit
  BY <1>1, <1>2 DEF Init
<1>4. categories \in SUBSET Category /\ transfers \in SUBSET categories
  BY BooksAssumption DEF Init
<1>5. TablesInv
  BY <1>1, <1>3, <1>4 DEF TablesInv, TablesOK, SplitsFit, Some
<1>6. PageInv
  <2>1. page = [only |-> FALSE, list |-> rows, cats |-> categories, ticked |-> {},
                dialog |-> None, creating |-> None]
    BY DEF Init
  <2> QED BY <1>3, <1>4, <2>1 DEF PageInv, PageOK, TicksAreListed, Some
<1>7. CallsOK
  BY DEF Init, CallsOK, Restricted
<1>8. PastOK
  BY BooksAssumption DEF Init, PastOK
<1> QED BY <1>5, <1>6, <1>7, <1>8 DEF Inv

LEMMA InvStep == Inv /\ [Next]_vars => Inv'
<1> SUFFICES ASSUME Inv, [Next]_vars PROVE Inv'
  OBVIOUS
<1>1. CASE UNCHANGED vars
  <2>1. UNCHANGED tables /\ UNCHANGED page /\ UNCHANGED calls /\ UNCHANGED past
    BY <1>1 DEF vars
  <2> QED BY <2>1, CallsSame, PageSame, CalmStep DEF Inv
<1>2. CASE Next
  BY <1>2, PageStep, UserStep, ServerStep, TakeStep, LoseKeeps, ElsewhereStep DEF Next
<1> QED BY <1>1, <1>2

THEOREM Invariance == Spec => []Inv
BY InvInit, InvStep, PTL DEF Spec

(* Rows and splits name categories that there are, however requests, answers *)
(* and the work of others interleave; so do the page and its dialogs.       *)
THEOREM TypeCorrect == Spec => []TypeOK
<1>1. Inv => TypeOK
  BY DEF Inv, TablesInv, PageInv, CallsOK, PastOK, Shape, TypeOK
<1> QED BY <1>1, Invariance, PTL

(* A late list takes the ticks with it: what a bulk deletion asks for is in *)
(* the list that the page shows.                                            *)
THEOREM TicksStayListed == Spec => []TicksAreListed
<1>1. Inv => TicksAreListed
  BY DEF Inv, PageInv
<1> QED BY <1>1, Invariance, PTL

(* The report by category and the cash flow agree to a cent for every split *)
(* row, for any number of rows, categories and lines.                       *)
THEOREM TheReportsAgree == Spec => []ReportsAgree
<1>1. Inv => ReportsAgree
  BY FittingReportsAgree DEF Inv, TablesInv
<1> QED BY <1>1, Invariance, PTL
=============================================================================
