--------------------------- MODULE StandaloneProofs ---------------------------
(***************************************************************************)
(* Proofs about the two components that share no state with any other: the *)
(* quota of AiQuota, for any number of concurrent calls and any limits,    *)
(* and the readers of Parsers, for statements of every length.             *)
(*                                                                         *)
(* The quota.  That an answer may pass the limit is not inductive by       *)
(* itself: what is kept by every step is that the answers given together   *)
(* with those still to come stay within the bound, and that the table      *)
(* counts at least the answers given, so that no call is admitted once the *)
(* limit is reached.                                                       *)
(*                                                                         *)
(* The readers.  A reader is a fold over the lines of a file.  The         *)
(* function that the fold chooses is shown to exist, by induction over the *)
(* number of lines, and with it that a file is read line by line; what is  *)
(* kept after the lines of each transaction follows by induction over the  *)
(* transactions.                                                           *)
(* Comma-separated values are scanned symbol by symbol in the same way: a  *)
(* row's text gives that row wherever it stands, so that the rows read are *)
(* the rows written, and the delimiter is counted only where it delimits.  *)
(***************************************************************************)
EXTENDS AiQuota, Parsers, SequenceTheorems, FiniteSetTheorems,
        WellFoundedInduction, TLAPS

(***************************************************************************)
(* The quota.                                                              *)
(***************************************************************************)

\* A set of calls is no larger than all of them.
LEMMA CallsBounded ==
  ASSUME NEW S \in SUBSET Request
  PROVE  /\ IsFiniteSet(S)
         /\ Cardinality(S) \in Nat /\ Cardinality(Request) \in Nat
         /\ Cardinality(S) <= Cardinality(Request)
BY QuotaAssumption, FS_Subset, FS_CardinalityType

\* A call that leaves a set of calls leaves room for one.
LEMMA CallLeaves ==
  ASSUME NEW S \in SUBSET Request, NEW r \in S
  PROVE  Cardinality(S \ {r}) = Cardinality(S) - 1
BY CallsBounded, FS_RemoveElement

-----------------------------------------------------------------------------
(* Type correctness.                                                       *)

LEMMA QuotaKnown ==
  ASSUME NEW t
  PROVE  QuotaOf(t) \in Kind
BY DEF QuotaOf, Kind

LEMMA TypeStep == TypeOK /\ [Next]_vars => TypeOK'
<1> SUFFICES ASSUME TypeOK, [Next]_vars
             PROVE  TypeOK'
  OBVIOUS
<1> USE DEF TypeOK
<1>1. ASSUME NEW r \in Request, ReadQuota(r)
      PROVE  TypeOK'
  BY <1>1, QuotaKnown DEF ReadQuota
<1>2. ASSUME NEW r \in Request, CheckCount(r)
      PROVE  TypeOK'
  BY <1>2 DEF CheckCount, Idle, Kind
<1>3. ASSUME NEW r \in Request, Answer(r)
      PROVE  TypeOK'
  BY <1>3 DEF Answer, Idle, Kind
<1>4. ASSUME NEW r \in Request, Fail(r)
      PROVE  TypeOK'
  BY <1>4 DEF Fail, Idle, Kind
<1>5. CASE ChangeTier
  BY <1>5 DEF ChangeTier
<1>6. CASE Midnight
  BY <1>6, QuotaAssumption DEF Midnight
<1>7. CASE UNCHANGED vars
  BY <1>7 DEF vars
<1> QED
  BY <1>1, <1>2, <1>3, <1>4, <1>5, <1>6, <1>7 DEF Next

\* Every reachable state of the quota is well typed, for every number of calls
\* under way and every limit.
THEOREM TypeCorrect == Spec => []TypeOK
<1>1. Init => TypeOK
  BY QuotaAssumption DEF Init, TypeOK, Idle, Kind
<1> QED
  BY <1>1, TypeStep, PTL DEF Spec

-----------------------------------------------------------------------------
(* How a step changes the calls that wait for the model.                   *)

\* Only CheckCount adds a call to those that wait under a limit.
LEMMA WaitingShrinks ==
  ASSUME TypeOK, NEW kind \in {"lifetime", "daily"}, [Next]_vars,
         \A r \in Request : CheckCount(r) => ~Room(kind) \/ req[r].kind # kind
  PROVE  Waiting(kind)' \subseteq Waiting(kind)
<1> SUFFICES ASSUME NEW q \in Request, req'[q].pc = "llm", req'[q].kind = kind
             PROVE  req[q].pc = "llm" /\ req[q].kind = kind
  BY DEF Waiting
<1> USE DEF TypeOK
<1>1. ASSUME NEW r \in Request, ReadQuota(r)
      PROVE  req[q].pc = "llm" /\ req[q].kind = kind
  BY <1>1 DEF ReadQuota
<1>2. ASSUME NEW r \in Request, CheckCount(r)
      PROVE  req[q].pc = "llm" /\ req[q].kind = kind
  BY <1>2 DEF CheckCount, Idle
<1>3. ASSUME NEW r \in Request, Answer(r)
      PROVE  req[q].pc = "llm" /\ req[q].kind = kind
  BY <1>3 DEF Answer, Idle
<1>4. ASSUME NEW r \in Request, Fail(r)
      PROVE  req[q].pc = "llm" /\ req[q].kind = kind
  BY <1>4 DEF Fail, Idle
<1>5. CASE ChangeTier \/ Midnight \/ UNCHANGED vars
  BY <1>5 DEF ChangeTier, Midnight, vars
<1> QED
  BY <1>1, <1>2, <1>3, <1>4, <1>5 DEF Next

\* An answer takes its call off those that wait.
LEMMA AnswerLeaves ==
  ASSUME TypeOK, NEW kind, NEW r \in Request, Answer(r), req[r].kind = kind
  PROVE  r \in Waiting(kind) /\ Waiting(kind)' \subseteq Waiting(kind) \ {r}
BY DEF TypeOK, Answer, Idle, Waiting

-----------------------------------------------------------------------------
(* The overshoot of the lifetime quota.                                    *)

FreeInv ==
  /\ free <= lifetime
  /\ free + Cardinality(Waiting("lifetime")) <= Limit - 1 + Cardinality(Request)

LEMMA FreeStep == TypeOK /\ FreeInv /\ [Next]_vars => FreeInv'
<1> SUFFICES ASSUME TypeOK, FreeInv, [Next]_vars
             PROVE  FreeInv'
  OBVIOUS
<1> DEFINE W == Waiting("lifetime")
<1>1. W \in SUBSET Request /\ W' \in SUBSET Request
  BY DEF Waiting
<1>2. /\ Cardinality(W) \in Nat /\ Cardinality(W') \in Nat /\ Cardinality(Request) \in Nat
      /\ Cardinality(W') <= Cardinality(Request)
  BY <1>1, CallsBounded
<1>3. lifetime \in Nat /\ free \in Nat /\ Limit \in Nat /\ Limit >= 1
  BY QuotaAssumption DEF TypeOK
<1>4. ASSUME W' \subseteq W
      PROVE  Cardinality(W') <= Cardinality(W)
  BY <1>1, <1>4, CallsBounded, FS_Subset
<1>5. CASE \E r \in Request : CheckCount(r) /\ Room("lifetime") /\ req[r].kind = "lifetime"
  <2>1. free <= Limit - 1 /\ free' = free /\ lifetime' = lifetime
    BY <1>3, <1>5 DEF FreeInv, CheckCount, Room
  <2> QED
    BY <2>1, <1>2, <1>3 DEF FreeInv
<1>6. CASE \E r \in Request : Answer(r) /\ req[r].kind = "lifetime"
  <2> PICK r \in Request : Answer(r) /\ req[r].kind = "lifetime"
    BY <1>6
  <2>1. free' = free + 1 /\ lifetime' = lifetime + 1
    BY DEF Answer
  <2>2. r \in W /\ W' \subseteq W \ {r}
    BY AnswerLeaves
  <2>3. Cardinality(W') <= Cardinality(W \ {r})
    BY <2>2, <1>1, CallsBounded, FS_Subset
  <2>4. Cardinality(W \ {r}) = Cardinality(W) - 1
    BY <2>2, <1>1, CallLeaves
  <2> HIDE DEF W
  <2>5. free' + Cardinality(W') <= free + Cardinality(W)
    BY <2>1, <2>3, <2>4, <1>2, <1>3
  <2> QED
    BY <2>1, <2>5, <1>2, <1>3 DEF FreeInv, W
<1>7. CASE /\ ~\E r \in Request : CheckCount(r) /\ Room("lifetime") /\ req[r].kind = "lifetime"
           /\ ~\E r \in Request : Answer(r) /\ req[r].kind = "lifetime"
  <2>1. W' \subseteq W
    BY <1>7, WaitingShrinks
  <2>2. free' = free /\ lifetime' >= lifetime
    BY <1>3, <1>7 DEF Next, ReadQuota, CheckCount, Answer, Fail, ChangeTier, Midnight, vars
  <2> QED
    BY <2>1, <2>2, <1>2, <1>3, <1>4, TypeStep DEF FreeInv, TypeOK
<1> QED
  BY <1>5, <1>6, <1>7

\* Whatever the tier does and however many calls race, the answers under the
\* lifetime quota pass the limit by less than the number of concurrent calls.
THEOREM FreeOvershoot == Spec => []FreeOvershootBounded
<1>1. Init => FreeInv
  <2> SUFFICES ASSUME Init
               PROVE  FreeInv
    OBVIOUS
  <2>1. Cardinality(Waiting("lifetime")) = 0
    BY FS_EmptySet DEF Init, Waiting, Idle
  <2>2. Cardinality(Request) \in Nat
    BY CallsBounded
  <2> QED
    BY <2>1, <2>2, QuotaAssumption DEF Init, FreeInv
<1>2. TypeOK /\ FreeInv => FreeOvershootBounded
  <2> SUFFICES ASSUME TypeOK, FreeInv
               PROVE  FreeOvershootBounded
    OBVIOUS
  <2>1. Waiting("lifetime") \in SUBSET Request
    BY DEF Waiting
  <2>2. Cardinality(Waiting("lifetime")) \in Nat /\ Cardinality(Request) \in Nat
    BY <2>1, CallsBounded
  <2> QED
    BY <2>2, QuotaAssumption DEF FreeInv, FreeOvershootBounded, TypeOK
<1> QED
  BY <1>1, <1>2, FreeStep, TypeCorrect, PTL DEF Spec

-----------------------------------------------------------------------------
(* The overshoot of the daily quota.                                       *)

DailyInv ==
  Daily > 0 =>
    /\ paid <= used
    /\ paid + Cardinality(Waiting("daily")) <= Daily - 1 + Cardinality(Request)

LEMMA DailyStep == TypeOK /\ DailyInv /\ [Next]_vars => DailyInv'
<1> SUFFICES ASSUME TypeOK, DailyInv, [Next]_vars, Daily > 0
             PROVE  DailyInv'
  BY DEF DailyInv
<1> DEFINE W == Waiting("daily")
<1>1. W \in SUBSET Request /\ W' \in SUBSET Request
  BY DEF Waiting
<1>2. /\ Cardinality(W) \in Nat /\ Cardinality(W') \in Nat /\ Cardinality(Request) \in Nat
      /\ Cardinality(W') <= Cardinality(Request)
  BY <1>1, CallsBounded
<1>3. used \in Nat /\ paid \in Nat /\ Daily \in Nat /\ Daily >= 1
  BY QuotaAssumption DEF TypeOK
<1>4. ASSUME W' \subseteq W
      PROVE  Cardinality(W') <= Cardinality(W)
  BY <1>1, <1>4, CallsBounded, FS_Subset
<1>5. CASE \E r \in Request : CheckCount(r) /\ Room("daily") /\ req[r].kind = "daily"
  <2>1. paid <= Daily - 1 /\ paid' = paid /\ used' = used
    BY <1>3, <1>5 DEF DailyInv, CheckCount, Room
  <2> QED
    BY <2>1, <1>2, <1>3 DEF DailyInv
<1>6. CASE \E r \in Request : Answer(r) /\ req[r].kind = "daily"
  <2> PICK r \in Request : Answer(r) /\ req[r].kind = "daily"
    BY <1>6
  <2>1. paid' = paid + 1 /\ used' = used + 1
    BY DEF Answer
  <2>2. r \in W /\ W' \subseteq W \ {r}
    BY AnswerLeaves
  <2>3. Cardinality(W') <= Cardinality(W \ {r})
    BY <2>2, <1>1, CallsBounded, FS_Subset
  <2>4. Cardinality(W \ {r}) = Cardinality(W) - 1
    BY <2>2, <1>1, CallLeaves
  <2> HIDE DEF W
  <2>5. paid' + Cardinality(W') <= paid + Cardinality(W)
    BY <2>1, <2>3, <2>4, <1>2, <1>3
  <2> QED
    BY <2>1, <2>5, <1>2, <1>3 DEF DailyInv, W
<1>7. CASE Midnight
  <2>1. paid' = 0 /\ used' = 0
    BY <1>7 DEF Midnight
  <2> QED
    BY <2>1, <1>2, <1>3 DEF DailyInv
<1>8. CASE /\ ~\E r \in Request : CheckCount(r) /\ Room("daily") /\ req[r].kind = "daily"
           /\ ~\E r \in Request : Answer(r) /\ req[r].kind = "daily"
           /\ ~Midnight
  <2>1. W' \subseteq W
    BY <1>8, WaitingShrinks
  <2>2. paid' = paid /\ used' >= used
    BY <1>3, <1>8 DEF Next, ReadQuota, CheckCount, Answer, Fail, ChangeTier, vars
  <2> QED
    BY <2>1, <2>2, <1>2, <1>3, <1>4, TypeStep DEF DailyInv, TypeOK
<1> QED
  BY <1>5, <1>6, <1>7, <1>8

\* The same for the daily quota, with any number of midnights in between.
THEOREM DailyOvershoot == Spec => []DailyOvershootBounded
<1>1. Init => DailyInv
  <2> SUFFICES ASSUME Init
               PROVE  DailyInv
    OBVIOUS
  <2>1. Cardinality(Waiting("daily")) = 0
    BY FS_EmptySet DEF Init, Waiting, Idle
  <2>2. Cardinality(Request) \in Nat
    BY CallsBounded
  <2> QED
    BY <2>1, <2>2, QuotaAssumption DEF Init, DailyInv
<1>2. TypeOK /\ DailyInv => DailyOvershootBounded
  <2> SUFFICES ASSUME TypeOK, DailyInv, Daily > 0
               PROVE  paid <= Daily - 1 + Cardinality(Request)
    BY DEF DailyOvershootBounded
  <2>1. Waiting("daily") \in SUBSET Request
    BY DEF Waiting
  <2>2. Cardinality(Waiting("daily")) \in Nat /\ Cardinality(Request) \in Nat
    BY <2>1, CallsBounded
  <2> QED
    BY <2>2, QuotaAssumption DEF DailyInv, TypeOK
<1> QED
  BY <1>1, <1>2, DailyStep, TypeCorrect, PTL DEF Spec

\* Both quotas at once: races never buy more than the calls that were under way.
THEOREM Overshoot == Spec => []OvershootBounded
BY FreeOvershoot, DailyOvershoot, PTL DEF OvershootBounded

-----------------------------------------------------------------------------
(***************************************************************************)
(* The readers.                                                            *)
(***************************************************************************)

(* A set of numbers has a least one.                                        *)
LEMMA Least ==
  ASSUME NEW S \in SUBSET Nat, S # {}
  PROVE  \E x \in S : \A y \in S : x <= y
<1> DEFINE less == {ss \in Nat \X Nat : ss[1] < ss[2]}
<1>1. less = OpToRel(<, Nat)
  BY DEF OpToRel
<1>2. IsWellFoundedOn(less, Nat)
  BY <1>1, NatLessThanWellFounded
<1> HIDE DEF less
<1>3. PICK x \in S : \A y \in S : <<y, x>> \notin less
  BY <1>2, WFMin
<1>4. ASSUME NEW y \in S PROVE x <= y
  <2>1. x \in Nat /\ y \in Nat /\ ~(y < x)
    BY <1>3 DEF less
  <2> QED BY <2>1
<1> QED BY <1>3, <1>4

(* Induction up to n, for a set G in place of a predicate.                  *)
LEMMA UpTo ==
  ASSUME NEW n \in Nat, NEW G, 0 \in G, \A k \in 0..(n - 1) : k \in G => k + 1 \in G
  PROVE  \A k \in 0..n : k \in G
<1> DEFINE Bad == (0..n) \ G
<1>1. Bad = {}
  <2> SUFFICES ASSUME Bad # {} PROVE FALSE
    OBVIOUS
  <2>0. Bad \in SUBSET Nat
    OBVIOUS
  <2>1. PICK m \in Bad : \A x \in Bad : m <= x
    BY <2>0, Least
  <2>2. m \in 1..n /\ m - 1 \in 0..(n - 1) /\ m - 1 \notin Bad
    BY <2>1
  <2> QED BY <2>2
<1> QED BY <1>1

(* The same over all numbers.                                               *)
LEMMA Counting ==
  ASSUME NEW G, 0 \in G, \A k \in Nat : k \in G => k + 1 \in G
  PROVE  \A k \in Nat : k \in G
<1> SUFFICES ASSUME NEW n \in Nat PROVE n \in G
  OBVIOUS
<1>1. \A k \in 0..n : k \in G
  BY UpTo
<1> QED BY <1>1

(* Some numbers up to n have a largest one, which the folds take first.     *)
LEMMA Largest ==
  ASSUME NEW n \in Nat, NEW s \in SUBSET (1..n), s # {}
  PROVE  Max(s) \in s /\ \A x \in s : x <= Max(s)
<1> DEFINE above == {m \in Nat : \A x \in s : x <= m}
<1>1. n \in above
  OBVIOUS
<1>2. PICK m \in above : \A y \in above : m <= y
  BY <1>1, Least
<1>3. m \in s
  <2> SUFFICES ASSUME m \notin s PROVE FALSE
    OBVIOUS
  <2>1. PICK x \in s : TRUE
    OBVIOUS
  <2>2. \A y \in s : y <= m - 1
    BY <1>2
  <2>3. m - 1 \in above
    BY <1>2, <2>1, <2>2
  <2> QED BY <1>2, <2>3
<1>4. \E x \in s : \A y \in s : x >= y
  BY <1>2, <1>3
<1> QED BY <1>4 DEF Max

(* Of the first n + 1 numbers it is the last.                               *)
LEMMA LargestOfPrefix ==
  ASSUME NEW n \in Nat
  PROVE  Max(1..(n + 1)) = n + 1
<1>1. n + 1 \in Nat /\ 1..(n + 1) \in SUBSET (1..(n + 1)) /\ n + 1 \in 1..(n + 1)
  OBVIOUS
<1>2. Max(1..(n + 1)) \in 1..(n + 1) /\ n + 1 <= Max(1..(n + 1))
  BY <1>1, Largest
<1> QED BY <1>2

(* What the reader of Quicken's format starts with.                         *)
Start == [account |-> "bank", record |-> EmptyRecord, txs |-> <<>>]

(* The function that FoldLeft chooses to read the lines of a file.          *)
Reads(lines, g, D) ==
  g = [s \in D |-> IF s = {} THEN Start ELSE QifLine(g[s \ {Max(s)}], lines[Max(s)])]
Reading(lines) == CHOOSE g : Reads(lines, g, SUBSET DOMAIN lines)

(* The fold over the lines is that function of all of them.                 *)
LEMMA FoldIsReading ==
  ASSUME NEW lines
  PROVE  FoldLeft(QifLine, Start, lines) = Reading(lines)[DOMAIN lines]
BY DEF FoldLeft, MapThenFoldSet, Reading, Reads

(* What is read of a file is what is kept after its last line.              *)
LEMMA Parsed ==
  ASSUME NEW lines
  PROVE  ParseQif(lines) = {CommitRecord(Reading(lines)[DOMAIN lines]).txs} \ {<<>>}
BY FoldIsReading DEF ParseQif, Start

(* There is such a function for every file.                                 *)
LEMMA ReadingExists ==
  ASSUME NEW lines, NEW n \in Nat
  PROVE  \E g : Reads(lines, g, SUBSET (1..n))
<1> DEFINE G == {k \in Nat : \E g : Reads(lines, g, SUBSET (1..k))}
<1>1. 0 \in G
  <2> DEFINE g == [s \in SUBSET (1..0) |-> Start]
  <2>1. \A s \in SUBSET (1..0) : s = {}
    OBVIOUS
  <2>2. Reads(lines, g, SUBSET (1..0))
    BY <2>1 DEF Reads
  <2> QED BY <2>2
<1>2. ASSUME NEW k \in Nat, k \in G PROVE k + 1 \in G
  <2>1. PICK g : Reads(lines, g, SUBSET (1..k))
    BY <1>2
  <2> DEFINE next(s) == IF s = {} THEN Start ELSE QifLine(g[s \ {Max(s)}], lines[Max(s)])
             h == [s \in SUBSET (1..(k + 1)) |-> next(s)]
  <2>2. ASSUME NEW s \in SUBSET (1..(k + 1)), s # {}
        PROVE  s \ {Max(s)} \in SUBSET (1..k)
    <3>1. k + 1 \in Nat
      OBVIOUS
    <3>2. Max(s) \in s /\ \A x \in s : x <= Max(s)
      BY <2>2, <3>1, Largest
    <3>3. ASSUME NEW x \in s \ {Max(s)} PROVE x \in 1..k
      <4>1. x \in 1..(k + 1) /\ Max(s) \in 1..(k + 1) /\ x <= Max(s) /\ x # Max(s)
        BY <3>2
      <4> QED BY <4>1
    <3> QED BY <3>3
  <2>3. \A s \in SUBSET (1..k) : s \in SUBSET (1..(k + 1)) /\ g[s] = next(s)
    <3>1. \A s \in SUBSET (1..k) : s \in SUBSET (1..(k + 1))
      OBVIOUS
    <3>2. \A s \in SUBSET (1..k) : g[s] = next(s)
      BY <2>1 DEF Reads
    <3> QED BY <3>1, <3>2
  <2>4. ASSUME NEW s \in SUBSET (1..(k + 1)), s # {}
        PROVE  h[s \ {Max(s)}] = g[s \ {Max(s)}]
    <3> DEFINE r == s \ {Max(s)}
    <3>1. r \in SUBSET (1..k)
      BY <2>2, <2>4
    <3> HIDE DEF r
    <3>2. h[r] = g[r]
      BY <2>3, <3>1
    <3> QED BY <3>2 DEF r
  <2>5. \A s \in SUBSET (1..(k + 1)) :
          h[s] = IF s = {} THEN Start ELSE QifLine(h[s \ {Max(s)}], lines[Max(s)])
    BY <2>4
  <2>6. h = [s \in SUBSET (1..(k + 1)) |-> h[s]]
    OBVIOUS
  <2> HIDE DEF h, next
  <2>7. h = [s \in SUBSET (1..(k + 1)) |->
               IF s = {} THEN Start ELSE QifLine(h[s \ {Max(s)}], lines[Max(s)])]
    BY <2>5, <2>6
  <2>8. Reads(lines, h, SUBSET (1..(k + 1)))
    BY <2>7 DEF Reads
  <2> QED BY <2>8
<1> HIDE DEF G
<1>3. \A k \in 0..n : k \in G
  BY <1>1, <1>2, UpTo
<1> QED
  <2>1. n \in 0..n
    OBVIOUS
  <2> QED BY <1>3, <2>1 DEF G

(* What is kept after k lines.                                              *)
After(lines, k) == Reading(lines)[1..k]

(* The first k + 1 lines without the last of them are the first k.          *)
LEMMA OneMore ==
  ASSUME NEW n \in Nat, NEW k \in 0..(n - 1)
  PROVE  /\ 1..(k + 1) \in SUBSET (1..n) /\ 1..(k + 1) # {}
         /\ (1..(k + 1)) \ {k + 1} = 1..k /\ Max(1..(k + 1)) = k + 1
BY LargestOfPrefix

(* The file is read line by line.                                           *)
LEMMA LineByLine ==
  ASSUME NEW lines, NEW n \in Nat, DOMAIN lines = 1..n
  PROVE  /\ After(lines, 0) = Start
         /\ \A k \in 0..(n - 1) : After(lines, k + 1) = QifLine(After(lines, k), lines[k + 1])
<1> DEFINE g == Reading(lines)
<1>1. Reads(lines, g, SUBSET (1..n))
  BY ReadingExists DEF Reading
<1> HIDE DEF g
<1>2. \A s \in SUBSET (1..n) :
        g[s] = IF s = {} THEN Start ELSE QifLine(g[s \ {Max(s)}], lines[Max(s)])
  BY <1>1 DEF Reads
<1>3. g[1..0] = Start
  <2>1. 1..0 = {} /\ {} \in SUBSET (1..n)
    OBVIOUS
  <2> QED BY <1>2, <2>1
<1>4. ASSUME NEW k \in 0..(n - 1)
      PROVE  g[1..(k + 1)] = QifLine(g[1..k], lines[k + 1])
  <2>1. /\ 1..(k + 1) \in SUBSET (1..n) /\ 1..(k + 1) # {}
        /\ (1..(k + 1)) \ {k + 1} = 1..k /\ Max(1..(k + 1)) = k + 1
    BY OneMore
  <2> QED BY <1>2, <2>1
<1> QED BY <1>3, <1>4 DEF After, g

(* The list of an empty set is empty.                                       *)
LEMMA ListOfNone == SetToSeq({}) = <<>>
<1>1. Cardinality({}) = 0
  BY FS_EmptySet
<1>2. 1..0 = {}
  OBVIOUS
<1>3. \A h \in [1..0 -> {}] : h = <<>>
  OBVIOUS
<1>4. <<>> \in [1..0 -> {}] /\ IsInjective(<<>>)
  BY DEF IsInjective
<1> QED BY <1>1, <1>3, <1>4 DEF SetToSeq

(* The list of one element is that element.                                 *)
LEMMA ListOfOne == ASSUME NEW x PROVE SetToSeq({x}) = <<x>>
<1>1. Cardinality({x}) = 1
  BY FS_Singleton
<1>2. \A h \in [1..1 -> {x}] : h = <<x>>
  OBVIOUS
<1>3. <<x>> \in [1..1 -> {x}] /\ IsInjective(<<x>>)
  BY DEF IsInjective
<1> QED BY <1>1, <1>2, <1>3 DEF SetToSeq

-----------------------------------------------------------------------------
(* What each line of Quicken's format does to what is kept.                 *)

(* What is kept between two lines: the account, the fields of the record    *)
(* and the transactions.                                                    *)
Kept(a, d, m, p, o, x) ==
  [account |-> a, record |-> [date |-> d, amount |-> m, payee |-> p, memo |-> o],
   txs |-> x]

(* Between two records nothing is kept of either.                           *)
Cleared(a, x) == Kept(a, {}, {}, <<>>, <<>>, x)

(* Nothing is kept at the start.                                            *)
LEMMA KeptAtStart == Start = Cleared("bank", <<>>)
BY DEF Start, Kept, EmptyRecord, Cleared

(* A line of a date that is one sets the date and nothing else.             *)
LEMMA LineOfDate ==
  ASSUME NEW a, NEW d, NEW m, NEW p, NEW o, NEW x, NEW c, NEW D, D = QifDate(c), D # {}
  PROVE  QifLine(Kept(a, d, m, p, o, x), Line("D", <<c>>)) = Kept(a, D, m, p, o, x)
BY DEF QifLine, Kept, Line

(* A line of an amount sets the amount and nothing else.                    *)
LEMMA LineOfAmount ==
  ASSUME NEW a, NEW d, NEW m, NEW p, NEW o, NEW x, NEW n, NEW s
  PROVE  QifLine(Kept(a, d, m, p, o, x), Line("T", <<Num(n, s)>>)) = Kept(a, d, {n}, p, o, x)
<1>1. Amount(Num(n, s)) = {n}
  BY DEF Amount, Num
<1> QED BY <1>1 DEF QifLine, Kept, Line

(* A line of a payee or of a memo sets that and nothing else.               *)
LEMMA LineOfWords ==
  ASSUME NEW a, NEW d, NEW m, NEW p, NEW o, NEW x, NEW w
  PROVE  /\ QifLine(Kept(a, d, m, p, o, x), Line("P", w)) = Kept(a, d, m, Texts(w), o, x)
         /\ QifLine(Kept(a, d, m, p, o, x), Line("M", w)) = Kept(a, d, m, p, Texts(w), x)
BY DEF QifLine, Kept, Line

(* The transactions of a record: one, or none if a field is missing.        *)
Taken(a, d, m, p, o) ==
  LET sign == IF a = "ccard" THEN -1 ELSE 1
  IN  {Tx(e, Describe(p, o), sign * n) : e \in d, n \in m}

(* A record is taken over and leaves none of its fields behind.             *)
LEMMA Commits ==
  ASSUME NEW a, NEW d, NEW m, NEW p, NEW o, NEW x
  PROVE  CommitRecord(Kept(a, d, m, p, o, x))
           = Cleared(a, x \o SetToSeq(Taken(a, d, m, p, o)))
<1> DEFINE s == Kept(a, d, m, p, o, x)
           y == x \o SetToSeq(Taken(a, d, m, p, o))
<1>1. /\ s.account = a /\ s.record.date = d /\ s.record.amount = m
      /\ s.record.payee = p /\ s.record.memo = o /\ s.txs = x
  BY DEF Kept
<1> HIDE DEF s
<1>2. CommitRecord(s)
        = [s EXCEPT !.txs = s.txs \o SetToSeq(Taken(s.account, s.record.date, s.record.amount,
                                                  s.record.payee, s.record.memo)),
                    !.record = EmptyRecord]
  BY DEF CommitRecord, Taken
<1>3. CommitRecord(s) = [s EXCEPT !.txs = y, !.record = EmptyRecord]
  BY <1>1, <1>2
<1> HIDE DEF y
<1>4. PICK none, empty : none = {} /\ empty = <<>>
  OBVIOUS
<1>5. EmptyRecord = [date |-> none, amount |-> none, payee |-> empty, memo |-> empty]
  BY <1>4 DEF EmptyRecord
<1>6. CommitRecord(s) = Kept(a, none, none, empty, empty, y)
  BY <1>3, <1>5 DEF s, Kept
<1>7. CommitRecord(s) = Cleared(a, y)
  BY <1>4, <1>6 DEF Cleared
<1> QED BY <1>7 DEF s, y

(* A record that is complete adds its transaction.                          *)
LEMMA CommitOne ==
  ASSUME NEW a, NEW d, NEW m, NEW p, NEW o, NEW x, NEW u,
         Taken(a, d, m, p, o) = {u}
  PROVE  CommitRecord(Kept(a, d, m, p, o, x)) = Cleared(a, x \o <<u>>)
<1>1. SetToSeq({u}) = <<u>>
  BY ListOfOne
<1> QED BY <1>1, Commits

(* A record without a date adds nothing.                                    *)
LEMMA CommitNone ==
  ASSUME NEW T, NEW x \in Seq(T), NEW a, NEW m, NEW p, NEW o
  PROVE  CommitRecord(Kept(a, {}, m, p, o, x)) = Cleared(a, x)
<1>1. x \o <<>> = x
  BY ConcatEmptySeq
<1>2. SetToSeq(Taken(a, {}, m, p, o)) = <<>>
  <2>1. Taken(a, {}, m, p, o) = {}
    BY DEF Taken
  <2> QED BY <2>1, ListOfNone
<1>3. CommitRecord(Kept(a, {}, m, p, o, x)) = Cleared(a, x \o SetToSeq(Taken(a, {}, m, p, o)))
  BY Commits
<1> QED BY <1>1, <1>2, <1>3

(* A line that ends a record commits it.                                    *)
LEMMA LineOfEnd ==
  ASSUME NEW s, NEW cells
  PROVE  QifLine(s, Line("^", cells)) = CommitRecord(s)
BY DEF QifLine, Line

(* A line that names the account takes over what has no date as nothing,    *)
(* and sets the account.                                                    *)
LEMMA LineOfType ==
  ASSUME NEW T, NEW x \in Seq(T), NEW a, NEW m, NEW p, NEW o, NEW w
  PROVE  QifLine(Kept(a, {}, m, p, o, x), Line("!", Words(<<w>>))) = Cleared(w, x)
<1>1. Words(<<w>>)[1].text = w
  BY DEF Words, Word
<1>2. CommitRecord(Kept(a, {}, m, p, o, x)) = Cleared(a, x)
  BY CommitNone
<1> DEFINE s == Kept(a, {}, m, p, o, x)
<1>3. QifLine(s, Line("!", Words(<<w>>))) = [CommitRecord(s) EXCEPT !.account = w]
  <2> HIDE DEF s
  <2> DEFINE l == Line("!", Words(<<w>>))
  <2>1. l.code = "!" /\ l.cells[1].text = w
    BY <1>1 DEF Line
  <2> HIDE DEF l
  <2>2. QifLine(s, l) = [CommitRecord(s) EXCEPT !.account = l.cells[1].text]
    BY <2>1 DEF QifLine
  <2> QED BY <2>1, <2>2 DEF l
<1>4. PICK none, empty : none = {} /\ empty = <<>>
  OBVIOUS
<1>5. CommitRecord(s) = Kept(a, none, none, empty, empty, x)
  BY <1>2, <1>4 DEF Cleared
<1>6. [CommitRecord(s) EXCEPT !.account = w] = Kept(w, none, none, empty, empty, x)
  <2> HIDE DEF s
  <2> QED BY <1>5 DEF Kept
<1> QED BY <1>3, <1>4, <1>6 DEF Cleared

-----------------------------------------------------------------------------
(* One sequence and another after it.                                       *)
Followed(g, s, t) ==
  /\ Len(s) \in Nat /\ Len(t) \in Nat /\ Len(g) = Len(s) + Len(t)
  /\ \A i \in 1..Len(s) : g[i] = s[i]
  /\ \A i \in 1..Len(t) : g[Len(s) + i] = t[i]

(* Of two sequences joined each element is found in its place.              *)
LEMMA Concats ==
  ASSUME NEW S, NEW s \in Seq(S), NEW t \in Seq(S)
  PROVE  s \o t \in Seq(S) /\ Followed(s \o t, s, t)
<1>1. /\ s \o t \in Seq(S)
      /\ Len(s) \in Nat /\ Len(t) \in Nat /\ Len(s \o t) = Len(s) + Len(t)
  BY ConcatProperties, LenProperties
<1>2. \A i \in 1..(Len(s) + Len(t)) : (s \o t)[i] = IF i <= Len(s) THEN s[i] ELSE t[i - Len(s)]
  BY ConcatProperties
<1>3. ASSUME NEW i \in 1..Len(s) PROVE (s \o t)[i] = s[i]
  <2>1. i \in 1..(Len(s) + Len(t)) /\ i <= Len(s)
    BY <1>1
  <2> QED BY <1>2, <2>1
<1>4. ASSUME NEW i \in 1..Len(t) PROVE (s \o t)[Len(s) + i] = t[i]
  <2>1. Len(s) + i \in 1..(Len(s) + Len(t)) /\ ~(Len(s) + i <= Len(s)) /\ (Len(s) + i) - Len(s) = i
    BY <1>1
  <2> QED BY <1>2, <2>1
<1> QED BY <1>1, <1>3, <1>4 DEF Followed

(* A sequence of sequences, one after the other.                            *)

(* The function that FlattenSeq chooses to join them.                       *)
Joins(q, f, n) == f = [i \in 1..n |-> IF i = 1 THEN q[i] ELSE f[i - 1] \o q[i]]
Joined(q) == CHOOSE f : Joins(q, f, Len(q))

(* The flattened sequence is that function of all of them.                  *)
LEMMA FlattenIsJoined ==
  ASSUME NEW q, Len(q) # 0
  PROVE  FlattenSeq(q) = Joined(q)[Len(q)]
BY DEF FlattenSeq, Joined, Joins

(* There is such a function for every sequence of sequences.                *)
LEMMA JoinedExists ==
  ASSUME NEW q, NEW n \in Nat
  PROVE  \E f : Joins(q, f, n)
<1> DEFINE G == {k \in Nat : \E f : Joins(q, f, k)}
<1>1. 0 \in G
  <2> DEFINE f == [i \in 1..0 |-> q[i]]
  <2>1. Joins(q, f, 0)
    BY DEF Joins
  <2> QED BY <2>1
<1>2. ASSUME NEW k \in Nat, k \in G PROVE k + 1 \in G
  <2>1. PICK f : Joins(q, f, k)
    BY <1>2
  <2> DEFINE h == [i \in 1..(k + 1) |-> IF i = 1 THEN q[i] ELSE f[i - 1] \o q[i]]
  <2>2. \A i \in 1..k : i \in 1..(k + 1) /\ f[i] = IF i = 1 THEN q[i] ELSE f[i - 1] \o q[i]
    <3>1. \A i \in 1..k : f[i] = IF i = 1 THEN q[i] ELSE f[i - 1] \o q[i]
      BY <2>1 DEF Joins
    <3>2. \A i \in 1..k : i \in 1..(k + 1)
      OBVIOUS
    <3> HIDE DEF h
    <3> QED BY <3>1, <3>2
  <2>3. \A i \in 1..(k + 1) : i # 1 => i - 1 \in 1..k /\ h[i - 1] = f[i - 1]
    BY <2>2
  <2>4. \A i \in 1..(k + 1) : h[i] = IF i = 1 THEN q[i] ELSE h[i - 1] \o q[i]
    BY <2>3
  <2>5. h = [i \in 1..(k + 1) |-> h[i]]
    OBVIOUS
  <2> HIDE DEF h
  <2>6. h = [i \in 1..(k + 1) |-> IF i = 1 THEN q[i] ELSE h[i - 1] \o q[i]]
    BY <2>4, <2>5
  <2>7. Joins(q, h, k + 1)
    BY <2>6 DEF Joins
  <2> QED BY <2>7
<1> HIDE DEF G
<1>3. \A k \in 0..n : k \in G
  BY <1>1, <1>2, UpTo
<1> QED
  <2>1. n \in 0..n
    OBVIOUS
  <2> QED BY <1>3, <2>1 DEF G

(* Each one is joined to the ones before it.                                *)
LEMMA JoinedStep ==
  ASSUME NEW S, NEW n \in Nat \ {0}, NEW q \in [1..n -> Seq(S)]
  PROVE  /\ FlattenSeq(q) = Joined(q)[n] /\ Joined(q)[1] = q[1]
         /\ \A k \in 1..(n - 1) : Joined(q)[k + 1] = Joined(q)[k] \o q[k + 1]
         /\ \A k \in 1..n : Joined(q)[k] \in Seq(S)
<1>1. q \in Seq(Seq(S)) /\ Len(q) = n
  OBVIOUS
<1>2. FlattenSeq(q) = Joined(q)[n]
  BY <1>1, FlattenIsJoined
<1> DEFINE f == Joined(q)
<1>3. Joins(q, f, n)
  BY <1>1, JoinedExists DEF Joined
<1> HIDE DEF f
<1>4. \A i \in 1..n : f[i] = IF i = 1 THEN q[i] ELSE f[i - 1] \o q[i]
  BY <1>3 DEF Joins
<1>5. f[1] = q[1]
  BY <1>4
<1>6. \A k \in 1..(n - 1) : f[k + 1] = f[k] \o q[k + 1]
  <2> SUFFICES ASSUME NEW k \in 1..(n - 1) PROVE f[k + 1] = f[k] \o q[k + 1]
    OBVIOUS
  <2>1. k + 1 \in 1..n /\ k + 1 # 1 /\ (k + 1) - 1 = k
    OBVIOUS
  <2> QED BY <1>4, <2>1
<1>7. \A k \in 1..n : f[k] \in Seq(S)
  <2> DEFINE G == {k \in Nat : k + 1 \in 1..n => f[k + 1] \in Seq(S)}
  <2>1. 0 \in G
    BY <1>5
  <2>2. ASSUME NEW k \in Nat, k \in G PROVE k + 1 \in G
    <3> SUFFICES ASSUME k + 2 \in 1..n PROVE f[k + 2] \in Seq(S)
      BY DEF G
    <3>1. k + 1 \in 1..(n - 1) /\ k + 1 \in 1..n /\ k + 2 = (k + 1) + 1
      OBVIOUS
    <3>2. f[k + 1] \in Seq(S) /\ q[k + 2] \in Seq(S)
      BY <2>2, <3>1
    <3>3. f[k + 2] = f[k + 1] \o q[k + 2]
      BY <1>6, <3>1
    <3> QED BY <3>2, <3>3, ConcatProperties
  <2> HIDE DEF G
  <2>4. \A k \in Nat : k \in G
    BY <2>1, <2>2, Counting
  <2> SUFFICES ASSUME NEW k \in 1..n PROVE f[k] \in Seq(S)
    OBVIOUS
  <2>5. k - 1 \in Nat /\ (k - 1) + 1 = k
    OBVIOUS
  <2> QED BY <2>4, <2>5 DEF G
<1> QED BY <1>2, <1>5, <1>6, <1>7 DEF f

(* One part after another grows the whole at its end.                       *)
Extends(t, s) == Len(s) <= Len(t) /\ \A i \in 1..Len(s) : t[i] = s[i]

(* The joined ones begin with what was joined before.                       *)
LEMMA JoinedExtends ==
  ASSUME NEW S, NEW n \in Nat \ {0}, NEW q \in [1..n -> Seq(S)], NEW k \in 1..n
  PROVE  Extends(FlattenSeq(q), Joined(q)[k])
<1> DEFINE f == Joined(q)
           G == {m \in Nat : k + m \in 1..n => Extends(f[k + m], f[k])}
<1> HIDE DEF G
<1>1. /\ FlattenSeq(q) = f[n] /\ f[1] = q[1]
      /\ \A l \in 1..(n - 1) : f[l + 1] = f[l] \o q[l + 1]
      /\ \A l \in 1..n : f[l] \in Seq(S)
  BY JoinedStep
<1> HIDE DEF f
<1>2. 0 \in G
  <2>1. Len(f[k]) \in Nat
    BY <1>1
  <2> QED BY <2>1 DEF Extends, G
<1>3. ASSUME NEW m \in Nat, m \in G PROVE m + 1 \in G
  <2> SUFFICES ASSUME k + (m + 1) \in 1..n PROVE Extends(f[k + (m + 1)], f[k])
    BY DEF G
  <2>1. k + m \in 1..(n - 1) /\ k + (m + 1) = (k + m) + 1 /\ k + m \in 1..n
    OBVIOUS
  <2>2. Extends(f[k + m], f[k])
    BY <1>3, <2>1 DEF G
  <2>3. f[k + (m + 1)] = f[k + m] \o q[(k + m) + 1]
    BY <1>1, <2>1
  <2>4. f[k + m] \in Seq(S) /\ q[(k + m) + 1] \in Seq(S) /\ f[k] \in Seq(S)
    BY <1>1, <2>1
  <2> DEFINE a == f[k + m]
             b == q[(k + m) + 1]
  <2>5. a \in Seq(S) /\ b \in Seq(S)
    BY <2>4
  <2> HIDE DEF a, b
  <2>6. /\ Len(a \o b) = Len(a) + Len(b) /\ Len(a) \in Nat /\ Len(b) \in Nat
        /\ \A i \in 1..(Len(a) + Len(b)) : (a \o b)[i] = IF i <= Len(a) THEN a[i] ELSE b[i - Len(a)]
    BY <2>5, ConcatProperties, LenProperties
  <2>7. Len(f[k]) \in Nat
    BY <2>4
  <2>8. Extends(a, f[k])
    BY <2>2 DEF a
  <2>9. Extends(a \o b, f[k])
    BY <2>6, <2>7, <2>8 DEF Extends
  <2> QED BY <2>3, <2>9 DEF a, b
<1>4. \A m \in Nat : m \in G
  BY <1>2, <1>3, Counting
<1>5. n - k \in Nat /\ k + (n - k) = n /\ n \in 1..n
  OBVIOUS
<1>6. Extends(f[n], f[k])
  BY <1>4, <1>5 DEF G
<1> QED BY <1>1, <1>6 DEF f

(* Where the part after the first k begins.                                 *)
Offset(q, k) == IF k = 0 THEN 0 ELSE Len(Joined(q)[k])

(* Each one stands in the whole after the ones before it.                   *)
Laid(e, q, n) ==
  /\ Len(e) = Offset(q, n)
  /\ \A k \in 0..n : Offset(q, k) \in 0..Offset(q, n)
  /\ \A k \in 0..(n - 1) :
       /\ Offset(q, k + 1) = Offset(q, k) + Len(q[k + 1])
       /\ \A j \in 1..Len(q[k + 1]) : e[Offset(q, k) + j] = q[k + 1][j]

(* The flattened sequence holds each of them in its place.                  *)
LEMMA FlattenAt ==
  ASSUME NEW S, NEW n \in Nat \ {0}, NEW q \in [1..n -> Seq(S)]
  PROVE  FlattenSeq(q) \in Seq(S) /\ Laid(FlattenSeq(q), q, n)
<1> DEFINE f == Joined(q)
           e == FlattenSeq(q)
<1>1. /\ e = f[n] /\ f[1] = q[1]
      /\ \A l \in 1..(n - 1) : f[l + 1] = f[l] \o q[l + 1]
      /\ \A l \in 1..n : f[l] \in Seq(S)
  BY JoinedStep
<1>2. \A l \in 1..n : Extends(e, f[l])
  BY JoinedExtends
<1>3. \A l \in 1..n : Offset(q, l) = Len(f[l])
  BY DEF Offset
<1>4. Offset(q, 0) = 0
  BY DEF Offset
<1> HIDE DEF f, e
<1>5. n \in 1..n /\ e \in Seq(S) /\ Len(e) = Offset(q, n) /\ Len(e) \in Nat
  BY <1>1, <1>3
<1>6. ASSUME NEW k \in 0..n PROVE Offset(q, k) \in 0..Offset(q, n)
  <2>1. CASE k = 0
    BY <1>4, <1>5, <2>1
  <2>2. CASE k # 0
    <3>1. k \in 1..n
      BY <2>2
    <3>2. Offset(q, k) = Len(f[k]) /\ f[k] \in Seq(S)
      BY <1>1, <1>3, <3>1
    <3>3. Len(f[k]) <= Len(e) /\ Len(f[k]) \in Nat
      BY <1>2, <3>1, <3>2 DEF Extends
    <3> QED BY <1>5, <3>2, <3>3
  <2> QED BY <2>1, <2>2
<1>7. ASSUME NEW k \in 0..(n - 1)
      PROVE  /\ Offset(q, k + 1) = Offset(q, k) + Len(q[k + 1])
             /\ \A j \in 1..Len(q[k + 1]) : e[Offset(q, k) + j] = q[k + 1][j]
  <2>1. k + 1 \in 1..n
    OBVIOUS
  <2>2. Offset(q, k + 1) = Len(f[k + 1]) /\ q[k + 1] \in Seq(S) /\ Extends(e, f[k + 1])
    BY <1>2, <1>3, <2>1
  <2>3. CASE k = 0
    <3>1. f[k + 1] = q[k + 1] /\ Len(q[k + 1]) \in Nat
      BY <1>1, <2>2, <2>3
    <3> QED BY <1>4, <2>2, <2>3, <3>1 DEF Extends
  <2>4. CASE k # 0
    <3>1. k \in 1..(n - 1) /\ k \in 1..n
      BY <2>4
    <3>2. f[k + 1] = f[k] \o q[k + 1] /\ f[k] \in Seq(S) /\ Offset(q, k) = Len(f[k])
      BY <1>1, <1>3, <3>1
    <3> DEFINE a == f[k]
               b == q[k + 1]
    <3>3. a \in Seq(S) /\ b \in Seq(S)
      BY <2>2, <3>2
    <3>4. Extends(e, a \o b) /\ Offset(q, k + 1) = Len(a \o b) /\ Offset(q, k) = Len(a)
      BY <2>2, <3>2
    <3> HIDE DEF a, b
    <3>5. /\ Len(a \o b) = Len(a) + Len(b) /\ Len(a) \in Nat /\ Len(b) \in Nat
          /\ \A i \in 1..(Len(a) + Len(b)) : (a \o b)[i] = IF i <= Len(a) THEN a[i] ELSE b[i - Len(a)]
      BY <3>3, ConcatProperties, LenProperties
    <3>6. ASSUME NEW j \in 1..Len(b) PROVE e[Len(a) + j] = b[j]
      <4>1. Len(a) + j \in 1..Len(a \o b) /\ ~(Len(a) + j <= Len(a)) /\ (Len(a) + j) - Len(a) = j
        BY <3>5
      <4>2. e[Len(a) + j] = (a \o b)[Len(a) + j]
        BY <3>4, <4>1 DEF Extends
      <4>3. (a \o b)[Len(a) + j] = b[(Len(a) + j) - Len(a)]
        BY <3>5, <4>1
      <4> QED BY <4>1, <4>2, <4>3
    <3>7. /\ Offset(q, k + 1) = Offset(q, k) + Len(b)
          /\ \A j \in 1..Len(b) : e[Offset(q, k) + j] = b[j]
      BY <3>4, <3>5, <3>6
    <3> QED BY <3>7 DEF b
  <2> QED BY <2>3, <2>4
<1> QED BY <1>5, <1>6, <1>7 DEF e, Laid

-----------------------------------------------------------------------------
(* What a bank writes for one transaction in Quicken's format.              *)

(* The words of a transaction: one at least, and no memo of one word that   *)
(* says the payee again, which is left out of what is read.                 *)
Told(s) ==
  /\ s \in Seq(STRING) /\ s # <<>>
  /\ ~(Len(s) = 2 /\ s[1] = s[2])

(* The years that a bank's way of printing dates tells apart.               *)
Years == CASE form.dates = "long" -> {y \in Int : y >= 100}
           [] form.dates = "short" -> 1950..2049
           [] OTHER -> {}

(* The transactions that Quicken's format can say.                          *)
QifTx ==
  {t \in [date : Years \X (1..12) \X (1..31), text : Seq(STRING), amount : Int] :
     Told(t.text)}

(* The lines of a file: the account, the fields of a record, the fields of  *)
(* another kind of record, and the end of either.                           *)
Heading == Line("!", Words(<<form.variant>>))
DateOf(t) == Line("D", <<Printed(t.date)>>)
AmountOf(t) == Line("T", <<Signed(IF form.variant = "ccard" THEN -t.amount ELSE t.amount)>>)
PayeeOf(t) == Line("P", Words(SubSeq(t.text, 1, 1)))
MemoOf(t) == Line("M", Words(Tail(t.text)))
Repeated(t) == Line("M", Words(t.text))
OpeningMemo == Line("M", Words(<<"opening">>))
OpeningAmount == Line("T", <<Num(900, "plus")>>)
End == Line("^", <<>>)

(* A transaction and what may stand before it.                              *)
FirstThree(t) == <<DateOf(t), AmountOf(t), PayeeOf(t)>>
Junk == IF form.junk THEN <<OpeningMemo, OpeningAmount, End>> ELSE <<>>
Memo(t) == IF Len(t.text) > 1 THEN <<MemoOf(t)>> ELSE IF form.head THEN <<Repeated(t)>> ELSE <<>>
Group(t) == Junk \o (FirstThree(t) \o Memo(t) \o <<End>>)

(* The file is a heading and these groups, but for the last line.           *)
LEMMA QifFileIs ==
  QifFile = Front(<<Heading>> \o FlattenSeq([i \in DOMAIN txs |-> Group(txs[i])]))
BY DEF QifFile, Lines, Group, Junk, Memo, FirstThree, DateOf, AmountOf, PayeeOf, MemoOf,
       Repeated, OpeningMemo, OpeningAmount, End, Heading

(* The lines of a group.                                                    *)
LinesOf(t) == {DateOf(t), AmountOf(t), PayeeOf(t), MemoOf(t), Repeated(t),
               OpeningMemo, OpeningAmount, End}

(* A first part, three lines, one or none more, and the last.               *)
Grouped(g, j, p, m, e) ==
  /\ Len(j) \in Nat /\ Len(m) \in Nat /\ Len(g) = Len(j) + 4 + Len(m)
  /\ \A i \in 1..Len(j) : g[i] = j[i]
  /\ \A i \in 1..3 : g[Len(j) + i] = p[i]
  /\ \A i \in 1..Len(m) : g[Len(j) + (3 + i)] = m[i]
  /\ g[Len(g)] = e

(* So are four sequences joined.                                            *)
LEMMA FourParts ==
  ASSUME NEW S, NEW j \in Seq(S), NEW p \in Seq(S), NEW m \in Seq(S), NEW e \in S,
         Len(p) = 3
  PROVE  \A g : g = j \o (p \o m \o <<e>>) => g \in Seq(S) /\ Grouped(g, j, p, m, e)
<1> DEFINE z == <<e>>
           a == p \o m
           b == a \o z
           c == j \o b
<1>0. z \in Seq(S) /\ Len(z) = 1 /\ z[1] = e
  OBVIOUS
<1> HIDE DEF z
<1>1. a \in Seq(S) /\ Followed(a, p, m)
  BY Concats
<1> HIDE DEF a
<1>2. b \in Seq(S) /\ Followed(b, a, z)
  BY <1>0, <1>1, Concats
<1> HIDE DEF b
<1>3. c \in Seq(S) /\ Followed(c, j, b)
  BY <1>2, Concats
<1> HIDE DEF c
<1> SUFFICES ASSUME NEW g, g = c
    PROVE  g \in Seq(S) /\ Grouped(g, j, p, m, e)
  BY DEF a, b, c, z
<1> USE DEF Followed
<1>4. ASSUME NEW i \in 1..3 PROVE g[Len(j) + i] = p[i]
  <2>1. i \in 1..Len(a) /\ i \in 1..Len(b)
    BY <1>1, <1>2
  <2> QED BY <1>1, <1>2, <1>3, <2>1
<1>5. ASSUME NEW i \in 1..Len(m) PROVE g[Len(j) + (3 + i)] = m[i]
  <2>1. 3 + i \in 1..Len(a) /\ 3 + i \in 1..Len(b)
    BY <1>1, <1>2, <1>3
  <2>2. g[Len(j) + (3 + i)] = b[3 + i]
    BY <1>3, <2>1
  <2>3. b[3 + i] = a[3 + i]
    BY <1>2, <2>1
  <2>4. a[3 + i] = m[i]
    BY <1>1
  <2> QED BY <2>2, <2>3, <2>4
<1>6. Len(g) = Len(j) + 4 + Len(m)
  BY <1>0, <1>1, <1>2, <1>3
<1>7. g[Len(g)] = e
  <2>1. 1 \in 1..Len(z) /\ Len(b) \in 1..Len(b) /\ Len(b) = Len(a) + 1 /\ Len(g) = Len(j) + Len(b)
    BY <1>0, <1>1, <1>2, <1>3
  <2>2. g[Len(j) + Len(b)] = b[Len(b)]
    BY <1>3, <2>1
  <2>3. b[Len(a) + 1] = z[1]
    BY <1>2, <2>1
  <2> QED BY <1>0, <2>1, <2>2, <2>3
<1> QED BY <1>1, <1>3, <1>4, <1>5, <1>6, <1>7 DEF Grouped

(* So is the group of a transaction.                                        *)
LEMMA GroupShape ==
  ASSUME NEW t
  PROVE  /\ Group(t) \in Seq(LinesOf(t))
         /\ Len(Junk) = (IF form.junk THEN 3 ELSE 0) /\ Len(Memo(t)) \in {0, 1}
         /\ Grouped(Group(t), Junk, FirstThree(t), Memo(t), End)
<1> PICK L : L = LinesOf(t)
  OBVIOUS
<1>1. /\ DateOf(t) \in L /\ AmountOf(t) \in L /\ PayeeOf(t) \in L /\ MemoOf(t) \in L
      /\ Repeated(t) \in L /\ OpeningMemo \in L /\ OpeningAmount \in L /\ End \in L
  BY DEF LinesOf
<1>2. Junk \in Seq(L) /\ Len(Junk) = IF form.junk THEN 3 ELSE 0
  BY <1>1 DEF Junk
<1>3. Memo(t) \in Seq(L) /\ Len(Memo(t)) \in {0, 1}
  BY <1>1 DEF Memo
<1>4. FirstThree(t) \in Seq(L) /\ Len(FirstThree(t)) = 3
  BY <1>1 DEF FirstThree
<1>5. End \in L
  BY <1>1
<1>6. PICK j, p, m, e : j = Junk /\ p = FirstThree(t) /\ m = Memo(t) /\ e = End
  OBVIOUS
<1>7. PICK g : g = Group(t)
  OBVIOUS
<1>8. g = j \o (p \o m \o <<e>>)
  BY <1>6, <1>7 DEF Group
<1>9. j \in Seq(L) /\ p \in Seq(L) /\ m \in Seq(L) /\ e \in L /\ Len(p) = 3
  BY <1>2, <1>3, <1>4, <1>5, <1>6
<1>10. g \in Seq(L) /\ Grouped(g, j, p, m, e)
  BY <1>8, <1>9, FourParts
<1> QED BY <1>2, <1>3, <1>6, <1>7, <1>10

(* What a printed date is.                                                  *)
LEMMA PartsOfDate ==
  ASSUME NEW c, NEW d, c = Date(d)
  PROVE  c.kind = "date" /\ c.date = d
BY DEF Date

(* A date is read as it was before it was printed, the century of a short   *)
(* year included.                                                           *)
LEMMA DateIsRead ==
  ASSUME NEW t \in QifTx
  PROVE  QifDate(Printed(t.date)) = {t.date}
<1>1. PICK y \in Years, m \in 1..12, d \in 1..31 : t.date = <<y, m, d>>
  <2>1. t.date \in Years \X (1..12) \X (1..31)
    BY DEF QifTx
  <2> QED BY <2>1
<1>2. PICK z \in Int : /\ Printed(t.date) = Date(<<z, m, d>>)
                       /\ z # NoYear /\ Century(z) = y
  <2>1. CASE form.dates = "long"
    <3>1. y \in Int /\ y >= 100
      BY <1>1, <2>1 DEF Years
    <3>2. Printed(t.date) = Date(<<y, m, d>>)
      BY <1>1, <2>1 DEF Printed
    <3>3. y # NoYear /\ Century(y) = y
      BY <3>1 DEF NoYear, Century
    <3> QED BY <3>1, <3>2, <3>3
  <2>2. CASE form.dates = "short"
    <3>1. y \in 1950..2049
      BY <1>1, <2>2 DEF Years
    <3>2. Printed(t.date) = Date(<<y % 100, m, d>>)
      BY <1>1, <2>2 DEF Printed
    <3>3. y % 100 \in Int /\ y % 100 # NoYear /\ Century(y % 100) = y
      <4>1. CASE y < 2000
        <5>1. y % 100 = y - 1900
          BY <3>1, <4>1
        <5> QED BY <3>1, <4>1, <5>1 DEF NoYear, Century
      <4>2. CASE y >= 2000
        <5>1. y % 100 = y - 2000
          BY <3>1, <4>2
        <5> QED BY <3>1, <4>2, <5>1 DEF NoYear, Century
      <4> QED BY <3>1, <4>1, <4>2
    <3> QED BY <3>2, <3>3
  <2>3. form.dates = "long" \/ form.dates = "short"
    BY <1>1 DEF Years
  <2> QED BY <2>1, <2>2, <2>3
<1>3. PICK c : c = Printed(t.date)
  OBVIOUS
<1>a. PICK k : k = <<z, m, d>>
  OBVIOUS
<1>b. c = Date(k)
  BY <1>2, <1>3, <1>a
<1>4. c.kind = "date" /\ c.date = k
  BY <1>b DEF Date
<1>5. c.date[1] = z /\ c.date[2] = m /\ c.date[3] = d
  BY <1>4, <1>a
<1>6. QifDate(c) = Sane(y, c.date)
  BY <1>2, <1>4, <1>5 DEF QifDate, Dated
<1>7. Sane(y, c.date) = {t.date}
  BY <1>1, <1>5 DEF Sane
<1> QED BY <1>3, <1>6, <1>7

(* Words are read as they are written.                                      *)
LEMMA WordsAreRead ==
  ASSUME NEW S, NEW s \in Seq(S)
  PROVE  Texts(Words(s)) = s
<1>1. \A i \in DOMAIN s : Words(s)[i].text = s[i]
  BY DEF Words, Word
<1>2. DOMAIN Words(s) = DOMAIN s
  BY DEF Words
<1>3. Texts(Words(s)) = [i \in DOMAIN s |-> Words(s)[i].text]
  BY <1>2 DEF Texts
<1>4. Texts(Words(s)) = [i \in DOMAIN s |-> s[i]]
  BY <1>1, <1>3
<1> QED BY <1>4

(* A sequence is its first element and the rest.                            *)
Divided(S, s, p, r) ==
  /\ p \in Seq(S) /\ Len(p) = 1 /\ p[1] = s[1] /\ p # <<>>
  /\ r \in Seq(S) /\ Len(s) \in Nat \ {0} /\ Len(r) = Len(s) - 1
  /\ \A i \in 1..Len(r) : r[i] = s[i + 1]
  /\ p \o r = s
  /\ Len(s) = 1 => p = s

(* The words of a transaction are its payee and its memo.                   *)
LEMMA FirstAndRest ==
  ASSUME NEW S, NEW s \in Seq(S), s # <<>>
  PROVE  \A p, r : p = SubSeq(s, 1, 1) /\ r = Tail(s) => Divided(S, s, p, r)
<1> SUFFICES ASSUME NEW p, p = SubSeq(s, 1, 1)
             PROVE  Divided(S, s, p, Tail(s))
  OBVIOUS
<1>1. Len(s) \in Nat \ {0} /\ s[1] \in S
  BY EmptySeq
<1>2. \A i \in 1..1 : s[i] \in S
  BY <1>1
<1>3. p \in Seq(S) /\ Len(p) = 1 /\ p[1] = s[1]
  <2>1. /\ SubSeq(s, 1, 1) \in Seq(S)
        /\ Len(SubSeq(s, 1, 1)) = IF 1 <= 1 THEN 1 - 1 + 1 ELSE 0
        /\ \A i \in 1..(1 - 1 + 1) : SubSeq(s, 1, 1)[i] = s[1 + i - 1]
    BY <1>2, SubSeqProperties
  <2> QED BY <2>1
<1>4. p # <<>>
  BY <1>3
<1>5. Tail(s) \in Seq(S) /\ Len(Tail(s)) = Len(s) - 1
  BY HeadTailProperties
<1>6. \A i \in 1..Len(Tail(s)) : Tail(s)[i] = s[i + 1]
  BY <1>1, <1>5
<1> DEFINE t == Tail(s)
           c == p \o t
<1> HIDE DEF t
<1>7. c \in Seq(S) /\ Followed(c, p, t)
  BY <1>3, <1>5, Concats DEF t
<1> HIDE DEF c
<1>8. Len(c) = Len(s)
  BY <1>1, <1>3, <1>5, <1>7 DEF Followed, t
<1>9. ASSUME NEW i \in 1..Len(c) PROVE c[i] = s[i]
  <2>1. CASE i = 1
    BY <1>3, <1>7, <2>1 DEF Followed
  <2>2. CASE i # 1
    <3>1. i - 1 \in 1..Len(t) /\ 1 + (i - 1) = i /\ (i - 1) + 1 = i
      BY <1>1, <1>5, <1>8, <2>2 DEF t
    <3>2. c[Len(p) + (i - 1)] = t[i - 1]
      BY <1>7, <3>1 DEF Followed
    <3>3. t[i - 1] = s[(i - 1) + 1]
      BY <1>6, <3>1 DEF t
    <3> QED BY <1>3, <3>1, <3>2, <3>3
  <2> QED BY <2>1, <2>2
<1>10. c = s
  BY <1>7, <1>8, <1>9, SeqEqual
<1>11. ASSUME Len(s) = 1 PROVE p = s
  BY <1>3, <1>11, SeqEqual
<1> QED BY <1>1, <1>3, <1>4, <1>5, <1>6, <1>10, <1>11 DEF c, t, Divided

(* The words of a transaction and what is made of its payee and its memo.   *)
LEMMA Described ==
  ASSUME NEW s, Told(s)
  PROVE  /\ SubSeq(s, 1, 1) \in Seq(STRING) /\ Tail(s) \in Seq(STRING)
         /\ Len(s) > 1 => Describe(SubSeq(s, 1, 1), Tail(s)) = s
         /\ ~(Len(s) > 1) => /\ Describe(SubSeq(s, 1, 1), s) = s
                             /\ Describe(SubSeq(s, 1, 1), <<>>) = s
<1> PICK p : p = SubSeq(s, 1, 1)
  OBVIOUS
<1> PICK r : r = Tail(s)
  OBVIOUS
<1>1. s \in Seq(STRING) /\ s # <<>> /\ ~(Len(s) = 2 /\ s[1] = s[2])
  BY DEF Told
<1>2. Divided(STRING, s, p, r)
  BY <1>1, FirstAndRest
<1> USE DEF Divided
<1>3. ASSUME Len(s) > 1 PROVE Describe(p, r) = s
  <2>1. r # p
    <3> SUFFICES ASSUME r = p PROVE FALSE
      OBVIOUS
    <3>0. Len(r) = 1 /\ Len(r) = Len(s) - 1 /\ Len(s) \in Nat
      BY <1>2
    <3>1. Len(s) = 2 /\ 1 \in 1..Len(r) /\ 1 + 1 = 2
      <4> HIDE DEF Divided
      <4> QED BY <3>0
    <3>2. r[1] = s[2] /\ r[1] = s[1]
      BY <1>2, <3>1
    <3> QED BY <1>1, <3>1, <3>2
  <2> QED BY <1>1, <1>2, <2>1 DEF Describe
<1>4. ASSUME ~(Len(s) > 1) PROVE Describe(p, s) = s /\ Describe(p, <<>>) = s
  <2>1. p = s
    BY <1>2, <1>4
  <2>2. s \o <<>> = s
    BY <1>1, ConcatEmptySeq
  <2> QED BY <1>1, <2>1, <2>2 DEF Describe
<1> QED BY <1>2, <1>3, <1>4

(* A reader w that takes the lines g, one after the other.                  *)
ReadsAll(w, g) == \A j \in 0..(Len(g) - 2) : w[j + 1] = QifLine(w[j], g[j + 1])

(* The lines of another kind that may come first leave nothing behind.      *)
LEMMA JunkIsRead ==
  ASSUME NEW t, NEW T, NEW x \in Seq(T), NEW w,
         w[0] = Cleared(form.variant, x), ReadsAll(w, Group(t))
  PROVE  w[Len(Junk)] = Cleared(form.variant, x)
<1> PICK v, none, empty, g : v = form.variant /\ none = {} /\ empty = <<>> /\ g = Group(t)
  OBVIOUS
<1>1. Len(Junk) = (IF form.junk THEN 3 ELSE 0) /\ Grouped(g, Junk, FirstThree(t), Memo(t), End)
  BY GroupShape
<1>2. CASE ~form.junk
  <2>1. Len(Junk) = 0
    BY <1>1, <1>2
  <2> QED BY <2>1
<1>3. CASE form.junk
  <2>1. Len(Junk) = 3 /\ Junk[1] = OpeningMemo /\ Junk[2] = OpeningAmount /\ Junk[3] = End
    BY <1>1, <1>3 DEF Junk
  <2>a. PICK j, m : j = Junk /\ m = Memo(t)
    OBVIOUS
  <2>b. Len(j) = 3 /\ Len(m) \in {0, 1} /\ Len(g) = Len(j) + 4 + Len(m)
    BY <1>1, <2>1, <2>a, GroupShape DEF Grouped
  <2>2. Len(g) \in Nat /\ Len(g) >= 7
    BY <2>b
  <2>c. \A i \in 1..Len(j) : g[i] = j[i]
    BY <1>1, <2>a DEF Grouped
  <2>3. g[1] = OpeningMemo /\ g[2] = OpeningAmount /\ g[3] = End
    <3>1. 1 \in 1..Len(j) /\ 2 \in 1..Len(j) /\ 3 \in 1..Len(j)
      BY <2>b
    <3> QED BY <2>1, <2>a, <2>c, <3>1
  <2>4. w[1] = QifLine(w[0], g[1]) /\ w[2] = QifLine(w[1], g[2]) /\ w[3] = QifLine(w[2], g[3])
    <3>1. 0 \in 0..(Len(g) - 2) /\ 1 \in 0..(Len(g) - 2) /\ 2 \in 0..(Len(g) - 2)
      BY <2>2
    <3>2. w[0 + 1] = QifLine(w[0], g[0 + 1]) /\ w[1 + 1] = QifLine(w[1], g[1 + 1])
          /\ w[2 + 1] = QifLine(w[2], g[2 + 1])
      BY <3>1 DEF ReadsAll
    <3> QED BY <3>2
  <2>5. w[0] = Kept(v, none, none, empty, empty, x)
    BY DEF Cleared
  <2>d. PICK u : u = Words(<<"opening">>)
    OBVIOUS
  <2>6. PICK o : w[1] = Kept(v, none, none, empty, o, x)
    <3>1. w[1] = QifLine(Kept(v, none, none, empty, empty, x), Line("M", u))
      BY <2>3, <2>4, <2>5, <2>d DEF OpeningMemo
    <3>2. w[1] = Kept(v, none, none, empty, Texts(u), x)
      BY <3>1, LineOfWords
    <3> QED BY <3>2
  <2>7. PICK k : w[2] = Kept(v, none, k, empty, o, x)
    <3>1. w[2] = QifLine(Kept(v, none, none, empty, o, x), Line("T", <<Num(900, "plus")>>))
      BY <2>3, <2>4, <2>6 DEF OpeningAmount
    <3>2. w[2] = Kept(v, none, {900}, empty, o, x)
      BY <3>1, LineOfAmount
    <3> QED BY <3>2
  <2>8. w[3] = CommitRecord(w[2])
    BY <2>3, <2>4, LineOfEnd DEF End
  <2>9. CommitRecord(Kept(v, {}, k, empty, o, x)) = Cleared(v, x)
    BY CommitNone
  <2> QED BY <2>1, <2>7, <2>8, <2>9
<1> QED BY <1>2, <1>3

(* The lines of a transaction leave that transaction behind, and nothing    *)
(* else.                                                                    *)
LEMMA GroupIsRead ==
  ASSUME NEW t \in QifTx, NEW T, NEW x \in Seq(T), NEW w,
         w[0] = Cleared(form.variant, x), ReadsAll(w, Group(t))
  PROVE  CommitRecord(w[Len(Group(t)) - 1]) = Cleared(form.variant, x \o <<t>>)
<1> PICK v, none, empty, g : v = form.variant /\ none = {} /\ empty = <<>> /\ g = Group(t)
  OBVIOUS
<1> PICK o, l : o = Len(Junk) /\ l = Len(Memo(t))
  OBVIOUS
<1> PICK n : n = IF v = "ccard" THEN -t.amount ELSE t.amount
  OBVIOUS
<1> PICK p : p = SubSeq(t.text, 1, 1)
  OBVIOUS
<1>0. Told(t.text)
  BY DEF QifTx
<1>1. /\ o \in {0, 3} /\ l \in {0, 1}
      /\ Grouped(g, Junk, FirstThree(t), Memo(t), End) /\ Len(g) = o + 4 + l
  BY GroupShape DEF Grouped
<1>2. g[o + 1] = DateOf(t) /\ g[o + 2] = AmountOf(t) /\ g[o + 3] = PayeeOf(t)
  <2>1. FirstThree(t)[1] = DateOf(t) /\ FirstThree(t)[2] = AmountOf(t) /\ FirstThree(t)[3] = PayeeOf(t)
    BY DEF FirstThree
  <2> QED BY <1>1, <2>1 DEF Grouped
<1>3. /\ w[o + 1] = QifLine(w[o], g[o + 1])
      /\ w[o + 2] = QifLine(w[o + 1], g[o + 2])
      /\ w[o + 3] = QifLine(w[o + 2], g[o + 3])
      /\ l = 1 => w[o + 4] = QifLine(w[o + 3], g[o + 4])
  <2>1. /\ o \in 0..(Len(g) - 2) /\ o + 1 \in 0..(Len(g) - 2) /\ o + 2 \in 0..(Len(g) - 2)
        /\ l = 1 => o + 3 \in 0..(Len(g) - 2)
        /\ (o + 1) + 1 = o + 2 /\ (o + 2) + 1 = o + 3 /\ (o + 3) + 1 = o + 4
    <3>1. PICK z : z = Len(g) - 2
      OBVIOUS
    <3>2. o \in Nat /\ l \in Nat /\ z = o + 2 + l
      BY <1>1, <3>1
    <3>3. /\ o \in 0..z /\ o + 1 \in 0..z /\ o + 2 \in 0..z
          /\ l = 1 => o + 3 \in 0..z
          /\ (o + 1) + 1 = o + 2 /\ (o + 2) + 1 = o + 3 /\ (o + 3) + 1 = o + 4
      BY <3>2
    <3> QED BY <3>1, <3>3
  <2>2. \A j \in 0..(Len(g) - 2) : w[j + 1] = QifLine(w[j], g[j + 1])
    BY DEF ReadsAll
  <2>3. w[o + 1] = QifLine(w[o], g[o + 1])
    BY <2>1, <2>2
  <2>4. w[(o + 1) + 1] = QifLine(w[o + 1], g[(o + 1) + 1])
    BY <2>1, <2>2
  <2>5. w[(o + 2) + 1] = QifLine(w[o + 2], g[(o + 2) + 1])
    BY <2>1, <2>2
  <2>6. l = 1 => w[(o + 3) + 1] = QifLine(w[o + 3], g[(o + 3) + 1])
    BY <2>1, <2>2
  <2> QED BY <2>1, <2>3, <2>4, <2>5, <2>6
<1>4. w[o] = Kept(v, none, none, empty, empty, x)
  BY JunkIsRead DEF Cleared
<1>6. PICK D : D = {t.date}
  OBVIOUS
<1>5. w[o + 1] = Kept(v, D, none, empty, empty, x)
  <2>1. PICK c : c = Printed(t.date)
    OBVIOUS
  <2>2. D = QifDate(c) /\ D # {}
    BY <1>6, <2>1, DateIsRead
  <2>3. QifLine(Kept(v, none, none, empty, empty, x), Line("D", <<c>>))
          = Kept(v, D, none, empty, empty, x)
    BY <2>2, LineOfDate
  <2> QED BY <1>2, <1>3, <1>4, <2>1, <2>3 DEF DateOf
<1>7. PICK M : M = {n}
  OBVIOUS
<1>8. w[o + 2] = Kept(v, D, M, empty, empty, x)
  <2>1. AmountOf(t) = Line("T", <<Num(n, IF n >= 0 THEN "plus" ELSE form.sign)>>)
    BY DEF AmountOf, Signed
  <2> QED BY <1>2, <1>3, <1>5, <1>6, <1>7, <2>1, LineOfAmount
<1>9. w[o + 3] = Kept(v, D, M, p, empty, x)
  <2>1. Texts(Words(p)) = p
    BY <1>0, Described, WordsAreRead
  <2>2. QifLine(Kept(v, D, M, empty, empty, x), Line("P", Words(p)))
          = Kept(v, D, M, Texts(Words(p)), empty, x)
    BY LineOfWords
  <2> QED BY <1>2, <1>3, <1>8, <2>1, <2>2 DEF PayeeOf
<1>10. PICK m : w[o + 3 + l] = Kept(v, D, M, p, m, x) /\ Describe(p, m) = t.text
  <2>1. CASE Len(t.text) > 1
    <3>1. Memo(t) = <<MemoOf(t)>>
      BY <2>1 DEF Memo
    <3>2. l = 1 /\ g[o + 4] = MemoOf(t)
      <4>1. l = 1 /\ Memo(t)[1] = MemoOf(t)
        BY <3>1
      <4>2. g[o + (3 + 1)] = Memo(t)[1]
        BY <1>1, <4>1 DEF Grouped
      <4> QED BY <1>1, <4>1, <4>2
    <3>3. Tail(t.text) \in Seq(STRING) /\ Describe(p, Tail(t.text)) = t.text
      BY <1>0, <2>1, Described
    <3>4. PICK m : m = Tail(t.text)
      OBVIOUS
    <3>5. Texts(Words(m)) = m
      BY <3>3, <3>4, WordsAreRead
    <3>6. QifLine(Kept(v, D, M, p, empty, x), Line("M", Words(m)))
            = Kept(v, D, M, p, Texts(Words(m)), x)
      BY LineOfWords
    <3>7. w[o + 4] = Kept(v, D, M, p, m, x) /\ o + 3 + l = o + 4
      BY <1>1, <1>3, <1>9, <3>2, <3>4, <3>5, <3>6 DEF MemoOf
    <3> QED BY <3>3, <3>4, <3>7
  <2>2. CASE ~(Len(t.text) > 1) /\ form.head
    <3>1. Memo(t) = <<Repeated(t)>>
      BY <2>2 DEF Memo
    <3>2. l = 1 /\ g[o + 4] = Repeated(t)
      <4>1. l = 1 /\ Memo(t)[1] = Repeated(t)
        BY <3>1
      <4>2. g[o + (3 + 1)] = Memo(t)[1]
        BY <1>1, <4>1 DEF Grouped
      <4> QED BY <1>1, <4>1, <4>2
    <3>3. t.text \in Seq(STRING) /\ Describe(p, t.text) = t.text
      BY <1>0, <2>2, Described DEF Told
    <3>4. PICK m : m = t.text
      OBVIOUS
    <3>5. Texts(Words(m)) = m
      BY <3>3, <3>4, WordsAreRead
    <3>6. QifLine(Kept(v, D, M, p, empty, x), Line("M", Words(m)))
            = Kept(v, D, M, p, Texts(Words(m)), x)
      BY LineOfWords
    <3>7. w[o + 4] = Kept(v, D, M, p, m, x) /\ o + 3 + l = o + 4
      BY <1>1, <1>3, <1>9, <3>2, <3>4, <3>5, <3>6 DEF Repeated
    <3> QED BY <3>3, <3>4, <3>7
  <2>3. CASE ~(Len(t.text) > 1) /\ ~form.head
    <3>1. Memo(t) = <<>>
      BY <2>3 DEF Memo
    <3>2. l = 0 /\ o + 3 + l = o + 3
      BY <1>1, <3>1
    <3>3. Describe(p, empty) = t.text
      BY <1>0, <2>3, Described
    <3> QED BY <1>9, <3>2, <3>3
  <2> QED BY <2>1, <2>2, <2>3
<1>11. Len(g) - 1 = o + 3 + l
  BY <1>1
<1>12. t.amount \in Int /\ n \in Int /\ (IF v = "ccard" THEN -n ELSE n) = t.amount
  BY DEF QifTx
<1>13. Tx(t.date, t.text, t.amount) = t
  BY DEF QifTx, Tx
<1>14. Taken(v, D, M, p, m) = {t}
  <2>1. D = {t.date} /\ M = {n} /\ Describe(p, m) = t.text
    BY <1>6, <1>7, <1>10
  <2>2. PICK sign : sign = IF v = "ccard" THEN -1 ELSE 1
    OBVIOUS
  <2>3. sign * n = t.amount
    BY <1>12, <2>2
  <2>4. PICK S : S = Taken(v, D, M, p, m)
    OBVIOUS
  <2>5. \A u : u \in S <=> \E e \in D, k \in M : u = Tx(e, t.text, sign * k)
    BY <2>1, <2>2, <2>4 DEF Taken
  <2>6. Tx(t.date, t.text, sign * n) = t
    BY <1>13, <2>3
  <2>7. \A u : u \in S <=> u = t
    BY <2>1, <2>5, <2>6
  <2>8. S = {t}
    BY <2>7
  <2> QED BY <2>4, <2>8
<1>15. CommitRecord(Kept(v, D, M, p, m, x)) = Cleared(v, x \o <<t>>)
  BY <1>14, CommitOne
<1> QED BY <1>10, <1>11, <1>15

(* The heading, and one group after the other but for the last line.        *)
Placed(lines, h, q, n) ==
  /\ \A k \in 0..n : Offset(q, k) \in 0..Offset(q, n)
  /\ DOMAIN lines = 1..Offset(q, n) /\ Offset(q, 0) = 0
  /\ lines[1] = h
  /\ \A k \in 0..(n - 1) : Offset(q, k + 1) = Offset(q, k) + Len(q[k + 1])
  /\ \A k \in 0..(n - 1) : \A j \in 1..Len(q[k + 1]) :
       Offset(q, k) + j < Offset(q, n) => lines[(Offset(q, k) + j) + 1] = q[k + 1][j]

(* So is the file written.                                                  *)
LEMMA FileIsPlaced ==
  ASSUME NEW S, NEW h \in S, NEW n \in Nat \ {0}, NEW q \in [1..n -> Seq(S)], Offset(q, n) > 0
  PROVE  \A lines : lines = Front(<<h>> \o FlattenSeq(q)) => Placed(lines, h, q, n)
<1> DEFINE z == <<h>>
           e == FlattenSeq(q)
           full == z \o e
<1>0. e \in Seq(S) /\ Laid(e, q, n)
  BY FlattenAt
<1> HIDE DEF e
<1>1. /\ e \in Seq(S) /\ Len(e) = Offset(q, n)
      /\ \A k \in 0..n : Offset(q, k) \in 0..Offset(q, n)
      /\ \A k \in 0..(n - 1) : Offset(q, k + 1) = Offset(q, k) + Len(q[k + 1])
  BY <1>0 DEF Laid
<1>2. \A k \in 0..(n - 1) : \A j \in 1..Len(q[k + 1]) : e[Offset(q, k) + j] = q[k + 1][j]
  BY <1>0 DEF Laid
<1>3. z \in Seq(S) /\ Len(z) = 1 /\ z[1] = h
  OBVIOUS
<1> HIDE DEF z
<1>4. full \in Seq(S) /\ Followed(full, z, e)
  BY <1>1, <1>3, Concats
<1> HIDE DEF full
<1> PICK N : N = Offset(q, n)
  OBVIOUS
<1>5. N \in Nat \ {0} /\ Len(full) = N + 1 /\ \A i \in 1..N : full[i + 1] = e[i]
  <2>1. N \in Nat \ {0} /\ Len(full) = N + 1
    BY <1>1, <1>3, <1>4 DEF Followed
  <2>2. \A i \in 1..N : full[1 + i] = e[i]
    BY <1>1, <1>3, <1>4 DEF Followed
  <2>3. \A i \in 1..N : i + 1 = 1 + i
    BY <2>1
  <2> QED BY <2>1, <2>2, <2>3
<1>6. full[1] = h
  <2>1. 1 \in 1..Len(z)
    BY <1>3
  <2> QED BY <1>3, <1>4, <2>1 DEF Followed
<1> SUFFICES ASSUME NEW lines, lines = Front(full)
             PROVE  Placed(lines, h, q, n)
  BY DEF full, z, e
<1>7. lines = SubSeq(full, 1, N)
  <2>1. Len(full) - 1 = N
    BY <1>5
  <2> QED BY <2>1 DEF Front
<1>8. DOMAIN lines = 1..N /\ \A i \in 1..N : lines[i] = full[i]
  <2>1. \A i \in 1..N : full[i] \in S
    BY <1>4, <1>5
  <2>2. /\ SubSeq(full, 1, N) \in Seq(S)
        /\ Len(SubSeq(full, 1, N)) = IF 1 <= N THEN N - 1 + 1 ELSE 0
        /\ \A i \in 1..(N - 1 + 1) : SubSeq(full, 1, N)[i] = full[1 + i - 1]
    BY <1>5, <2>1, SubSeqProperties
  <2>3. lines \in Seq(S) /\ Len(lines) = N /\ N - 1 + 1 = N
    BY <1>5, <1>7, <2>2
  <2>4. \A i \in 1..N : 1 + i - 1 = i
    BY <1>5
  <2> QED BY <1>7, <2>2, <2>3, <2>4
<1>9. lines[1] = h
  BY <1>5, <1>6, <1>8
<1>10. Offset(q, 0) = 0
  BY DEF Offset
<1>11. ASSUME NEW k \in 0..(n - 1), NEW j \in 1..Len(q[k + 1]), Offset(q, k) + j < N
       PROVE  lines[(Offset(q, k) + j) + 1] = q[k + 1][j]
  <2>1. PICK i : i = Offset(q, k) + j
    OBVIOUS
  <2>2. Offset(q, k) \in Nat /\ q[k + 1] \in Seq(S)
    BY <1>1
  <2>3. i \in 1..N /\ i + 1 \in 1..N
    BY <1>5, <1>11, <2>1, <2>2
  <2>4. lines[i + 1] = e[i]
    BY <1>5, <1>8, <2>3
  <2>5. e[i] = q[k + 1][j]
    BY <1>2, <2>1
  <2> QED BY <2>1, <2>4, <2>5
<1> QED BY <1>1, <1>8, <1>9, <1>10, <1>11 DEF Placed

-----------------------------------------------------------------------------
(* The whole file.                                                          *)

(* The groups of a statement, and its first k transactions.                 *)
Groups == [i \in DOMAIN txs |-> Group(txs[i])]
Prefix(k) == [i \in 1..k |-> txs[i]]

(* The lines of a file are elements of one set.                             *)
LEMMA GroupSet ==
  ASSUME NEW n \in Nat \ {0}, txs \in Seq(QifTx), Len(txs) = n
  PROVE  \E S : Heading \in S /\ Groups \in [1..n -> Seq(S)]
<1> DEFINE S == {Heading} \union UNION {LinesOf(txs[i]) : i \in 1..n}
<1>1. DOMAIN txs = 1..n
  OBVIOUS
<1>2. ASSUME NEW i \in 1..n PROVE Group(txs[i]) \in Seq(S)
  <2>1. Group(txs[i]) \in Seq(LinesOf(txs[i]))
    BY GroupShape
  <2>2. PICK L : L = LinesOf(txs[i])
    OBVIOUS
  <2>3. L \in {LinesOf(txs[k]) : k \in 1..n}
    BY <2>2
  <2>4. L \subseteq S
    BY <2>3
  <2> HIDE DEF S
  <2> QED BY <2>1, <2>2, <2>4, SeqMonotonic
<1>3. Heading \in S
  OBVIOUS
<1> HIDE DEF S
<1> QED BY <1>1, <1>2, <1>3 DEF Groups

(* The groups of a statement stand in its file one after the other.         *)
LEMMA GroupsArePlaced ==
  ASSUME NEW n \in Nat \ {0}, txs \in Seq(QifTx), Len(txs) = n
  PROVE  /\ Placed(QifFile, Heading, Groups, n)
         /\ \A k \in 0..(n - 1) :
              Groups[k + 1] = Group(txs[k + 1]) /\ Len(Groups[k + 1]) \in Nat
              /\ Len(Groups[k + 1]) >= 4 /\ Groups[k + 1][Len(Groups[k + 1])] = End
<1> PICK q : q = Groups
  OBVIOUS
<1>1. DOMAIN txs = 1..n
  OBVIOUS
<1>2. \A k \in 1..n : q[k] = Group(txs[k])
  BY <1>1 DEF Groups
<1>3. ASSUME NEW k \in 1..n
      PROVE  Len(q[k]) \in Nat /\ Len(q[k]) >= 4 /\ q[k][Len(q[k])] = End
  <2>1. PICK g, j, p, m : g = q[k] /\ j = Junk /\ p = FirstThree(txs[k]) /\ m = Memo(txs[k])
    OBVIOUS
  <2>2. Grouped(g, j, p, m, End)
    BY <1>2, <2>1, GroupShape
  <2>3. Len(j) \in Nat /\ Len(m) \in Nat /\ Len(g) = Len(j) + 4 + Len(m) /\ g[Len(g)] = End
    BY <2>2 DEF Grouped
  <2>4. Len(g) \in Nat /\ Len(g) >= 4
    BY <2>3
  <2> QED BY <2>1, <2>3, <2>4
<1>4. PICK S : Heading \in S /\ q \in [1..n -> Seq(S)]
  BY GroupSet
<1>5. Offset(q, n) > 0
  <2>1. FlattenSeq(q) \in Seq(S) /\ Laid(FlattenSeq(q), q, n)
    BY <1>4, FlattenAt
  <2>2. Offset(q, (n - 1) + 1) = Offset(q, n - 1) + Len(q[(n - 1) + 1]) /\ n - 1 \in 0..n
    BY <2>1 DEF Laid
  <2>3. Offset(q, n - 1) \in 0..Offset(q, n)
    BY <2>1, <2>2 DEF Laid
  <2>4. (n - 1) + 1 = n /\ n \in 1..n
    OBVIOUS
  <2>5. Offset(q, n) = Offset(q, n - 1) + Len(q[n]) /\ Len(q[n]) \in Nat /\ Len(q[n]) >= 4
    BY <1>3, <2>2, <2>4
  <2> QED BY <2>3, <2>5
<1>6. QifFile = Front(<<Heading>> \o FlattenSeq(q))
  BY QifFileIs DEF Groups
<1>7. Placed(QifFile, Heading, q, n)
  BY <1>4, <1>5, <1>6, FileIsPlaced
<1>8. ASSUME NEW k \in 0..(n - 1)
      PROVE  q[k + 1] = Group(txs[k + 1]) /\ Len(q[k + 1]) \in Nat
             /\ Len(q[k + 1]) >= 4 /\ q[k + 1][Len(q[k + 1])] = End
  <2>1. k + 1 \in 1..n
    OBVIOUS
  <2> QED BY <1>2, <1>3, <2>1
<1> QED BY <1>7, <1>8

(* What is kept at the last line of a group.                                *)
LEMMA GroupOfFile ==
  ASSUME NEW n \in Nat \ {0}, txs \in Seq(QifTx), Len(txs) = n,
         NEW k \in 0..(n - 1), NEW x \in Seq(QifTx),
         After(QifFile, Offset(Groups, k) + 1) = Cleared(form.variant, x)
  PROVE  CommitRecord(After(QifFile, Offset(Groups, k + 1)))
           = Cleared(form.variant, x \o <<txs[k + 1]>>)
<1> PICK q, t : q = Groups /\ t = txs[k + 1]
  OBVIOUS
<1> PICK lines : lines = QifFile
  OBVIOUS
<1> PICK o, N, g : o = Offset(q, k) /\ N = Offset(q, n) /\ g = q[k + 1]
  OBVIOUS
<1>1. Placed(lines, Heading, q, n) /\ g = Group(t) /\ Len(g) \in Nat /\ Len(g) >= 4
  BY GroupsArePlaced
<1>2. /\ o \in 0..N /\ N \in Nat
      /\ Offset(q, k + 1) = o + Len(g) /\ o + Len(g) \in 0..N
      /\ DOMAIN lines = 1..N
  <2>1. k \in 0..n /\ k + 1 \in 0..n /\ n \in 0..n
    OBVIOUS
  <2>2. \A i \in 0..n : Offset(q, i) \in 0..Offset(q, n)
    BY <1>1 DEF Placed
  <2>3. o \in 0..N /\ N \in 0..N /\ Offset(q, k + 1) \in 0..N
    BY <2>1, <2>2
  <2>4. DOMAIN lines = 1..N /\ Offset(q, k + 1) = o + Len(g)
    BY <1>1 DEF Placed
  <2> QED BY <2>3, <2>4
<1>3. \A i \in 0..(N - 1) : After(lines, i + 1) = QifLine(After(lines, i), lines[i + 1])
  BY <1>2, LineByLine
<1>4. \A j \in 1..Len(g) : o + j < N => lines[(o + j) + 1] = g[j]
  <2>1. \A i \in 0..(n - 1) : \A j \in 1..Len(q[i + 1]) :
          Offset(q, i) + j < Offset(q, n) => lines[(Offset(q, i) + j) + 1] = q[i + 1][j]
    BY <1>1 DEF Placed
  <2> SUFFICES ASSUME NEW j \in 1..Len(g), o + j < N
               PROVE  lines[(o + j) + 1] = g[j]
    OBVIOUS
  <2>2. Offset(q, k) + j < Offset(q, n) => lines[(Offset(q, k) + j) + 1] = q[k + 1][j]
    BY <2>1
  <2> QED BY <2>2
<1> DEFINE w == [j \in Nat |-> After(lines, (o + j) + 1)]
<1>5. ASSUME NEW j \in 0..(Len(g) - 2)
      PROVE  w[j + 1] = QifLine(w[j], g[j + 1])
  <2>1. /\ (o + j) + 1 \in 0..(N - 1) /\ j + 1 \in 1..Len(g) /\ o + (j + 1) < N
        /\ (o + j) + 1 = o + (j + 1) /\ j \in Nat /\ j + 1 \in Nat
    <3>1. PICK l : l = Len(g)
      OBVIOUS
    <3>2. l \in Nat /\ o \in Nat /\ N \in Nat /\ o + l <= N /\ j \in 0..(l - 2)
      BY <1>1, <1>2, <3>1
    <3>3. /\ (o + j) + 1 \in 0..(N - 1) /\ j + 1 \in 1..l /\ o + (j + 1) < N
          /\ (o + j) + 1 = o + (j + 1) /\ j \in Nat /\ j + 1 \in Nat
      <4> HIDE DEF w
      <4> QED BY <3>2
    <3> QED BY <3>1, <3>3
  <2>2. lines[(o + (j + 1)) + 1] = g[j + 1]
    BY <1>4, <2>1
  <2>3. After(lines, (o + (j + 1)) + 1)
          = QifLine(After(lines, (o + j) + 1), lines[(o + (j + 1)) + 1])
    BY <1>3, <2>1
  <2> QED BY <2>1, <2>2, <2>3
<1>6. w[0] = Cleared(form.variant, x)
  <2>1. (o + 0) + 1 = o + 1
    BY <1>2
  <2> QED BY <2>1
<1>7. w[Len(g) - 1] = After(lines, Offset(q, k + 1))
  <2>1. Len(g) - 1 \in Nat /\ (o + (Len(g) - 1)) + 1 = o + Len(g)
    BY <1>1, <1>2
  <2> QED BY <1>2, <2>1
<1> HIDE DEF w
<1>8. ReadsAll(w, Group(t))
  BY <1>1, <1>5 DEF ReadsAll
<1>9. t \in QifTx
  OBVIOUS
<1>10. CommitRecord(w[Len(Group(t)) - 1]) = Cleared(form.variant, x \o <<t>>)
  BY <1>6, <1>8, <1>9, GroupIsRead
<1> QED BY <1>1, <1>7, <1>10

(* Before a group what is kept is the transactions of the ones before it.   *)
LEMMA PrefixIsKept ==
  ASSUME NEW n \in Nat \ {0}, txs \in Seq(QifTx), Len(txs) = n
  PROVE  \A k \in 0..(n - 1) :
           After(QifFile, Offset(Groups, k) + 1) = Cleared(form.variant, Prefix(k))
<1> PICK v, h, q, lines : v = form.variant /\ h = Heading /\ q = Groups /\ lines = QifFile
  OBVIOUS
<1> PICK N : N = Offset(q, n)
  OBVIOUS
<1>1. /\ Placed(lines, h, q, n)
      /\ \A k \in 0..(n - 1) :
           Len(q[k + 1]) \in Nat /\ Len(q[k + 1]) >= 4 /\ q[k + 1][Len(q[k + 1])] = End
  BY GroupsArePlaced
<1>2. /\ \A k \in 0..n : Offset(q, k) \in 0..N
      /\ \A k \in 0..(n - 1) : Offset(q, k + 1) = Offset(q, k) + Len(q[k + 1])
      /\ DOMAIN lines = 1..N /\ Offset(q, 0) = 0 /\ lines[1] = h
  BY <1>1 DEF Placed
<1>3. N \in Nat
  BY <1>2
<1>4. /\ After(lines, 0) = Start
      /\ \A i \in 0..(N - 1) : After(lines, i + 1) = QifLine(After(lines, i), lines[i + 1])
  BY <1>2, <1>3, LineByLine
<1>5. \A k \in 0..n : Prefix(k) \in Seq(QifTx)
  <2> SUFFICES ASSUME NEW k \in 0..n PROVE Prefix(k) \in Seq(QifTx)
    OBVIOUS
  <2>1. \A i \in 1..k : txs[i] \in QifTx
    OBVIOUS
  <2> QED BY <2>1 DEF Prefix
<1>6. ASSUME NEW k \in 0..(n - 1) PROVE Prefix(k) \o <<txs[k + 1]>> = Prefix(k + 1)
  <2> PICK s, t : s = Prefix(k) /\ t = txs[k + 1]
    OBVIOUS
  <2>1. s \in Seq(QifTx) /\ Len(s) = k /\ t \in QifTx /\ \A i \in 1..k : s[i] = txs[i]
    BY <1>5 DEF Prefix
  <2>2. s \o <<t>> = [i \in 1..(k + 1) |-> txs[i]]
    BY <2>1
  <2> QED BY <2>2 DEF Prefix
<1> DEFINE G == {k \in Nat : k \in 0..(n - 1) =>
                    After(lines, Offset(q, k) + 1) = Cleared(v, Prefix(k))}
<1>7. 0 \in G
  <2>1. N > 0
    <3>1. 0 \in 0..(n - 1) /\ 0 \in 0..n /\ 0 + 1 \in 0..n
      OBVIOUS
    <3>2. Offset(q, 0 + 1) = Offset(q, 0) + Len(q[0 + 1]) /\ Offset(q, 0 + 1) \in 0..N
          /\ Len(q[0 + 1]) \in Nat /\ Len(q[0 + 1]) >= 4
      BY <1>1, <1>2, <3>1
    <3> QED BY <1>2, <1>3, <3>2
  <2>2. After(lines, 0 + 1) = QifLine(After(lines, 0), lines[0 + 1])
    BY <1>3, <1>4, <2>1
  <2>3. After(lines, 1) = QifLine(Kept("bank", {}, {}, <<>>, <<>>, <<>>), Line("!", Words(<<v>>)))
    BY <1>2, <1>4, <2>2, KeptAtStart DEF Heading, Cleared
  <2>4. <<>> \in Seq(QifTx)
    OBVIOUS
  <2>5. After(lines, 1) = Cleared(v, <<>>)
    BY <2>3, <2>4, LineOfType
  <2>6. Prefix(0) = <<>> /\ Offset(q, 0) + 1 = 1
    BY <1>2 DEF Prefix
  <2> QED BY <2>5, <2>6
<1>8. ASSUME NEW k \in Nat, k \in G PROVE k + 1 \in G
  <2> SUFFICES ASSUME k + 1 \in 0..(n - 1)
               PROVE  After(lines, Offset(q, k + 1) + 1) = Cleared(v, Prefix(k + 1))
    OBVIOUS
  <2>1. k \in 0..(n - 1) /\ k \in 0..n /\ k + 1 \in 0..n /\ (k + 1) + 1 \in 0..n
    OBVIOUS
  <2>2. After(lines, Offset(q, k) + 1) = Cleared(v, Prefix(k))
    BY <1>8, <2>1
  <2> HIDE DEF G
  <2>3. Prefix(k) \in Seq(QifTx)
    BY <1>5, <2>1
  <2>4. CommitRecord(After(lines, Offset(q, k + 1)))
          = Cleared(v, Prefix(k) \o <<txs[k + 1]>>)
    BY <2>1, <2>2, <2>3, GroupOfFile
  <2> PICK o, m, l, g : o = Offset(q, k) /\ m = Offset(q, k + 1) /\ g = q[k + 1] /\ l = Len(g)
    OBVIOUS
  <2>5. o \in Nat /\ m = o + l /\ l \in 1..l /\ g[l] = End
    BY <1>1, <1>2, <2>1
  <2>6. m < N /\ m \in 0..(N - 1)
    <3>1. /\ Offset(q, (k + 1) + 1) = m + Len(q[(k + 1) + 1])
          /\ Offset(q, (k + 1) + 1) \in 0..N /\ m \in 0..N
          /\ Len(q[(k + 1) + 1]) \in Nat /\ Len(q[(k + 1) + 1]) >= 4
      BY <1>1, <1>2, <2>1
    <3> QED BY <1>3, <3>1
  <2>7. lines[m + 1] = End
    <3>1. \A i \in 0..(n - 1) : \A j \in 1..Len(q[i + 1]) :
            Offset(q, i) + j < Offset(q, n) => lines[(Offset(q, i) + j) + 1] = q[i + 1][j]
      BY <1>1 DEF Placed
    <3>2. \A j \in 1..Len(q[k + 1]) :
            Offset(q, k) + j < Offset(q, n) => lines[(Offset(q, k) + j) + 1] = q[k + 1][j]
      BY <2>1, <3>1
    <3>3. o + l < N => lines[(o + l) + 1] = g[l]
      BY <2>5, <3>2
    <3> QED BY <2>5, <2>6, <3>3
  <2>8. After(lines, m + 1) = QifLine(After(lines, m), Line("^", <<>>))
    BY <1>4, <2>6, <2>7 DEF End
  <2>9. After(lines, m + 1) = CommitRecord(After(lines, m))
    BY <2>8, LineOfEnd
  <2> QED BY <1>6, <2>1, <2>4, <2>9
<1> HIDE DEF G
<1>9. \A k \in Nat : k \in G
  BY <1>7, <1>8, Counting
<1> QED
  <2> SUFFICES ASSUME NEW k \in 0..(n - 1)
               PROVE  After(lines, Offset(q, k) + 1) = Cleared(v, Prefix(k))
    OBVIOUS
  <2>1. k \in G
    BY <1>9
  <2> QED BY <2>1 DEF G

(* What the reader makes of the file is what the bank had to say.           *)
LEMMA QifFileIsRead ==
  ASSUME txs \in Seq(QifTx), txs # <<>>
  PROVE  ParseQif(QifFile) = {txs}
<1> PICK n : n = Len(txs)
  OBVIOUS
<1> PICK v, q, lines, s : v = form.variant /\ q = Groups /\ lines = QifFile /\ s = txs
  OBVIOUS
<1>1. n \in Nat \ {0} /\ txs \in Seq(QifTx) /\ Len(txs) = n
  BY EmptySeq
<1>2. n - 1 \in 0..(n - 1) /\ (n - 1) + 1 = n
  BY <1>1
<1>3. After(lines, Offset(q, n - 1) + 1) = Cleared(v, Prefix(n - 1))
  BY <1>1, <1>2, PrefixIsKept
<1>4. Prefix(n - 1) \in Seq(QifTx)
  <2>1. \A i \in 1..(n - 1) : txs[i] \in QifTx
    BY <1>1
  <2> QED BY <1>1, <2>1 DEF Prefix
<1>5. CommitRecord(After(lines, Offset(q, (n - 1) + 1)))
        = Cleared(v, Prefix(n - 1) \o <<txs[(n - 1) + 1]>>)
  BY <1>1, <1>2, <1>3, <1>4, GroupOfFile
<1>6. Prefix(n - 1) \o <<txs[n]>> = s
  <2> PICK p, t : p = Prefix(n - 1) /\ t = txs[n]
    OBVIOUS
  <2>1. p \in Seq(QifTx) /\ Len(p) = n - 1 /\ t \in QifTx /\ \A i \in 1..(n - 1) : p[i] = txs[i]
    BY <1>1, <1>4 DEF Prefix
  <2>2. p \o <<t>> \in Seq(QifTx) /\ Len(p \o <<t>>) = n
    BY <1>1, <2>1
  <2>3. \A i \in 1..n : (p \o <<t>>)[i] = txs[i]
    BY <1>1, <2>1
  <2>4. p \o <<t>> = txs
    BY <1>1, <2>2, <2>3, SeqEqual
  <2> QED BY <2>4
<1>7. Placed(lines, Heading, q, n)
  BY <1>1, GroupsArePlaced
<1>8. DOMAIN lines = 1..Offset(q, n) /\ Offset(q, n) \in Nat
  <2>1. n \in 0..n
    BY <1>1
  <2> QED BY <1>7, <2>1 DEF Placed
<1>9. ParseQif(lines) = {CommitRecord(After(lines, Offset(q, n))).txs} \ {<<>>}
  BY <1>8, Parsed DEF After
<1>10. CommitRecord(After(lines, Offset(q, n))) = Cleared(v, s)
  BY <1>2, <1>5, <1>6
<1>11. Cleared(v, s).txs = s
  BY DEF Cleared, Kept
<1>12. {s} \ {<<>>} = {s}
  OBVIOUS
<1> QED BY <1>9, <1>10, <1>11, <1>12

-----------------------------------------------------------------------------
(* A form of Quicken's format and a statement that it can say.              *)
QifSays == form.kind = "qif" /\ txs \in Seq(QifTx) /\ txs # <<>>

QifRead == QifSays => StatementIsRead

(* Nothing is added to the words of such a statement.                       *)
LEMMA QifExpected == QifSays => Expected = txs
<1> SUFFICES ASSUME QifSays PROVE Expected = txs
  OBVIOUS
<1>1. \A i \in DOMAIN txs : [txs[i] EXCEPT !.text = txs[i].text \o <<>>] = txs[i]
  <2> SUFFICES ASSUME NEW i \in DOMAIN txs
               PROVE  [txs[i] EXCEPT !.text = txs[i].text \o <<>>] = txs[i]
    OBVIOUS
  <2>1. txs[i] \in QifTx
    BY DEF QifSays
  <2>2. txs[i].text \in Seq(STRING)
    BY <2>1 DEF QifTx, Told
  <2>3. txs[i].text \o <<>> = txs[i].text
    BY <2>2, ConcatEmptySeq
  <2> QED BY <2>1, <2>3 DEF QifTx
<1>2. Expected = [i \in DOMAIN txs |-> [txs[i] EXCEPT !.text = txs[i].text \o <<>>]]
  BY DEF Expected, QifSays
<1>3. Expected = [i \in DOMAIN txs |-> txs[i]]
  BY <1>1, <1>2
<1> QED BY <1>3 DEF QifSays

(* A statement in Quicken's format is read as it was written: every         *)
(* transaction once, in order, with its date, its sign and its words,       *)
(* whatever its length, and whether records of another kind stand between.  *)
THEOREM QifIsRead == FileSpec => [](QifSays => StatementIsRead)
<1>1. FileInit => QifRead
  BY DEF FileInit, QifRead, StatementIsRead
<1>2. QifRead /\ [FileNext]_fileVars => QifRead'
  <2> SUFFICES ASSUME QifRead, [FileNext]_fileVars, QifSays' PROVE StatementIsRead'
    BY DEF QifRead
  <2>1. CASE UNCHANGED fileVars
    BY <2>1 DEF fileVars, QifRead, QifSays, QifTx, Years, Told, StatementIsRead, Expected
  <2>2. CASE FileNext
    <3>1. form.kind = "qif" /\ form' = form /\ txs' = txs /\ out' = ParseQif(QifFile)
      BY <2>2 DEF FileNext, Read, QifSays
    <3>2. QifSays
      BY <3>1 DEF QifSays, QifTx, Years, Told
    <3>3. out' = {txs}
      BY <3>1, <3>2, QifFileIsRead DEF QifSays
    <3>4. Expected' = Expected
      BY <3>1 DEF Expected
    <3> QED BY <3>2, <3>3, <3>4, QifExpected DEF StatementIsRead
  <2> QED BY <2>1, <2>2
<1> QED BY <1>1, <1>2, PTL DEF FileSpec, QifRead

-----------------------------------------------------------------------------
(* Open Financial Exchange.                                                 *)

(* The function that FoldLeft chooses to collect what the parts hold.       *)
Gathers(ss, g, D) ==
  g = [s \in D |-> IF s = {} THEN <<>> ELSE g[s \ {Max(s)}] \o SetToSeq(ss[Max(s)])]
Gathered(ss) == CHOOSE g : Gathers(ss, g, SUBSET DOMAIN ss)

(* The fold over the parts is that function of all of them.                 *)
LEMMA CollectIsGathered ==
  ASSUME NEW ss
  PROVE  Collect(ss) = Gathered(ss)[DOMAIN ss]
BY DEF Collect, FoldLeft, MapThenFoldSet, Gathered, Gathers

(* There is such a function for all parts.                                  *)
LEMMA GatheredExists ==
  ASSUME NEW ss, NEW n \in Nat
  PROVE  \E g : Gathers(ss, g, SUBSET (1..n))
<1> DEFINE G == {k \in Nat : \E g : Gathers(ss, g, SUBSET (1..k))}
<1>1. 0 \in G
  <2> PICK empty : empty = <<>>
    OBVIOUS
  <2> DEFINE g == [s \in SUBSET (1..0) |-> empty]
  <2>1. \A s \in SUBSET (1..0) : s = {}
    OBVIOUS
  <2>2. Gathers(ss, g, SUBSET (1..0))
    BY <2>1 DEF Gathers
  <2> QED BY <2>2
<1>2. ASSUME NEW k \in Nat, k \in G PROVE k + 1 \in G
  <2>1. PICK g : Gathers(ss, g, SUBSET (1..k))
    BY <1>2
  <2> DEFINE next(s) == IF s = {} THEN <<>> ELSE g[s \ {Max(s)}] \o SetToSeq(ss[Max(s)])
             h == [s \in SUBSET (1..(k + 1)) |-> next(s)]
  <2>2. ASSUME NEW s \in SUBSET (1..(k + 1)), s # {}
        PROVE  s \ {Max(s)} \in SUBSET (1..k)
    <3>1. k + 1 \in Nat
      OBVIOUS
    <3>2. Max(s) \in s /\ \A x \in s : x <= Max(s)
      BY <2>2, <3>1, Largest
    <3>3. ASSUME NEW x \in s \ {Max(s)} PROVE x \in 1..k
      <4>1. x \in 1..(k + 1) /\ Max(s) \in 1..(k + 1) /\ x <= Max(s) /\ x # Max(s)
        BY <3>2
      <4> QED BY <4>1
    <3> QED BY <3>3
  <2>3. \A s \in SUBSET (1..k) : s \in SUBSET (1..(k + 1)) /\ g[s] = next(s)
    <3>1. \A s \in SUBSET (1..k) : s \in SUBSET (1..(k + 1))
      OBVIOUS
    <3>2. \A s \in SUBSET (1..k) : g[s] = next(s)
      BY <2>1 DEF Gathers
    <3> QED BY <3>1, <3>2
  <2>4. ASSUME NEW s \in SUBSET (1..(k + 1)), s # {}
        PROVE  h[s \ {Max(s)}] = g[s \ {Max(s)}]
    <3> DEFINE r == s \ {Max(s)}
    <3>1. r \in SUBSET (1..k)
      BY <2>2, <2>4
    <3> HIDE DEF r
    <3>2. h[r] = g[r]
      BY <2>3, <3>1
    <3> QED BY <3>2 DEF r
  <2>5. \A s \in SUBSET (1..(k + 1)) :
          h[s] = IF s = {} THEN <<>> ELSE h[s \ {Max(s)}] \o SetToSeq(ss[Max(s)])
    BY <2>4
  <2>6. h = [s \in SUBSET (1..(k + 1)) |-> h[s]]
    OBVIOUS
  <2> HIDE DEF h, next
  <2>7. h = [s \in SUBSET (1..(k + 1)) |->
               IF s = {} THEN <<>> ELSE h[s \ {Max(s)}] \o SetToSeq(ss[Max(s)])]
    BY <2>5, <2>6
  <2>8. Gathers(ss, h, SUBSET (1..(k + 1)))
    BY <2>7 DEF Gathers
  <2> QED BY <2>8
<1> HIDE DEF G
<1>3. \A k \in 0..n : k \in G
  BY <1>1, <1>2, UpTo
<1> QED
  <2>1. n \in 0..n
    OBVIOUS
  <2> QED BY <1>3, <2>1 DEF G

(* Of parts that hold one thing each, these things in their order.          *)
LEMMA CollectOfOnes ==
  ASSUME NEW S, NEW t \in Seq(S), NEW ss, DOMAIN ss = 1..Len(t),
         \A i \in 1..Len(t) : ss[i] = {t[i]}
  PROVE  Collect(ss) = t
<1> PICK n : n = Len(t)
  OBVIOUS
<1>0. n \in Nat /\ \A i \in 1..n : ss[i] = {t[i]} /\ t[i] \in S
  OBVIOUS
<1> DEFINE g == Gathered(ss)
           first(k) == [i \in 1..k |-> t[i]]
<1>1. Gathers(ss, g, SUBSET (1..n))
  BY <1>0, GatheredExists DEF Gathered
<1> HIDE DEF g
<1>2. \A s \in SUBSET (1..n) :
        g[s] = IF s = {} THEN <<>> ELSE g[s \ {Max(s)}] \o SetToSeq(ss[Max(s)])
  BY <1>1 DEF Gathers
<1> DEFINE G == {k \in Nat : k <= n => g[1..k] = first(k)}
<1>3. 0 \in G
  <2>1. 1..0 = {} /\ {} \in SUBSET (1..n) /\ first(0) = <<>>
    OBVIOUS
  <2>2. g[1..0] = <<>>
    BY <1>2, <2>1
  <2> QED BY <2>1, <2>2
<1>4. ASSUME NEW k \in Nat, k \in G PROVE k + 1 \in G
  <2> SUFFICES ASSUME k + 1 <= n PROVE g[1..(k + 1)] = first(k + 1)
    OBVIOUS
  <2>1. k <= n /\ k + 1 \in 1..n /\ k \in 0..(n - 1)
    BY <1>0
  <2>2. g[1..k] = first(k)
    BY <1>4, <2>1
  <2> HIDE DEF G
  <2>3. /\ 1..(k + 1) \in SUBSET (1..n) /\ 1..(k + 1) # {}
        /\ (1..(k + 1)) \ {k + 1} = 1..k /\ Max(1..(k + 1)) = k + 1
    BY <1>0, <2>1, OneMore
  <2>5. g[1..(k + 1)] = g[1..k] \o SetToSeq(ss[k + 1])
    BY <1>2, <2>3
  <2> PICK e : e = t[k + 1]
    OBVIOUS
  <2>6. SetToSeq(ss[k + 1]) = <<e>> /\ e \in S
    <3>1. ss[k + 1] = {e} /\ e \in S
      BY <1>0, <2>1
    <3> QED BY <3>1, ListOfOne
  <2> PICK p : p = first(k)
    OBVIOUS
  <2>7. p \in Seq(S) /\ Len(p) = k /\ \A i \in 1..k : p[i] = t[i]
    <3>1. \A i \in 1..k : t[i] \in S
      BY <1>0, <2>1
    <3> QED BY <3>1
  <2>8. p \o <<e>> = [i \in 1..(k + 1) |-> t[i]]
    BY <2>6, <2>7
  <2> QED BY <2>2, <2>5, <2>6, <2>8
<1> HIDE DEF G
<1>5. n \in G
  BY <1>0, <1>3, <1>4, Counting
<1>6. g[1..n] = [i \in 1..n |-> t[i]]
  BY <1>0, <1>5 DEF G
<1>7. [i \in 1..n |-> t[i]] = t
  BY <1>0
<1> QED BY <1>6, <1>7, CollectIsGathered DEF g

(* What a bank writes for one transaction.                                  *)

(* The transactions that the format can say: a year has four digits.        *)
FourDigits == {y \in Int : y >= 1000}

OfxTx ==
  {t \in [date : FourDigits \X (1..12) \X (1..31), text : Seq(STRING), amount : Int] :
     Told(t.text)}

(* The block of a transaction: five leaves, closed in version 2.            *)
Tagged(tag, cells) == Leaf(tag, form.variant = "2", cells)
DateTag == IF form.junk THEN "DTUSER" ELSE "DTPOSTED"
Block(t, i) ==
  <<Tagged(DateTag, <<Printed(t.date)>>), Tagged("TRNAMT", <<Signed(t.amount)>>),
    Tagged("NAME", Words(SubSeq(t.text, 1, 1))), Tagged("MEMO", Words(Tail(t.text))),
    Tagged("FITID", Words(<<ToString(i)>>))>>

(* The file is these blocks.                                                *)
LEMMA OfxFileIs == OfxFile = [i \in DOMAIN txs |-> Block(txs[i], i)]
BY DEF OfxFile, Block, Tagged, DateTag

(* A leaf, and whether it is closed once it has been read.                  *)
LeafOf(m, tag, c, cells) ==
  m.tag = tag /\ m.cells = cells /\ (m.closed <=> (c \/ cells # <<>>))

(* A leaf that holds something is closed when it is read.                   *)
LEMMA LeafIsClosed ==
  ASSUME NEW tag, NEW c, NEW cells, NEW l, l = Leaf(tag, c, cells), NEW m,
         m = [l EXCEPT !.closed = @ \/ l.cells # <<>>]
  PROVE  LeafOf(m, tag, c, cells)
BY DEF Leaf, LeafOf

(* The one leaf of its tag, and closed.                                     *)
OnlyLeaf(b, tag, k, v) ==
  /\ k \in 1..5 /\ b[k].tag = tag /\ b[k].closed /\ b[k].cells = v
  /\ \A i \in 1..5 : i # k => b[i].tag # tag

(* The value of a tag that one closed leaf has is what that leaf holds.     *)
LEMMA ValueOfOnly ==
  ASSUME NEW b, NEW tag, NEW k, NEW v, DOMAIN b = 1..5, OnlyLeaf(b, tag, k, v)
  PROVE  ExtractTagValue(b, tag) = {v}
<1> PICK found : found = {i \in DOMAIN b : b[i].tag = tag /\ b[i].closed}
  OBVIOUS
<1>1. found = {k}
  BY DEF OnlyLeaf
<1>2. Min({k}) = k
  <2>1. Min({k}) \in {k}
    BY DEF OnlyLeaf, Min
  <2> QED BY <2>1
<1>3. ExtractTagValue(b, tag) = IF found = {} THEN {} ELSE {b[Min(found)].cells}
  BY DEF ExtractTagValue
<1> QED BY <1>1, <1>2, <1>3 DEF OnlyLeaf

(* A tag that no closed leaf has has no value.                              *)
LEMMA ValueOfNone ==
  ASSUME NEW b, NEW tag, \A i \in DOMAIN b : ~(b[i].tag = tag /\ b[i].closed)
  PROVE  ExtractTagValue(b, tag) = {}
BY DEF ExtractTagValue

(* A block with a value for each tag is the transaction of these values,    *)
(* and the date may be under either of two tags.                            *)
LEMMA TransactionIsRead ==
  ASSUME NEW b, NEW d, NEW c, NEW k, NEW n, NEW p, NEW m, NEW f, NEW D, NEW A,
         \/ ExtractTagValue(b, "DTPOSTED") = {D}
         \/ ExtractTagValue(b, "DTPOSTED") = {} /\ ExtractTagValue(b, "DTUSER") = {D},
         ExtractTagValue(b, "TRNAMT") = {A},
         ExtractTagValue(b, "NAME") = {p},
         ExtractTagValue(b, "MEMO") = {m} \/ (ExtractTagValue(b, "MEMO") = {} /\ m = <<>>),
         ExtractTagValue(b, "FITID") = {f},
         D = <<c>>, OfxDate(c) = {d}, A = <<k>>, Amount(k) = {n}
  PROVE  OfxTransaction(b) = {Tx(d, Describe(Texts(p), Texts(m)) \o Texts(f), n)}
<1> DEFINE value(tag) == ExtractTagValue(b, tag)
           words(tag) == IF value(tag) = {} THEN <<>> ELSE Texts(CHOOSE v \in value(tag) : TRUE)
           posted == IF value("DTPOSTED") # {} THEN value("DTPOSTED") ELSE value("DTUSER")
           dates == UNION {OfxDate(v[1]) : v \in posted \ {<<>>}}
           amounts == UNION {Amount(v[1]) : v \in value("TRNAMT") \ {<<>>}}
<1>1. words("NAME") = Texts(p) /\ words("FITID") = Texts(f)
  OBVIOUS
<1>2. words("MEMO") = Texts(m)
  <2>1. CASE value("MEMO") = {m}
    BY <2>1
  <2>2. CASE value("MEMO") = {} /\ m = <<>>
    <3>1. Texts(m) = <<>>
      BY <2>2 DEF Texts
    <3> QED BY <2>2, <3>1
  <2> QED BY <2>1, <2>2
<1>3. dates = {d}
  <2>1. posted = {D}
    OBVIOUS
  <2>2. D # <<>> /\ D[1] = c
    OBVIOUS
  <2> PICK P : P = posted \ {<<>>}
    OBVIOUS
  <2>3. P = {D}
    BY <2>1, <2>2
  <2>4. \A e : e \in dates <=> \E v \in P : e \in OfxDate(v[1])
    BY <2>2
  <2> HIDE DEF dates, posted
  <2>5. \A e : e \in dates <=> e = d
    BY <2>2, <2>3, <2>4
  <2> QED BY <2>5
<1>4. amounts = {n}
  <2>1. A # <<>> /\ A[1] = k
    OBVIOUS
  <2> PICK P : P = value("TRNAMT") \ {<<>>}
    OBVIOUS
  <2>2. P = {A}
    BY <2>1
  <2>3. \A e : e \in amounts <=> \E v \in P : e \in Amount(v[1])
    OBVIOUS
  <2> HIDE DEF amounts, value
  <2>4. \A e : e \in amounts <=> e = n
    BY <2>1, <2>2, <2>3
  <2> QED BY <2>4
<1>5. OfxTransaction(b)
        = {Tx(e, Describe(words("NAME"), words("MEMO")) \o words("FITID"), a) :
             e \in dates, a \in amounts}
  BY DEF OfxTransaction
<1> HIDE DEF dates, amounts, words, posted, value
<1> PICK w, T : w = Describe(Texts(p), Texts(m)) \o Texts(f) /\ T = OfxTransaction(b)
  OBVIOUS
<1>6. \A u : u \in T <=> \E e \in dates, a \in amounts : u = Tx(e, w, a)
  BY <1>1, <1>2, <1>5
<1>7. \A u : u \in T <=> u = Tx(d, w, n)
  BY <1>3, <1>4, <1>6
<1>8. T = {Tx(d, w, n)}
  BY <1>7
<1> QED BY <1>8

(* The leaves of a block, when they are closed.                             *)
Leaves(b, tag, D, A, p, m, f) ==
  /\ DOMAIN b = 1..5
  /\ b[1].tag = tag /\ b[1].cells = D /\ b[1].closed
  /\ b[2].tag = "TRNAMT" /\ b[2].cells = A /\ b[2].closed
  /\ b[3].tag = "NAME" /\ b[3].cells = p /\ b[3].closed
  /\ b[4].tag = "MEMO" /\ b[4].cells = m /\ (b[4].closed \/ m = <<>>)
  /\ b[5].tag = "FITID" /\ b[5].cells = f /\ b[5].closed

(* The block of a transaction has these leaves.                             *)
LEMMA LeavesOfBlock ==
  ASSUME NEW t \in OfxTx, NEW i
  PROVE  Leaves(NormalizeSgml(Block(t, i)), DateTag, <<Printed(t.date)>>,
                <<Signed(t.amount)>>, Words(SubSeq(t.text, 1, 1)), Words(Tail(t.text)),
                Words(<<ToString(i)>>))
<1> PICK D, A, p, m, f, tag, c, k :
      /\ D = <<Printed(t.date)>> /\ A = <<Signed(t.amount)>>
      /\ p = Words(SubSeq(t.text, 1, 1)) /\ m = Words(Tail(t.text))
      /\ f = Words(<<ToString(i)>>) /\ tag = DateTag /\ c = (form.variant = "2")
      /\ k = Block(t, i)
  OBVIOUS
<1>1. /\ DOMAIN k = 1..5
      /\ k[1] = Leaf(tag, c, D) /\ k[2] = Leaf("TRNAMT", c, A) /\ k[3] = Leaf("NAME", c, p)
      /\ k[4] = Leaf("MEMO", c, m) /\ k[5] = Leaf("FITID", c, f)
  BY DEF Block, Tagged
<1>2. D # <<>> /\ A # <<>>
  OBVIOUS
<1>3. f # <<>>
  BY DEF Words
<1>4. p # <<>>
  <2>1. Told(t.text)
    BY DEF OfxTx
  <2>2. PICK s, r, u : s = t.text /\ r = SubSeq(s, 1, 1) /\ u = Tail(s)
    OBVIOUS
  <2>3. Divided(STRING, s, r, u)
    BY <2>1, <2>2, FirstAndRest DEF Told
  <2>4. r \in Seq(STRING) /\ Len(r) = 1
    BY <2>3 DEF Divided
  <2>5. 1 \in DOMAIN Words(r)
    BY <2>4 DEF Words
  <2> QED BY <2>2, <2>5
<1> PICK b : b = NormalizeSgml(k)
  OBVIOUS
<1>5. /\ DOMAIN b = 1..5
      /\ \A l \in 1..5 : b[l] = [k[l] EXCEPT !.closed = @ \/ k[l].cells # <<>>]
  BY <1>1 DEF NormalizeSgml
<1>6. ASSUME NEW l \in 1..5, NEW g, NEW s, k[l] = Leaf(g, c, s)
      PROVE  b[l].tag = g /\ b[l].cells = s /\ (b[l].closed <=> (c \/ s # <<>>))
  <2>1. PICK x, y : x = k[l] /\ y = b[l]
    OBVIOUS
  <2>2. y = [x EXCEPT !.closed = @ \/ x.cells # <<>>]
    BY <1>5, <2>1
  <2>3. LeafOf(y, g, c, s)
    BY <1>6, <2>1, <2>2, LeafIsClosed
  <2> QED BY <2>1, <2>3 DEF LeafOf
<1>7. b[1].tag = tag /\ b[1].cells = D /\ b[1].closed
  BY <1>1, <1>2, <1>6
<1>8. b[2].tag = "TRNAMT" /\ b[2].cells = A /\ b[2].closed
  BY <1>1, <1>2, <1>6
<1>9. b[3].tag = "NAME" /\ b[3].cells = p /\ b[3].closed
  BY <1>1, <1>4, <1>6
<1>10. b[4].tag = "MEMO" /\ b[4].cells = m /\ (b[4].closed \/ m = <<>>)
  BY <1>1, <1>6
<1>11. b[5].tag = "FITID" /\ b[5].cells = f /\ b[5].closed
  BY <1>1, <1>3, <1>6
<1> QED BY <1>5, <1>7, <1>8, <1>9, <1>10, <1>11 DEF Leaves

(* A date with a year of four digits is read as it is printed.              *)
LEMMA LongDateIsRead ==
  ASSUME NEW t \in OfxTx, form.dates = "long"
  PROVE  OfxDate(Printed(t.date)) = {t.date}
<1>1. PICK y \in FourDigits, m \in 1..12, d \in 1..31 : t.date = <<y, m, d>>
  <2>1. t.date \in FourDigits \X (1..12) \X (1..31)
    BY DEF OfxTx
  <2> QED BY <2>1
<1>2. PICK c, k : c = Printed(t.date) /\ k = <<y, m, d>>
  OBVIOUS
<1>3. c = Date(k)
  BY <1>1, <1>2 DEF Printed
<1>4. c.kind = "date" /\ c.date = k
  BY <1>3 DEF Date
<1>5. c.date[1] = y /\ c.date[2] = m /\ c.date[3] = d
  BY <1>2, <1>4
<1>6. OfxDate(c) = Sane(y, c.date)
  BY <1>4, <1>5 DEF OfxDate, FourDigits
<1>7. Sane(y, c.date) = {t.date}
  BY <1>1, <1>5 DEF Sane
<1> QED BY <1>2, <1>6, <1>7

(* A name and a memo are read as the words they were.                       *)
LEMMA NameAndMemo ==
  ASSUME NEW s, Told(s)
  PROVE  Describe(SubSeq(s, 1, 1), Tail(s)) = s
<1>1. CASE Len(s) > 1
  BY <1>1, Described
<1>2. CASE ~(Len(s) > 1)
  <2>1. PICK r, u : r = SubSeq(s, 1, 1) /\ u = Tail(s)
    OBVIOUS
  <2>2. Divided(STRING, s, r, u)
    BY <2>1, FirstAndRest DEF Told
  <2>3. Len(s) \in Nat \ {0} /\ Len(u) = Len(s) - 1 /\ u \in Seq(STRING)
    BY <2>2 DEF Divided
  <2>4. u = <<>>
    BY <1>2, <2>3, EmptySeq
  <2> QED BY <1>2, <2>1, <2>4, Described
<1> QED BY <1>1, <1>2

(* A block is read as the transaction it was, its number after its words.   *)
LEMMA BlockIsRead ==
  ASSUME NEW t \in OfxTx, NEW i, form.dates = "long"
  PROVE  OfxTransaction(NormalizeSgml(Block(t, i)))
           = {Tx(t.date, t.text \o <<ToString(i)>>, t.amount)}
<1> PICK D, A, p, m, f, tag, b, c, k, x, y, z :
      /\ c = Printed(t.date) /\ D = <<c>> /\ k = Signed(t.amount) /\ A = <<k>>
      /\ x = SubSeq(t.text, 1, 1) /\ y = Tail(t.text) /\ z = <<ToString(i)>>
      /\ p = Words(x) /\ m = Words(y)
      /\ f = Words(z) /\ tag = DateTag
      /\ b = NormalizeSgml(Block(t, i))
  OBVIOUS
<1>1. Leaves(b, tag, D, A, p, m, f)
  BY LeavesOfBlock
<1>2. tag = "DTPOSTED" \/ tag = "DTUSER"
  BY DEF DateTag
<1> USE DEF Leaves
<1>3. DOMAIN b = 1..5
  BY <1>1
<1>4. ExtractTagValue(b, tag) = {D}
  <2>1. OnlyLeaf(b, tag, 1, D)
    BY <1>1, <1>2 DEF OnlyLeaf
  <2> HIDE DEF Leaves
  <2> QED BY <1>3, <2>1, ValueOfOnly
<1>5. ExtractTagValue(b, "TRNAMT") = {A}
  <2>1. OnlyLeaf(b, "TRNAMT", 2, A)
    BY <1>1, <1>2 DEF OnlyLeaf
  <2> HIDE DEF Leaves
  <2> QED BY <1>3, <2>1, ValueOfOnly
<1>6. ExtractTagValue(b, "NAME") = {p}
  <2>1. OnlyLeaf(b, "NAME", 3, p)
    BY <1>1, <1>2 DEF OnlyLeaf
  <2> HIDE DEF Leaves
  <2> QED BY <1>3, <2>1, ValueOfOnly
<1>7. ExtractTagValue(b, "MEMO") = {m} \/ (ExtractTagValue(b, "MEMO") = {} /\ m = <<>>)
  <2>1. CASE b[4].closed
    <3>1. OnlyLeaf(b, "MEMO", 4, m)
      BY <1>1, <1>2, <2>1 DEF OnlyLeaf
    <3> HIDE DEF Leaves
    <3> QED BY <1>3, <3>1, ValueOfOnly
  <2>2. CASE ~b[4].closed
    <3>1. m = <<>> /\ \A l \in DOMAIN b : ~(b[l].tag = "MEMO" /\ b[l].closed)
      BY <1>1, <1>2, <2>2
    <3> HIDE DEF Leaves
    <3> QED BY <3>1, ValueOfNone
  <2> QED BY <2>1, <2>2
<1>8. ExtractTagValue(b, "FITID") = {f}
  <2>1. OnlyLeaf(b, "FITID", 5, f)
    BY <1>1, <1>2 DEF OnlyLeaf
  <2> HIDE DEF Leaves
  <2> QED BY <1>3, <2>1, ValueOfOnly
<1>9. \/ ExtractTagValue(b, "DTPOSTED") = {D}
      \/ ExtractTagValue(b, "DTPOSTED") = {} /\ ExtractTagValue(b, "DTUSER") = {D}
  <2>1. CASE tag = "DTPOSTED"
    <3> HIDE DEF Leaves
    <3> QED BY <1>4, <2>1
  <2>2. CASE tag = "DTUSER"
    <3>1. \A l \in DOMAIN b : ~(b[l].tag = "DTPOSTED" /\ b[l].closed)
      BY <1>1, <2>2
    <3> HIDE DEF Leaves
    <3>2. ExtractTagValue(b, "DTPOSTED") = {}
      BY <3>1, ValueOfNone
    <3> QED BY <1>4, <2>2, <3>2
  <2> QED BY <1>2, <2>1, <2>2
<1> HIDE DEF Leaves
<1> PICK d, n : d = t.date /\ n = t.amount
  OBVIOUS
<1>10. OfxDate(c) = {d}
  BY LongDateIsRead
<1>11. Amount(k) = {n}
  BY DEF Amount, Signed, Num
<1>12. OfxTransaction(b) = {Tx(d, Describe(Texts(p), Texts(m)) \o Texts(f), n)}
  BY <1>5, <1>6, <1>7, <1>8, <1>9, <1>10, <1>11, TransactionIsRead
<1>13. Told(t.text)
  BY DEF OfxTx
<1>14. Texts(p) = x /\ Texts(m) = y
  BY <1>13, Described, WordsAreRead
<1>15. Texts(f) = z
  <2>1. PICK u : u = ToString(i)
    OBVIOUS
  <2>2. z \in Seq({u})
    BY <2>1
  <2> QED BY <2>2, WordsAreRead
<1>16. Describe(x, y) = t.text
  BY <1>13, NameAndMemo
<1> QED BY <1>12, <1>14, <1>15, <1>16

(* A form of the format and a statement that it can say.                    *)
OfxSays == form.kind = "ofx" /\ form.dates = "long" /\ txs \in Seq(OfxTx) /\ txs # <<>>

OfxRead == OfxSays => StatementIsRead

(* What is read of the file is that statement.                              *)
LEMMA OfxFileIsRead ==
  ASSUME OfxSays
  PROVE  ParseOfx(OfxFile) = {Expected}
<1> PICK n : n = Len(txs)
  OBVIOUS
<1>1. n \in Nat \ {0} /\ DOMAIN txs = 1..n
  BY EmptySeq DEF OfxSays
<1> PICK e : e = Expected
  OBVIOUS
<1> DEFINE one(i) == Tx(txs[i].date, txs[i].text \o <<ToString(i)>>, txs[i].amount)
<1>2. e = [i \in 1..n |-> one(i)]
  <2>1. Expected = [i \in DOMAIN txs |-> [txs[i] EXCEPT !.text = txs[i].text \o <<ToString(i)>>]]
    BY DEF Expected, OfxSays
  <2>2. \A i \in 1..n : e[i] = [txs[i] EXCEPT !.text = txs[i].text \o <<ToString(i)>>]
    BY <1>1, <2>1
  <2>3. ASSUME NEW i \in 1..n
        PROVE  [txs[i] EXCEPT !.text = txs[i].text \o <<ToString(i)>>] = one(i)
    <3>1. PICK w, t : w = txs[i].text \o <<ToString(i)>> /\ t = txs[i]
      OBVIOUS
    <3>2. t \in OfxTx
      BY <1>1, <3>1 DEF OfxSays
    <3>3. [t EXCEPT !.text = w] = Tx(t.date, w, t.amount)
      BY <3>2 DEF OfxTx, Tx
    <3> QED BY <3>1, <3>3
  <2> QED BY <1>1, <2>1, <2>2, <2>3
<1> PICK S : S = {one(i) : i \in 1..n}
  OBVIOUS
<1>a. \A i \in 1..n : one(i) \in S
  OBVIOUS
<1> HIDE DEF one
<1>3. e \in Seq(S) /\ Len(e) = n /\ e # <<>>
  BY <1>1, <1>2, <1>a
<1> DEFINE ss == [i \in DOMAIN OfxFile |-> OfxTransaction(NormalizeSgml(OfxFile[i]))]
<1>4. DOMAIN ss = 1..n /\ \A i \in 1..n : ss[i] = {e[i]}
  <2>1. DOMAIN OfxFile = 1..n /\ \A i \in 1..n : OfxFile[i] = Block(txs[i], i)
    BY <1>1, OfxFileIs
  <2>2. ASSUME NEW i \in 1..n PROVE OfxTransaction(NormalizeSgml(Block(txs[i], i))) = {one(i)}
    <3>1. txs[i] \in OfxTx /\ form.dates = "long"
      BY <1>1 DEF OfxSays
    <3> QED BY <3>1, BlockIsRead DEF one
  <2> QED BY <1>2, <2>1, <2>2
<1> PICK q : q = ss
  OBVIOUS
<1>5. ParseOfx(OfxFile) = {Collect(q)} \ {<<>>}
  BY DEF ParseOfx
<1> HIDE DEF ss
<1>6. Collect(q) = e
  BY <1>3, <1>4, CollectOfOnes
<1> QED BY <1>3, <1>5, <1>6

(* A statement of Open Financial Exchange is read as it was written,        *)
(* whatever its length, in either version, its dates under either tag.      *)
THEOREM OfxIsRead == FileSpec => [](OfxSays => StatementIsRead)
<1>1. FileInit => OfxRead
  BY DEF FileInit, OfxRead, StatementIsRead
<1>2. OfxRead /\ [FileNext]_fileVars => OfxRead'
  <2> SUFFICES ASSUME OfxRead, [FileNext]_fileVars, OfxSays' PROVE StatementIsRead'
    BY DEF OfxRead
  <2>1. CASE UNCHANGED fileVars
    BY <2>1 DEF fileVars, OfxRead, OfxSays, OfxTx, FourDigits, Told, StatementIsRead, Expected
  <2>2. CASE FileNext
    <3>1. form.kind = "ofx" /\ form' = form /\ txs' = txs /\ out' = ParseOfx(OfxFile)
      BY <2>2 DEF FileNext, Read, OfxSays
    <3>2. OfxSays
      BY <3>1 DEF OfxSays, OfxTx, FourDigits, Told
    <3>3. out' = {Expected}
      BY <3>1, <3>2, OfxFileIsRead
    <3>4. Expected' = Expected
      BY <3>1 DEF Expected
    <3> QED BY <3>3, <3>4 DEF StatementIsRead
  <2> QED BY <2>1, <2>2
<1> QED BY <1>1, <1>2, PTL DEF FileSpec, OfxRead

-----------------------------------------------------------------------------
(* Chase's pages, whose rows print no year.                                 *)

(* The days of the statement's period.                                      *)
Period ==
  {d \in Nat \X (1..12) \X (1..31) :
     /\ Opening[1] < d[1] \/ (Opening[1] = d[1] /\ Opening[2] <= d[2])
     /\ d[1] < Closing[1] \/ (d[1] = Closing[1] /\ d[2] <= Closing[2])}

(* The transactions of a statement of that period.                          *)
PeriodTx == [date : Period, text : Seq(STRING), amount : Int]

(* The row of a transaction: its day without a year, words, its amount.     *)
RowOf(l, t) ==
  /\ Len(l) \in Nat /\ Len(l) >= 3
  /\ l[1].cell = Date(<<NoYear, t.date[2], t.date[3]>>)
  /\ Middle(l) = t.text
  /\ Last(l).cell.kind = "num" /\ Last(l).cell.text # "paren"
  /\ Last(l).cell.num = t.amount

(* The month of a day in the period tells its year.                         *)
LEMMA YearOfMonth ==
  ASSUME NEW d \in Period
  PROVE  /\ d = <<d[1], d[2], d[3]>>
         /\ (IF d[2] > Closing[2] THEN Opening[1] ELSE Closing[1]) = d[1]
<1>1. PICK y \in Nat, m \in 1..12, k \in 1..31 : d = <<y, m, k>>
  <2>1. d \in Nat \X (1..12) \X (1..31)
    BY DEF Period
  <2> QED BY <2>1
<1>2. d[1] = y /\ d[2] = m /\ d[3] = k
  BY <1>1
<1> PICK a, b, e, f : a = Opening[1] /\ b = Opening[2] /\ e = Closing[1] /\ f = Closing[2]
  OBVIOUS
<1>3. a \in Nat /\ b \in Nat /\ e \in Nat /\ f \in Nat
  BY ClosingAssumption
<1>4. a <= e /\ e <= a + 1 /\ (a = e => b <= f) /\ (a < e => f < b)
  BY ClosingAssumption
<1>5. (a < y \/ (a = y /\ b <= m)) /\ (y < e \/ (y = e /\ m <= f))
  BY <1>2 DEF Period
<1>6. (IF m > f THEN a ELSE e) = y
  BY <1>3, <1>4, <1>5
<1> QED BY <1>1, <1>2, <1>6

(* What the reader makes of one line.                                       *)
ChaseLine(l) ==
  IF Framed(l, {NoYear})
  THEN LET d == l[1].cell.date
       IN  {Tx(<<IF d[2] > Closing[2] THEN Opening[1] ELSE Closing[1], d[2], d[3]>>,
               Middle(l), Last(l).cell.num)}
  ELSE {}

(* A row is read as the transaction it is of.                               *)
LEMMA RowIsRead ==
  ASSUME NEW u \in PeriodTx, NEW l, RowOf(l, u)
  PROVE  ChaseLine(l) = {u}
<1> PICK d : d = u.date
  OBVIOUS
<1>1. d \in Period
  BY DEF PeriodTx
<1> PICK c, k : k = l[1].cell /\ c = <<NoYear, d[2], d[3]>>
  OBVIOUS
<1>2. k = Date(c)
  BY DEF RowOf
<1>3. k.kind = "date" /\ k.date = c
  BY <1>2, PartsOfDate
<1>4. c[1] = NoYear /\ c[2] = d[2] /\ c[3] = d[3]
  OBVIOUS
<1>5. Framed(l, {NoYear})
  BY <1>3, <1>4 DEF Framed, RowOf
<1>6. ChaseLine(l)
        = {Tx(<<IF c[2] > Closing[2] THEN Opening[1] ELSE Closing[1], c[2], c[3]>>,
              u.text, u.amount)}
  BY <1>3, <1>5 DEF ChaseLine, RowOf
<1>7. <<IF c[2] > Closing[2] THEN Opening[1] ELSE Closing[1], c[2], c[3]>> = d
  BY <1>1, <1>4, YearOfMonth
<1>8. Tx(d, u.text, u.amount) = u
  BY DEF PeriodTx, Tx
<1> QED BY <1>6, <1>7, <1>8

(* Whatever the period of a statement, its rows are read with the years     *)
(* that they do not print.                                                  *)
THEOREM ChaseIsRead ==
  ASSUME NEW t \in Seq(PeriodTx), NEW lines, DOMAIN lines = 1..Len(t),
         \A i \in 1..Len(t) : RowOf(lines[i], t[i])
  PROVE  Chase(lines, TRUE) = t
<1> DEFINE ss == [i \in DOMAIN lines |-> ChaseLine(lines[i])]
<1>1. Chase(lines, TRUE) = Collect(ss)
  BY DEF Chase, ChaseLine
<1>2. ASSUME NEW i \in 1..Len(t) PROVE ChaseLine(lines[i]) = {t[i]}
  <2>1. t[i] \in PeriodTx /\ RowOf(lines[i], t[i])
    OBVIOUS
  <2> QED BY <2>1, RowIsRead
<1>3. DOMAIN ss = 1..Len(t) /\ \A i \in 1..Len(t) : ss[i] = {t[i]}
  BY <1>2
<1> HIDE DEF ss
<1> QED BY <1>1, <1>3, CollectOfOnes

-----------------------------------------------------------------------------
(* Comma-separated values.                                                  *)

(* The scanner between two symbols: the rows, the row and the field so far, *)
(* whether it is inside quotes, and whether the next symbol is the second   *)
(* of two quotes.                                                           *)
St(rows, row, field, q, p) ==
  [rows |-> rows, row |-> row, field |-> field, inQuote |-> q, skip |-> p]
Fresh == St(<<>>, <<>>, <<>>, FALSE, FALSE)

(* The places of a text.                                                    *)
Numbers(text) == [i \in DOMAIN text |-> i]

(* The function that FoldLeft chooses to scan a text.                       *)
Scans(text, d, g, D) ==
  g = [s \in D |-> IF s = {} THEN Fresh ELSE ScanSymbol(text, d, g[s \ {Max(s)}], Numbers(text)[Max(s)])]
Scanned(text, d) == CHOOSE g : Scans(text, d, g, SUBSET DOMAIN text)

(* What the scanner has after k symbols.                                    *)
Upto(text, d, k) == Scanned(text, d)[1..k]

(* There is such a function for every text.                                 *)
LEMMA ScanExists ==
  ASSUME NEW text, NEW d, NEW n \in Nat
  PROVE  \E g : Scans(text, d, g, SUBSET (1..n))
<1> DEFINE G == {k \in Nat : \E g : Scans(text, d, g, SUBSET (1..k))}
<1>1. 0 \in G
  <2> DEFINE g == [s \in SUBSET (1..0) |-> Fresh]
  <2>1. \A s \in SUBSET (1..0) : s = {}
    OBVIOUS
  <2>2. Scans(text, d, g, SUBSET (1..0))
    BY <2>1 DEF Scans
  <2> QED BY <2>2
<1>2. ASSUME NEW k \in Nat, k \in G PROVE k + 1 \in G
  <2>1. PICK g : Scans(text, d, g, SUBSET (1..k))
    BY <1>2
  <2> DEFINE next(s) == IF s = {} THEN Fresh ELSE ScanSymbol(text, d, g[s \ {Max(s)}], Numbers(text)[Max(s)])
             h == [s \in SUBSET (1..(k + 1)) |-> next(s)]
  <2>2. ASSUME NEW s \in SUBSET (1..(k + 1)), s # {}
        PROVE  s \ {Max(s)} \in SUBSET (1..k)
    <3>1. k + 1 \in Nat
      OBVIOUS
    <3>2. Max(s) \in s /\ \A x \in s : x <= Max(s)
      BY <2>2, <3>1, Largest
    <3>3. ASSUME NEW x \in s \ {Max(s)} PROVE x \in 1..k
      <4>1. x \in 1..(k + 1) /\ Max(s) \in 1..(k + 1) /\ x <= Max(s) /\ x # Max(s)
        BY <3>2
      <4> QED BY <4>1
    <3> QED BY <3>3
  <2>3. \A s \in SUBSET (1..k) : s \in SUBSET (1..(k + 1)) /\ g[s] = next(s)
    <3>1. \A s \in SUBSET (1..k) : s \in SUBSET (1..(k + 1))
      OBVIOUS
    <3>2. \A s \in SUBSET (1..k) : g[s] = next(s)
      BY <2>1 DEF Scans
    <3> QED BY <3>1, <3>2
  <2>4. ASSUME NEW s \in SUBSET (1..(k + 1)), s # {}
        PROVE  h[s \ {Max(s)}] = g[s \ {Max(s)}]
    <3> DEFINE r == s \ {Max(s)}
    <3>1. r \in SUBSET (1..k)
      BY <2>2, <2>4
    <3> HIDE DEF r
    <3>2. h[r] = g[r]
      BY <2>3, <3>1
    <3> QED BY <3>2 DEF r
  <2>5. \A s \in SUBSET (1..(k + 1)) :
          h[s] = IF s = {} THEN Fresh ELSE ScanSymbol(text, d, h[s \ {Max(s)}], Numbers(text)[Max(s)])
    BY <2>4
  <2>6. h = [s \in SUBSET (1..(k + 1)) |-> h[s]]
    OBVIOUS
  <2> HIDE DEF h, next
  <2>7. h = [s \in SUBSET (1..(k + 1)) |->
               IF s = {} THEN Fresh ELSE ScanSymbol(text, d, h[s \ {Max(s)}], Numbers(text)[Max(s)])]
    BY <2>5, <2>6
  <2>8. Scans(text, d, h, SUBSET (1..(k + 1)))
    BY <2>7 DEF Scans
  <2> QED BY <2>8
<1> HIDE DEF G
<1>3. \A k \in 0..n : k \in G
  BY <1>1, <1>2, UpTo
<1> QED
  <2>1. n \in 0..n
    OBVIOUS
  <2> QED BY <1>3, <2>1 DEF G

(* The text is read symbol by symbol.                                       *)
LEMMA SymbolBySymbol ==
  ASSUME NEW text, NEW d, NEW n \in Nat, DOMAIN text = 1..n
  PROVE  /\ Upto(text, d, 0) = Fresh
         /\ \A k \in 0..(n - 1) : Upto(text, d, k + 1) = ScanSymbol(text, d, Upto(text, d, k), k + 1)
<1> DEFINE g == Scanned(text, d)
<1>1. Scans(text, d, g, SUBSET (1..n))
  BY ScanExists DEF Scanned
<1> HIDE DEF g
<1>2. \A s \in SUBSET (1..n) :
        g[s] = IF s = {} THEN Fresh ELSE ScanSymbol(text, d, g[s \ {Max(s)}], Numbers(text)[Max(s)])
  BY <1>1 DEF Scans
<1>3. g[1..0] = Fresh
  <2>1. 1..0 = {} /\ {} \in SUBSET (1..n)
    OBVIOUS
  <2> QED BY <1>2, <2>1
<1>4. ASSUME NEW k \in 0..(n - 1)
      PROVE  g[1..(k + 1)] = ScanSymbol(text, d, g[1..k], k + 1)
  <2>1. /\ 1..(k + 1) \in SUBSET (1..n) /\ 1..(k + 1) # {}
        /\ (1..(k + 1)) \ {k + 1} = 1..k /\ Max(1..(k + 1)) = k + 1
    BY OneMore
  <2>2. Numbers(text)[k + 1] = k + 1
    BY DEF Numbers
  <2> QED BY <1>2, <2>1, <2>2
<1> QED BY <1>3, <1>4 DEF Upto, g

(* The rows that are not blank.                                             *)
Blank(row) == \A i \in DOMAIN row : row[i] = <<>>
Filled(rows) == Collect([k \in DOMAIN rows |-> IF Blank(rows[k]) THEN {} ELSE {rows[k]}])

(* The fold over the places of a text is the scanner's function of all.     *)
LEMMA FoldIsScan ==
  ASSUME NEW text, NEW d
  PROVE  FoldLeft(LAMBDA acc, i : ScanSymbol(text, d, acc, i), Fresh, Numbers(text))
           = Scanned(text, d)[DOMAIN text]
<1>1. DOMAIN Numbers(text) = DOMAIN text
  BY DEF Numbers
<1> QED BY <1>1 DEF FoldLeft, MapThenFoldSet, Scanned, Scans

(* A text that ends with a line is read as the rows that are not blank.     *)
LEMMA RowsOfScan ==
  ASSUME NEW text, NEW d, NEW n \in Nat, DOMAIN text = 1..n, NEW rows,
         Upto(text, d, n) = St(rows, <<>>, <<>>, FALSE, FALSE)
  PROVE  ParseRows(text, d) = Filled(rows)
<1>1. FoldLeft(LAMBDA acc, i : ScanSymbol(text, d, acc, i), Fresh, Numbers(text))
        = St(rows, <<>>, <<>>, FALSE, FALSE)
  BY FoldIsScan DEF Upto
<1> PICK s : s = St(rows, <<>>, <<>>, FALSE, FALSE)
  OBVIOUS
<1>2. s.rows = rows /\ s.row = <<>> /\ s.field = <<>>
  BY DEF St
<1>3. FoldLeft(LAMBDA acc, i : ScanSymbol(text, d, acc, i),
             [rows |-> <<>>, row |-> <<>>, field |-> <<>>, inQuote |-> FALSE,
              skip |-> FALSE], [i \in DOMAIN text |-> i]) = s
  BY <1>1 DEF Fresh, St, Numbers
<1> QED BY <1>2, <1>3 DEF ParseRows, Filled, Blank

(* What each symbol does.                                                   *)
Cands == {",", ";", "tab"}
Signs == {",", ";", "tab", "quote", "return", "newline"}
Ordinary(c) == c.kind # "word" \/ c.text \notin Signs

(* The scanner outside quotes, inside them, and between two quotes.         *)
Out(R, W, f) == St(R, W, f, FALSE, FALSE)
In(R, W, f) == St(R, W, f, TRUE, FALSE)
Mid(R, W, f) == St(R, W, f, TRUE, TRUE)

(* A change of one part leaves the others: the field,                       *)
LEMMA WithField == \A R, W, f, q, p, x :
  [St(R, W, f, q, p) EXCEPT !.field = x] = St(R, W, x, q, p)
BY DEF St

(* whether it is inside quotes,                                             *)
LEMMA WithQuote == \A R, W, f, q, p, x :
  [St(R, W, f, q, p) EXCEPT !.inQuote = x] = St(R, W, f, x, p)
BY DEF St

(* whether a symbol is passed over,                                         *)
LEMMA WithSkip == \A R, W, f, q, p, x :
  [St(R, W, f, q, p) EXCEPT !.skip = x] = St(R, W, f, q, x)
BY DEF St

(* the rows,                                                                *)
LEMMA WithRows == \A R, W, f, q, p, x :
  [St(R, W, f, q, p) EXCEPT !.rows = x] = St(x, W, f, q, p)
BY DEF St

(* the row.                                                                 *)
LEMMA WithRow == \A R, W, f, q, p, x :
  [St(R, W, f, q, p) EXCEPT !.row = x] = St(R, x, f, q, p)
BY DEF St

(* The parts of a state of the scanner.                                     *)
LEMMA StateHas == \A R, W, f, q, p, s : s = St(R, W, f, q, p) =>
  s.rows = R /\ s.row = W /\ s.field = f /\ s.inQuote = q /\ s.skip = p
BY DEF St

(* What each change does outside quotes.                                    *)
LEMMA PartsOfOut ==
  ASSUME NEW R, NEW W, NEW f
  PROVE  \A s : s = Out(R, W, f) =>
           /\ s.rows = R /\ s.row = W /\ s.field = f
           /\ ~s.inQuote /\ ~s.skip
           /\ \A x : [s EXCEPT !.field = Append(s.field, x)] = Out(R, W, Append(f, x))
           /\ [s EXCEPT !.inQuote = TRUE] = In(R, W, f)
<1> SUFFICES ASSUME NEW s, s = Out(R, W, f)
    PROVE  /\ s.rows = R /\ s.row = W /\ s.field = f
           /\ ~s.inQuote /\ ~s.skip
           /\ \A x : [s EXCEPT !.field = Append(s.field, x)] = Out(R, W, Append(f, x))
           /\ [s EXCEPT !.inQuote = TRUE] = In(R, W, f)
  OBVIOUS
<1> PICK yes, no : yes = TRUE /\ no = FALSE
  OBVIOUS
<1>0. s = St(R, W, f, no, no) /\ In(R, W, f) = St(R, W, f, yes, no)
      /\ \A x : Out(R, W, x) = St(R, W, x, no, no)
  BY DEF Out, In
<1>1. s.rows = R /\ s.row = W /\ s.field = f /\ s.inQuote = no /\ s.skip = no
  BY <1>0, StateHas
<1>2. ASSUME NEW x PROVE [s EXCEPT !.field = Append(s.field, x)] = Out(R, W, Append(f, x))
  <2> PICK y : y = Append(f, x)
    OBVIOUS
  <2>1. [St(R, W, f, no, no) EXCEPT !.field = y] = St(R, W, y, no, no)
    BY ONLY WithField
  <2>2. [s EXCEPT !.field = y] = Out(R, W, y)
    BY <1>0, <2>1
  <2> QED BY <1>1, <2>2
<1>3. [s EXCEPT !.inQuote = yes] = In(R, W, f)
  <2>1. [St(R, W, f, no, no) EXCEPT !.inQuote = yes] = St(R, W, f, yes, no)
    BY ONLY WithQuote
  <2> QED BY <1>0, <2>1
<1> QED BY <1>1, <1>2, <1>3

(* The end of a field and of a row, outside quotes.                         *)
LEMMA EndsOfOut ==
  ASSUME NEW R, NEW W, NEW f
  PROVE  /\ EndField(Out(R, W, f)) = Out(R, Append(W, f), <<>>)
         /\ EndRow(EndField(Out(R, W, f))) = Out(Append(R, Append(W, f)), <<>>, <<>>)
<1> PICK no, empty : no = FALSE /\ empty = <<>>
  OBVIOUS
<1>1. \A r, w, x : Out(r, w, x) = St(r, w, x, no, no)
  BY DEF Out
<1>2. ASSUME NEW r, NEW w, NEW x PROVE EndField(Out(r, w, x)) = Out(r, Append(w, x), empty)
  <2> PICK y : y = Append(w, x)
    OBVIOUS
  <2> PICK s : s = St(r, w, x, no, no)
    OBVIOUS
  <2>1. [St(r, w, x, no, no) EXCEPT !.row = y] = St(r, y, x, no, no)
    BY ONLY WithRow
  <2>2. [St(r, y, x, no, no) EXCEPT !.field = empty] = St(r, y, empty, no, no)
    BY ONLY WithField
  <2>3. s.row = w /\ s.field = x
    BY StateHas
  <2>4. EndField(s) = [s EXCEPT !.row = Append(s.row, s.field), !.field = empty]
    BY DEF EndField
  <2>5. EndField(s) = [[s EXCEPT !.row = y] EXCEPT !.field = empty]
    BY <2>3, <2>4
  <2> QED BY <1>1, <2>1, <2>2, <2>5
<1>3. ASSUME NEW r, NEW w, NEW x PROVE EndRow(Out(r, w, x)) = Out(Append(r, w), empty, x)
  <2> PICK y : y = Append(r, w)
    OBVIOUS
  <2> PICK s : s = St(r, w, x, no, no)
    OBVIOUS
  <2>1. [St(r, w, x, no, no) EXCEPT !.rows = y] = St(y, w, x, no, no)
    BY ONLY WithRows
  <2>2. [St(y, w, x, no, no) EXCEPT !.row = empty] = St(y, empty, x, no, no)
    BY ONLY WithRow
  <2>3. s.rows = r /\ s.row = w
    BY StateHas
  <2>4. EndRow(s) = [s EXCEPT !.rows = Append(s.rows, s.row), !.row = empty]
    BY DEF EndRow
  <2>5. EndRow(s) = [[s EXCEPT !.rows = y] EXCEPT !.row = empty]
    BY <2>3, <2>4
  <2> QED BY <1>1, <2>1, <2>2, <2>5
<1> QED BY <1>2, <1>3

(* What each change does inside quotes.                                     *)
LEMMA PartsOfIn ==
  ASSUME NEW R, NEW W, NEW f
  PROVE  \A s : s = In(R, W, f) =>
           /\ s.inQuote /\ ~s.skip
           /\ \A x : [s EXCEPT !.field = Append(s.field, x)] = In(R, W, Append(f, x))
           /\ [s EXCEPT !.inQuote = FALSE] = Out(R, W, f)
<1> SUFFICES ASSUME NEW s, s = In(R, W, f)
    PROVE  /\ s.inQuote /\ ~s.skip
           /\ \A x : [s EXCEPT !.field = Append(s.field, x)] = In(R, W, Append(f, x))
           /\ [s EXCEPT !.inQuote = FALSE] = Out(R, W, f)
  OBVIOUS
<1> PICK yes, no : yes = TRUE /\ no = FALSE
  OBVIOUS
<1>0. /\ s = St(R, W, f, yes, no) /\ Out(R, W, f) = St(R, W, f, no, no)
      /\ \A x : In(R, W, x) = St(R, W, x, yes, no)
      /\ \A x : Mid(R, W, x) = St(R, W, x, yes, yes)
  BY DEF Out, In, Mid
<1>1. s.field = f /\ s.inQuote = yes /\ s.skip = no
  <2>1. s = St(R, W, f, yes, no)
    BY <1>0
  <2> QED BY ONLY <2>1, StateHas
<1>2. ASSUME NEW x PROVE [s EXCEPT !.field = Append(s.field, x)] = In(R, W, Append(f, x))
  <2> PICK y : y = Append(f, x)
    OBVIOUS
  <2>1. [St(R, W, f, yes, no) EXCEPT !.field = y] = St(R, W, y, yes, no)
    BY ONLY WithField
  <2>2. [s EXCEPT !.field = y] = In(R, W, y)
    BY <1>0, <2>1
  <2> QED BY <1>1, <2>2
<1>4. [s EXCEPT !.inQuote = no] = Out(R, W, f)
  <2>1. [St(R, W, f, yes, no) EXCEPT !.inQuote = no] = St(R, W, f, no, no)
    BY ONLY WithQuote
  <2> QED BY <1>0, <2>1
<1> QED BY <1>1, <1>2, <1>4

(* Between two quotes the second is passed over.                            *)
LEMMA MidOfIn == \A R, W, f : [In(R, W, f) EXCEPT !.skip = TRUE] = Mid(R, W, f)
<1> SUFFICES ASSUME NEW R, NEW W, NEW f
             PROVE  [In(R, W, f) EXCEPT !.skip = TRUE] = Mid(R, W, f)
  OBVIOUS
<1> PICK yes, no : yes = TRUE /\ no = FALSE
  OBVIOUS
<1>1. [St(R, W, f, yes, no) EXCEPT !.skip = yes] = St(R, W, f, yes, yes)
  BY ONLY WithSkip
<1>2. In(R, W, f) = St(R, W, f, yes, no) /\ Mid(R, W, f) = St(R, W, f, yes, yes)
  BY DEF In, Mid
<1> QED BY <1>1, <1>2

(* What the second of two quotes does.                                      *)
LEMMA PartsOfMid ==
  ASSUME NEW R, NEW W, NEW f
  PROVE  \A s : s = Mid(R, W, f) =>
           s.inQuote /\ s.skip /\ [s EXCEPT !.skip = FALSE] = In(R, W, f)
<1> SUFFICES ASSUME NEW s, s = Mid(R, W, f)
    PROVE  s.inQuote /\ s.skip /\ [s EXCEPT !.skip = FALSE] = In(R, W, f)
  OBVIOUS
<1> PICK yes, no : yes = TRUE /\ no = FALSE
  OBVIOUS
<1>0. s = St(R, W, f, yes, yes) /\ In(R, W, f) = St(R, W, f, yes, no)
  BY DEF In, Mid
<1>1. s.inQuote = yes /\ s.skip = yes
  <2>1. s = St(R, W, f, yes, yes)
    BY <1>0
  <2> QED BY ONLY <2>1, StateHas
<1>2. [St(R, W, f, yes, yes) EXCEPT !.skip = no] = St(R, W, f, yes, no)
  BY ONLY WithSkip
<1> QED BY <1>0, <1>1, <1>2

(* What the scanner does outside quotes.                                    *)
Outside(text, d, s, i) ==
  CASE Is(text[i], "quote") -> [s EXCEPT !.inQuote = TRUE]
    [] Is(text[i], d) -> EndField(s)
    [] Is(text[i], "return") -> s
    [] Is(text[i], "newline") -> EndRow(EndField(s))
    [] OTHER -> [s EXCEPT !.field = Append(@, text[i])]

(* A symbol is scanned so outside quotes.                                   *)
LEMMA ScanOutside ==
  ASSUME NEW text, NEW d, NEW s, NEW i, ~s.skip, ~s.inQuote
  PROVE  ScanSymbol(text, d, s, i) = Outside(text, d, s, i)
BY DEF ScanSymbol, Outside

(* Outside quotes a symbol that is no sign is of the field.                 *)
LEMMA ScanOrdinary ==
  ASSUME NEW text, NEW d \in Cands, NEW i, NEW R, NEW W, NEW f, Ordinary(text[i])
  PROVE  ScanSymbol(text, d, Out(R, W, f), i)
           = Out(R, W, Append(f, text[i]))
<1> PICK s : s = Out(R, W, f)
  OBVIOUS
<1>1. /\ ~s.inQuote /\ ~s.skip
      /\ \A x : [s EXCEPT !.field = Append(s.field, x)] = Out(R, W, Append(f, x))
  BY PartsOfOut
<1>2. \A v \in Signs : ~Is(text[i], v)
  BY DEF Ordinary, Is
<1>3. ~Is(text[i], "quote") /\ ~Is(text[i], d) /\ ~Is(text[i], "return") /\ ~Is(text[i], "newline")
  BY <1>2 DEF Signs, Cands
<1>4. ScanSymbol(text, d, s, i) = [s EXCEPT !.field = Append(s.field, text[i])]
  BY <1>1, <1>3 DEF ScanSymbol
<1> QED BY <1>1, <1>4

(* Inside quotes so is a symbol that is no quote.                           *)
LEMMA ScanQuoted ==
  ASSUME NEW text, NEW d, NEW i, NEW R, NEW W, NEW f, ~Is(text[i], "quote")
  PROVE  ScanSymbol(text, d, In(R, W, f), i)
           = In(R, W, Append(f, text[i]))
<1> PICK s : s = In(R, W, f)
  OBVIOUS
<1>1. /\ s.inQuote /\ ~s.skip
      /\ \A x : [s EXCEPT !.field = Append(s.field, x)] = In(R, W, Append(f, x))
  BY PartsOfIn
<1>2. ScanSymbol(text, d, s, i) = [s EXCEPT !.field = Append(s.field, text[i])]
  BY <1>1 DEF ScanSymbol
<1> QED BY <1>1, <1>2

(* And the first of two quotes, the second of which is passed over.         *)
LEMMA ScanTwoQuotes ==
  ASSUME NEW text, NEW d, NEW i, NEW R, NEW W, NEW f, Is(text[i], "quote"),
         i < Len(text), Is(text[i + 1], "quote")
  PROVE  ScanSymbol(text, d, In(R, W, f), i) = Mid(R, W, Append(f, text[i]))
<1> PICK s : s = In(R, W, f)
  OBVIOUS
<1> PICK c : c = text[i]
  OBVIOUS
<1>0. s.inQuote /\ ~s.skip
  BY PartsOfIn
<1>1. [s EXCEPT !.field = Append(s.field, c)] = In(R, W, Append(f, c))
  <2>1. \A x : [s EXCEPT !.field = Append(s.field, x)] = In(R, W, Append(f, x))
    BY ONLY s = In(R, W, f), PartsOfIn
  <2> QED BY <2>1, Zenon
<1>2. [In(R, W, Append(f, c)) EXCEPT !.skip = TRUE] = Mid(R, W, Append(f, c))
  BY ONLY MidOfIn
<1>3. ScanSymbol(text, d, s, i) = [[s EXCEPT !.field = Append(s.field, c)] EXCEPT !.skip = TRUE]
  BY <1>0 DEF ScanSymbol
<1> QED BY <1>1, <1>2, <1>3

(* The second of two quotes ends the passing over.                          *)
LEMMA ScanSkipped ==
  ASSUME NEW text, NEW d, NEW i, NEW R, NEW W, NEW f
  PROVE  ScanSymbol(text, d, Mid(R, W, f), i) = In(R, W, f)
<1> PICK s : s = Mid(R, W, f)
  OBVIOUS
<1>1. s.skip /\ [s EXCEPT !.skip = FALSE] = In(R, W, f)
  BY PartsOfMid
<1>2. ScanSymbol(text, d, s, i) = [s EXCEPT !.skip = FALSE]
  BY <1>1 DEF ScanSymbol
<1> QED BY <1>1, <1>2

(* A quote opens, and one that stands alone closes.                         *)
LEMMA ScanOpens ==
  ASSUME NEW text, NEW d \in Cands, NEW i, NEW R, NEW W, NEW f, Is(text[i], "quote")
  PROVE  ScanSymbol(text, d, Out(R, W, f), i) = In(R, W, f)
<1> PICK s : s = Out(R, W, f)
  OBVIOUS
<1>0. [s EXCEPT !.inQuote = TRUE] = In(R, W, f)
  BY PartsOfOut
<1>1. ~s.skip /\ ~s.inQuote
  BY PartsOfOut
<1>3. /\ Is(text[i], "quote")
      /\ ~Is(text[i], d) /\ ~Is(text[i], "return") /\ ~Is(text[i], "newline")
  BY DEF Is, Cands
<1>2. ScanSymbol(text, d, s, i) = [s EXCEPT !.inQuote = TRUE]
  <2>1. Outside(text, d, s, i) = [s EXCEPT !.inQuote = TRUE]
    BY ONLY <1>3 DEF Outside
  <2> QED BY <1>1, <2>1, ScanOutside
<1> QED BY <1>0, <1>2

(* A quote that no second one follows closes the quotes.                    *)
LEMMA ScanCloses ==
  ASSUME NEW text, NEW d, NEW i, NEW R, NEW W, NEW f, Is(text[i], "quote"),
         ~Is(text[i + 1], "quote")
  PROVE  ScanSymbol(text, d, In(R, W, f), i) = Out(R, W, f)
<1> PICK s : s = In(R, W, f)
  OBVIOUS
<1>1. /\ ~s.skip /\ s.inQuote
      /\ [s EXCEPT !.inQuote = FALSE] = Out(R, W, f)
  BY PartsOfIn
<1>2. ScanSymbol(text, d, s, i) = [s EXCEPT !.inQuote = FALSE]
  BY <1>1 DEF ScanSymbol
<1> QED BY <1>1, <1>2

(* A delimiter ends a field, a new line a row, and a return is passed over. *)
LEMMA ScanDelimiter ==
  ASSUME NEW text, NEW d \in Cands, NEW i, NEW R, NEW W, NEW f, Is(text[i], d)
  PROVE  ScanSymbol(text, d, Out(R, W, f), i)
           = Out(R, Append(W, f), <<>>)
<1> PICK s : s = Out(R, W, f)
  OBVIOUS
<1>0. EndField(s) = Out(R, Append(W, f), <<>>)
  BY EndsOfOut
<1>1. ~s.skip /\ ~s.inQuote
  BY PartsOfOut
<1>2. ~Is(text[i], "quote") /\ ~Is(text[i], "return") /\ ~Is(text[i], "newline")
  BY DEF Is, Cands
<1>3. ScanSymbol(text, d, s, i) = EndField(s)
  BY <1>1, <1>2 DEF ScanSymbol
<1> QED BY <1>0, <1>3

(* A return changes nothing.                                                *)
LEMMA ScanReturn ==
  ASSUME NEW text, NEW d \in Cands, NEW i, NEW R, NEW W, NEW f, Is(text[i], "return")
  PROVE  ScanSymbol(text, d, Out(R, W, f), i) = Out(R, W, f)
<1> PICK s : s = Out(R, W, f)
  OBVIOUS
<1>1. ~s.skip /\ ~s.inQuote
  BY PartsOfOut
<1>2. ~Is(text[i], "quote") /\ ~Is(text[i], d) /\ ~Is(text[i], "newline")
  BY DEF Is, Cands
<1>4. Is(text[i], "return")
  OBVIOUS
<1>3. ScanSymbol(text, d, s, i) = s
  <2>1. Outside(text, d, s, i) = s
    BY ONLY <1>2, <1>4 DEF Outside
  <2> QED BY <1>1, <2>1, ScanOutside
<1> QED BY <1>3

(* A new line ends the field and the row.                                   *)
LEMMA ScanNewline ==
  ASSUME NEW text, NEW d \in Cands, NEW i, NEW R, NEW W, NEW f, Is(text[i], "newline")
  PROVE  ScanSymbol(text, d, Out(R, W, f), i)
           = Out(Append(R, Append(W, f)), <<>>, <<>>)
<1> PICK s : s = Out(R, W, f)
  OBVIOUS
<1>0. EndRow(EndField(s)) = Out(Append(R, Append(W, f)), <<>>, <<>>)
  BY EndsOfOut
<1>1. ~s.skip /\ ~s.inQuote
  BY PartsOfOut
<1>2. ~Is(text[i], "quote") /\ ~Is(text[i], d) /\ ~Is(text[i], "return")
  BY DEF Is, Cands
<1>3. ScanSymbol(text, d, s, i) = EndRow(EndField(s))
  BY <1>1, <1>2 DEF ScanSymbol
<1> QED BY <1>0, <1>3

-----------------------------------------------------------------------------
(* Where the scanner stands after k symbols; that their quotes are even in  *)
(* number unless it is inside some; and that no sign that could be taken    *)
(* for the delimiter has an even number of them before it.                  *)
Even(text, k) == Before(text, k + 1, "quote") % 2 = 0
Calm(text, d, i) == \A v \in Cands \ {d} : Is(text[i], v) => ~Even(text, i - 1)
Balanced(s) == s.inQuote = s.skip
Stands(text, d, k, s) ==
  /\ Upto(text, d, k) = s
  /\ Even(text, k) <=> Balanced(s)
  /\ \A i \in 1..k : Calm(text, d, i)
Sized(text, n) == n \in Nat /\ DOMAIN text = 1..n /\ Len(text) = n

(* The quotes so far are even outside and between two, odd inside.          *)
LEMMA BalancedStates == \A R, W, f :
  Balanced(Out(R, W, f)) /\ ~Balanced(In(R, W, f)) /\ Balanced(Mid(R, W, f))
BY DEF Balanced, Out, In, Mid, St

(* Before the first symbol there are none.                                  *)
LEMMA EvenAtStart == \A text : Even(text, 0)
<1> SUFFICES ASSUME NEW text PROVE Even(text, 0)
  OBVIOUS
<1>1. {j \in 1..((0 + 1) - 1) : Is(text[j], "quote")} = {}
  OBVIOUS
<1>2. Cardinality({}) = 0
  BY FS_EmptySet
<1> QED BY <1>1, <1>2 DEF Even, Before

(* A quote makes the number odd that was even, and even that was odd.       *)
LEMMA EvenNext ==
  ASSUME NEW text, NEW k \in Nat
  PROVE  Even(text, k + 1) <=> (Even(text, k) <=> ~Is(text[k + 1], "quote"))
<1> DEFINE q == {j \in 1..k : Is(text[j], "quote")}
           r == {j \in 1..(k + 1) : Is(text[j], "quote")}
<1>0. 1..((k + 1) - 1) = 1..k /\ 1..(((k + 1) + 1) - 1) = 1..(k + 1)
  OBVIOUS
<1>1. /\ Even(text, k) <=> Cardinality(q) % 2 = 0
      /\ Even(text, k + 1) <=> Cardinality(r) % 2 = 0
  BY <1>0 DEF Even, Before
<1>2. IsFiniteSet(q) /\ Cardinality(q) \in Nat
  <2>1. IsFiniteSet(1..k)
    BY FS_Interval
  <2>2. IsFiniteSet(q)
    BY <2>1, FS_Subset
  <2> QED BY <2>2, FS_CardinalityType
<1>3. r = IF Is(text[k + 1], "quote") THEN q \cup {k + 1} ELSE q
  OBVIOUS
<1>4. k + 1 \notin q
  OBVIOUS
<1> HIDE DEF q, r
<1>5. Cardinality(q \cup {k + 1}) = Cardinality(q) + 1
  BY <1>2, <1>4, FS_AddElement
<1> QED BY <1>1, <1>2, <1>3, <1>5

(* The scanner stands so before the first symbol.                           *)
LEMMA StandsAtStart ==
  ASSUME NEW text, NEW n, Sized(text, n), NEW d
  PROVE  Stands(text, d, 0, Out(<<>>, <<>>, <<>>))
<1>1. Upto(text, d, 0) = Out(<<>>, <<>>, <<>>)
  BY SymbolBySymbol DEF Sized, Fresh, Out
<1> QED BY <1>1, EvenAtStart, BalancedStates DEF Stands

(* A symbol further.                                                        *)
LEMMA StandsNext ==
  ASSUME NEW text, NEW n, Sized(text, n), NEW d, NEW k \in 0..(n - 1), NEW s,
         Stands(text, d, k, s), NEW r, ScanSymbol(text, d, s, k + 1) = r,
         Is(text[k + 1], "quote") <=> ~(Balanced(s) <=> Balanced(r)),
         ~Balanced(s) \/ \A v \in Cands \ {d} : ~Is(text[k + 1], v)
  PROVE  Stands(text, d, k + 1, r)
<1>1. Upto(text, d, k + 1) = r
  BY SymbolBySymbol DEF Stands, Sized
<1>2. (k + 1) - 1 = k /\ k \in Nat
  BY DEF Sized
<1>3. Calm(text, d, k + 1)
  BY <1>2 DEF Calm, Stands
<1>4. \A i \in 1..(k + 1) : i \in 1..k \/ i = k + 1
  BY <1>2
<1>5. Even(text, k + 1) <=> Balanced(r)
  BY <1>2, EvenNext DEF Stands
<1> QED BY <1>1, <1>3, <1>4, <1>5 DEF Stands

(* How the scanner stands after a symbol that is no sign,                   *)
LEMMA OnOrdinary ==
  ASSUME NEW text, NEW n, Sized(text, n), NEW d \in Cands, NEW k \in 0..(n - 1),
         NEW R, NEW W, NEW f, Stands(text, d, k, Out(R, W, f)), Ordinary(text[k + 1])
  PROVE  Stands(text, d, k + 1, Out(R, W, Append(f, text[k + 1])))
<1>1. ~Is(text[k + 1], "quote") /\ \A v \in Cands : ~Is(text[k + 1], v)
  BY DEF Ordinary, Is, Cands, Signs
<1>2. ScanSymbol(text, d, Out(R, W, f), k + 1) = Out(R, W, Append(f, text[k + 1]))
  BY ScanOrdinary
<1> QED BY <1>1, <1>2, BalancedStates, StandsNext

(* after an opening quote,                                                  *)
LEMMA OnOpening ==
  ASSUME NEW text, NEW n, Sized(text, n), NEW d \in Cands, NEW k \in 0..(n - 1),
         NEW R, NEW W, NEW f, Stands(text, d, k, Out(R, W, f)), Is(text[k + 1], "quote")
  PROVE  Stands(text, d, k + 1, In(R, W, f))
<1>1. \A v \in Cands : ~Is(text[k + 1], v)
  BY DEF Is, Cands
<1>2. ScanSymbol(text, d, Out(R, W, f), k + 1) = In(R, W, f)
  BY ScanOpens
<1> QED BY <1>1, <1>2, BalancedStates, StandsNext

(* after a delimiter,                                                       *)
LEMMA OnDelimiter ==
  ASSUME NEW text, NEW n, Sized(text, n), NEW d \in Cands, NEW k \in 0..(n - 1),
         NEW R, NEW W, NEW f, Stands(text, d, k, Out(R, W, f)), Is(text[k + 1], d)
  PROVE  Stands(text, d, k + 1, Out(R, Append(W, f), <<>>))
<1>1. ~Is(text[k + 1], "quote") /\ \A v \in Cands \ {d} : ~Is(text[k + 1], v)
  BY DEF Is, Cands
<1>2. ScanSymbol(text, d, Out(R, W, f), k + 1) = Out(R, Append(W, f), <<>>)
  BY ScanDelimiter
<1> QED BY <1>1, <1>2, BalancedStates, StandsNext

(* after a return,                                                          *)
LEMMA OnReturn ==
  ASSUME NEW text, NEW n, Sized(text, n), NEW d \in Cands, NEW k \in 0..(n - 1),
         NEW R, NEW W, NEW f, Stands(text, d, k, Out(R, W, f)), Is(text[k + 1], "return")
  PROVE  Stands(text, d, k + 1, Out(R, W, f))
<1>1. ~Is(text[k + 1], "quote") /\ \A v \in Cands : ~Is(text[k + 1], v)
  BY DEF Is, Cands
<1>2. ScanSymbol(text, d, Out(R, W, f), k + 1) = Out(R, W, f)
  BY ScanReturn
<1> QED BY <1>1, <1>2, BalancedStates, StandsNext

(* after a new line,                                                        *)
LEMMA OnNewline ==
  ASSUME NEW text, NEW n, Sized(text, n), NEW d \in Cands, NEW k \in 0..(n - 1),
         NEW R, NEW W, NEW f, Stands(text, d, k, Out(R, W, f)), Is(text[k + 1], "newline")
  PROVE  Stands(text, d, k + 1, Out(Append(R, Append(W, f)), <<>>, <<>>))
<1>1. ~Is(text[k + 1], "quote") /\ \A v \in Cands : ~Is(text[k + 1], v)
  BY DEF Is, Cands
<1>2. ScanSymbol(text, d, Out(R, W, f), k + 1)
        = Out(Append(R, Append(W, f)), <<>>, <<>>)
  BY ScanNewline
<1> QED BY <1>1, <1>2, BalancedStates, StandsNext

(* after a symbol inside quotes,                                            *)
LEMMA OnQuoted ==
  ASSUME NEW text, NEW n, Sized(text, n), NEW d \in Cands, NEW k \in 0..(n - 1),
         NEW R, NEW W, NEW f, Stands(text, d, k, In(R, W, f)), ~Is(text[k + 1], "quote")
  PROVE  Stands(text, d, k + 1, In(R, W, Append(f, text[k + 1])))
<1>2. ScanSymbol(text, d, In(R, W, f), k + 1) = In(R, W, Append(f, text[k + 1]))
  BY ScanQuoted
<1> QED BY <1>2, BalancedStates, StandsNext

(* after two quotes inside quotes,                                          *)
LEMMA OnTwoQuotes ==
  ASSUME NEW text, NEW n, Sized(text, n), NEW d \in Cands, NEW k \in 0..(n - 2),
         NEW R, NEW W, NEW f, Stands(text, d, k, In(R, W, f)), Is(text[k + 1], "quote"),
         Is(text[k + 2], "quote")
  PROVE  Stands(text, d, k + 2, In(R, W, Append(f, text[k + 1])))
<1> PICK g : g = Append(f, text[k + 1])
  OBVIOUS
<1>2. \A v \in Cands : ~Is(text[(k + 1) + 1], v)
  <2>1. (k + 1) + 1 = k + 2
    BY DEF Sized
  <2> QED BY <2>1 DEF Is, Cands
<1>3. k \in 0..(n - 1) /\ k + 1 \in 0..(n - 1) /\ (k + 1) + 1 = k + 2 /\ k + 1 < n /\ n = Len(text)
  BY DEF Sized
<1>4. ScanSymbol(text, d, In(R, W, f), k + 1) = Mid(R, W, g)
  BY <1>3, ScanTwoQuotes
<1>5. Stands(text, d, k + 1, Mid(R, W, g))
  BY <1>3, <1>4, BalancedStates, StandsNext
<1>6. ScanSymbol(text, d, Mid(R, W, g), (k + 1) + 1) = In(R, W, g)
  BY ScanSkipped
<1>7. Stands(text, d, (k + 1) + 1, In(R, W, g))
  BY <1>2, <1>3, <1>5, <1>6, BalancedStates, StandsNext
<1> QED BY <1>3, <1>7

(* and after a closing quote.                                               *)
LEMMA OnClosing ==
  ASSUME NEW text, NEW n, Sized(text, n), NEW d \in Cands, NEW k \in 0..(n - 1),
         NEW R, NEW W, NEW f, Stands(text, d, k, In(R, W, f)), Is(text[k + 1], "quote"),
         ~Is(text[k + 2], "quote")
  PROVE  Stands(text, d, k + 1, Out(R, W, f))
<1>2. (k + 1) + 1 = k + 2
  BY DEF Sized
<1>3. ScanSymbol(text, d, In(R, W, f), k + 1) = Out(R, W, f)
  BY <1>2, ScanCloses
<1> QED BY <1>3, BalancedStates, StandsNext

-----------------------------------------------------------------------------
(* A field.                                                                 *)

(* A part of a text.                                                        *)
Piece(text, o, p) == \A j \in 1..Len(p) : text[o + j] = p[j]

(* The first k of a sequence, and one more.                                 *)
FirstOf(p, k) == [j \in 1..k |-> p[j]]

(* The first elements and the next one are one more.                        *)
LEMMA FirstAndNext ==
  ASSUME NEW S, NEW p \in Seq(S), NEW k \in 0..(Len(p) - 1)
  PROVE  Append(FirstOf(p, k), p[k + 1]) = FirstOf(p, k + 1)
<1> PICK a : a = FirstOf(p, k)
  OBVIOUS
<1>1. k \in Nat /\ k + 1 \in 1..Len(p) /\ \A j \in 1..k : j \in 1..Len(p)
  OBVIOUS
<1>2. a \in Seq(S) /\ Len(a) = k /\ \A j \in 1..k : a[j] = p[j]
  BY <1>1 DEF FirstOf
<1> PICK e : e = p[k + 1]
  OBVIOUS
<1>3. e \in S
  BY <1>1
<1>4. Append(a, e) = [j \in 1..(k + 1) |-> p[j]]
  BY <1>1, <1>2, <1>3
<1> QED BY <1>4 DEF FirstOf

(* None of them are nothing, and all of them are the sequence.              *)
LEMMA FirstOfAll ==
  ASSUME NEW S, NEW p \in Seq(S)
  PROVE  FirstOf(p, 0) = <<>> /\ FirstOf(p, Len(p)) = p
BY DEF FirstOf

(* A field without signs is read as it is.                                  *)
LEMMA PlainField ==
  ASSUME NEW text, NEW n, Sized(text, n), NEW d \in Cands, NEW R, NEW W,
         NEW S, NEW p \in Seq(S), NEW o \in Nat, o + Len(p) <= n, Piece(text, o, p),
         \A j \in 1..Len(p) : Ordinary(p[j]),
         Stands(text, d, o, Out(R, W, <<>>))
  PROVE  Stands(text, d, o + Len(p), Out(R, W, p))
<1> PICK m : m = Len(p)
  OBVIOUS
<1>0. m \in Nat /\ n \in Nat /\ o + m <= n
  BY DEF Sized
<1> DEFINE G == {k \in Nat : k <= m => Stands(text, d, o + k, Out(R, W, FirstOf(p, k)))}
<1>1. 0 \in G
  BY FirstOfAll
<1>2. ASSUME NEW k \in Nat, k \in G PROVE k + 1 \in G
  <2> SUFFICES ASSUME k + 1 <= m
               PROVE  Stands(text, d, o + (k + 1), Out(R, W, FirstOf(p, k + 1)))
    OBVIOUS
  <2>1. /\ k <= m /\ k + 1 \in 1..m /\ k \in 0..(m - 1)
        /\ o + k \in 0..(n - 1) /\ (o + k) + 1 = o + (k + 1)
    BY <1>0
  <2>2. Stands(text, d, o + k, Out(R, W, FirstOf(p, k)))
    BY <1>2, <2>1
  <2> HIDE DEF G
  <2>3. text[(o + k) + 1] = p[k + 1] /\ Ordinary(p[k + 1])
    BY <2>1 DEF Piece
  <2>4. Stands(text, d, (o + k) + 1, Out(R, W, Append(FirstOf(p, k), p[k + 1])))
    BY <2>1, <2>2, <2>3, OnOrdinary
  <2> QED BY <2>1, <2>4, FirstAndNext
<1> HIDE DEF G
<1>3. m \in G
  BY <1>0, <1>1, <1>2, Counting
<1> QED BY <1>0, <1>3, FirstOfAll DEF G

(* A word's cell.                                                           *)
LEMMA PartsOfWord == \A w : Word(w).kind = "word" /\ Word(w).text = w
BY DEF Word

(* The cells of words.                                                      *)
Wording(T) == {Word(x) : x \in T}

(* Words are a cell each.                                                   *)
LEMMA CellsOfWords ==
  ASSUME NEW T, NEW e \in Seq(T)
  PROVE  /\ Words(e) \in Seq(Wording(T)) /\ Len(Words(e)) = Len(e) /\ Len(e) \in Nat
         /\ \A j \in 1..Len(e) : Words(e)[j] = Word(e[j])
<1> PICK m : m = Len(e)
  OBVIOUS
<1>1. m \in Nat /\ Words(e) = [i \in 1..m |-> Word(e[i])]
  BY DEF Words
<1>2. \A i \in 1..m : Word(e[i]) \in Wording(T)
  BY DEF Wording
<1> QED BY <1>1, <1>2

(* Where a word of such a field stands.                                     *)
LEMMA Places ==
  ASSUME NEW o \in Nat, NEW a \in Nat, NEW l \in Nat, NEW n \in Nat, o + (l + 2) <= n
  PROVE  /\ (o + 1 + a) + 1 = o + (1 + (a + 1)) /\ (o + 1 + a) + 2 = o + (1 + (a + 2))
         /\ a + 1 <= l => o + 1 + a \in 0..(n - 1) /\ (o + 1 + a) + 1 = o + 1 + (a + 1)
         /\ a + 2 <= l => o + 1 + a \in 0..(n - 2) /\ (o + 1 + a) + 2 = o + 1 + (a + 2)
OBVIOUS

(* The words of a field with their quotes doubled.                          *)
Doubles(w) == [i \in DOMAIN w |-> IF w[i] = "quote" THEN <<"quote", "quote">> ELSE <<w[i]>>]
InQuotes(w) == <<Word("quote")>> \o Words(FlattenSeq(Doubles(w))) \o <<Word("quote")>>

(* What stands where in such a field.                                       *)
LEMMA QuotedShape ==
  ASSUME NEW T, "quote" \in T, NEW w \in Seq(T), Len(w) # 0, NEW e, e = FlattenSeq(Doubles(w)),
         NEW p, p = InQuotes(w)
  PROVE  /\ e \in Seq(T) /\ Laid(e, Doubles(w), Len(w))
         /\ Len(e) \in Nat /\ Len(p) = Len(e) + 2
         /\ p[1] = Word("quote") /\ p[Len(e) + 2] = Word("quote")
         /\ \A j \in 1..Len(e) : p[1 + j] = Word(e[j])
<1> PICK m : m = Len(w)
  OBVIOUS
<1>1. m \in Nat \ {0} /\ w \in [1..m -> T]
  OBVIOUS
<1>2. Doubles(w) \in [1..m -> Seq(T)]
  <2> PICK one : one = "quote"
    OBVIOUS
  <2> PICK two : two = <<one, one>>
    OBVIOUS
  <2>1. two \in Seq(T)
    <3>1. one \in T
      OBVIOUS
    <3> QED BY <3>1
  <2>2. \A i \in 1..m : <<w[i]>> \in Seq(T)
    BY <1>1
  <2>3. Doubles(w) = [i \in 1..m |-> IF w[i] = "quote" THEN two ELSE <<w[i]>>]
    BY <1>1 DEF Doubles
  <2> QED BY <2>1, <2>2, <2>3
<1>3. e \in Seq(T) /\ Laid(e, Doubles(w), m)
  BY <1>1, <1>2, FlattenAt
<1> PICK c, S : c = Word("quote") /\ S = Wording(T)
  OBVIOUS
<1> PICK v : v = Words(e)
  OBVIOUS
<1>4. /\ c \in S /\ v \in Seq(S) /\ Len(v) = Len(e) /\ Len(e) \in Nat
      /\ \A j \in 1..Len(e) : v[j] = Word(e[j])
  <2>1. c \in S
    <3>1. \A x \in T : Word(x) \in Wording(T)
      BY DEF Wording
    <3> QED BY <3>1
  <2> QED BY <1>3, <2>1, CellsOfWords
<1>5. p = <<c>> \o v \o <<c>>
  BY DEF InQuotes
<1> HIDE DEF Word
<1>6. /\ Len(p) = Len(v) + 2 /\ p[1] = c /\ p[Len(v) + 2] = c
      /\ \A j \in 1..Len(v) : p[1 + j] = v[j]
  <2> PICK l, a : l = <<c>> /\ a = l \o v
    OBVIOUS
  <2>1. l \in Seq(S) /\ Len(l) = 1 /\ l[1] = c
    BY <1>4
  <2>2. a \in Seq(S) /\ Followed(a, l, v)
    BY <1>4, <2>1, Concats
  <2>3. p = a \o l
    BY <1>5
  <2>4. Followed(p, a, l)
    BY <2>1, <2>2, <2>3, Concats
  <2>5. /\ Len(a) = Len(v) + 1 /\ Len(p) = Len(v) + 2 /\ 1 \in 1..Len(a) /\ 1 \in 1..Len(l)
        /\ Len(v) \in Nat
    BY <2>1, <2>2, <2>4 DEF Followed
  <2>6. p[1] = c /\ p[Len(a) + 1] = c
    BY <2>1, <2>2, <2>4, <2>5 DEF Followed
  <2>7. ASSUME NEW j \in 1..Len(v) PROVE p[1 + j] = v[j]
    <3>1. 1 + j \in 1..Len(a)
      BY <2>5
    <3>2. a[1 + j] = v[j]
      BY <2>1, <2>2 DEF Followed
    <3>3. p[1 + j] = a[1 + j]
      BY <2>4, <3>1 DEF Followed
    <3> QED BY <3>2, <3>3
  <2>8. Len(a) + 1 = Len(v) + 2
    BY <2>5
  <2> QED BY <2>5, <2>6, <2>7, <2>8
<1> QED BY <1>3, <1>4, <1>6

(* The words of a quoted field are read, whatever they are.                 *)
LEMMA QuotedWords ==
  ASSUME NEW text, NEW n, Sized(text, n), NEW d \in Cands, NEW R, NEW W,
         NEW T, "quote" \in T, NEW w \in Seq(T), Len(w) # 0, NEW p, p = InQuotes(w),
         NEW o \in Nat, o + Len(p) <= n, Piece(text, o, p),
         ~Is(text[o + Len(p) + 1], "quote"),
         Stands(text, d, o, Out(R, W, <<>>))
  PROVE  Stands(text, d, o + Len(p), Out(R, W, Words(w)))
<1> PICK m, q, e, v : m = Len(w) /\ q = Doubles(w) /\ e = FlattenSeq(q) /\ v = Words(w)
  OBVIOUS
<1>0. /\ e \in Seq(T) /\ Laid(e, q, m)
      /\ Len(e) \in Nat /\ Len(p) = Len(e) + 2
      /\ p[1] = Word("quote") /\ p[Len(e) + 2] = Word("quote")
      /\ \A j \in 1..Len(e) : p[1 + j] = Word(e[j])
  BY QuotedShape
<1>1. m \in Nat /\ n \in Nat /\ o + (Len(e) + 2) <= n
  BY <1>0 DEF Sized
<1> PICK S : S = Wording(T)
  OBVIOUS
<1>2. v \in Seq(S) /\ Len(v) = m /\ \A j \in 1..m : v[j] = Word(w[j])
  BY CellsOfWords
<1>3. /\ text[o + 1] = Word("quote")
      /\ \A j \in 1..Len(e) : text[o + (1 + j)] = Word(e[j])
      /\ text[o + (Len(e) + 2)] = Word("quote")
  <2>1. 1 \in 1..Len(p) /\ Len(e) + 2 \in 1..Len(p) /\ \A j \in 1..Len(e) : 1 + j \in 1..Len(p)
    BY <1>0
  <2>2. \A j \in 1..Len(p) : text[o + j] = p[j]
    BY DEF Piece
  <2> QED BY <1>0, <2>1, <2>2
<1> DEFINE place(k) == o + 1 + Offset(q, k)
           G == {k \in Nat : k <= m => Stands(text, d, place(k), In(R, W, FirstOf(v, k)))}
<1>4. 0 \in G
  <2>1. Stands(text, d, o + 1, In(R, W, <<>>))
    <3>1. o \in 0..(n - 1)
      BY <1>0, <1>1
    <3>2. Is(text[o + 1], "quote")
      BY <1>3, PartsOfWord DEF Is
    <3> QED BY <3>1, <3>2, OnOpening
  <2>2. place(0) = o + 1
    BY DEF Offset
  <2>3. FirstOf(v, 0) = <<>>
    BY <1>2, FirstOfAll
  <2> QED BY <2>1, <2>2, <2>3
<1>5. ASSUME NEW k \in Nat, k \in G PROVE k + 1 \in G
  <2> SUFFICES ASSUME k + 1 <= m
               PROVE  Stands(text, d, place(k + 1), In(R, W, FirstOf(v, k + 1)))
    OBVIOUS
  <2>1. k <= m /\ k + 1 \in 1..m /\ k \in 0..(m - 1) /\ k + 1 \in 0..m /\ k \in 0..m
    BY <1>1
  <2>2. Stands(text, d, place(k), In(R, W, FirstOf(v, k)))
    BY <1>5, <2>1
  <2> HIDE DEF G
  <2> PICK a : a = Offset(q, k)
    OBVIOUS
  <2>3. /\ a \in 0..Len(e) /\ Offset(q, k + 1) \in 0..Len(e)
        /\ Offset(q, k + 1) = a + Len(q[k + 1])
        /\ \A j \in 1..Len(q[k + 1]) : e[a + j] = q[k + 1][j]
    BY <1>0, <2>1 DEF Laid
  <2>4. q[k + 1] = IF w[k + 1] = "quote" THEN <<"quote", "quote">> ELSE <<w[k + 1]>>
    BY <2>1 DEF Doubles
  <2>5. Append(FirstOf(v, k), Word(w[k + 1])) = FirstOf(v, k + 1)
    BY <1>2, <2>1, FirstAndNext
  <2>6. CASE w[k + 1] = "quote"
    <3>1. Len(q[k + 1]) = 2 /\ q[k + 1][1] = "quote" /\ q[k + 1][2] = "quote"
      BY <2>4, <2>6
    <3>2. a + 1 \in 1..Len(e) /\ a + 2 \in 1..Len(e) /\ a \in Nat
      <4> PICK l : l = Len(e)
        OBVIOUS
      <4>1. l \in Nat /\ a \in 0..l /\ a + 2 \in 0..l
        BY <1>0, <2>3, <3>1
      <4> QED BY ONLY <4>1, l = Len(e)
    <3>3. e[a + 1] = "quote" /\ e[a + 2] = "quote"
      <4>1. 1 \in 1..Len(q[k + 1]) /\ 2 \in 1..Len(q[k + 1])
        BY ONLY <3>1
      <4> QED BY ONLY <2>3, <3>1, <4>1
    <3>4. o + 1 + a \in 0..(n - 2) /\ place(k + 1) = (o + 1 + a) + 2
      <4>1. Offset(q, k + 1) = a + 2 /\ a + 2 <= Len(e)
        BY <1>0, <2>3, <3>1, <3>2
      <4>2. place(k + 1) = o + 1 + Offset(q, k + 1)
        OBVIOUS
      <4>3. o + 1 + a \in 0..(n - 2) /\ (o + 1 + a) + 2 = o + 1 + (a + 2)
        <5>1. Len(e) \in Nat /\ n \in Nat /\ a \in Nat /\ o + (Len(e) + 2) <= n
          BY <1>0, <1>1, <3>2
        <5>2. a + 2 <= Len(e)
          BY <4>1
        <5> QED BY ONLY <5>1, <5>2, o \in Nat, Places
      <4> QED BY ONLY <4>1, <4>2, <4>3
    <3>5. text[(o + 1 + a) + 1] = Word("quote") /\ text[(o + 1 + a) + 2] = Word("quote")
      <4>1. (o + 1 + a) + 1 = o + (1 + (a + 1)) /\ (o + 1 + a) + 2 = o + (1 + (a + 2))
        <5>1. Len(e) \in Nat /\ n \in Nat /\ a \in Nat /\ o + (Len(e) + 2) <= n
          BY <1>0, <1>1, <3>2
        <5> QED BY ONLY <5>1, o \in Nat, Places
      <4> QED BY <1>3, <3>2, <3>3, <4>1
    <3>6. Is(text[(o + 1 + a) + 1], "quote") /\ Is(text[(o + 1 + a) + 2], "quote")
      BY <3>5, PartsOfWord DEF Is
    <3>7. Stands(text, d, (o + 1 + a) + 2,
                 In(R, W, Append(FirstOf(v, k), text[(o + 1 + a) + 1])))
      BY <2>2, <3>4, <3>6, OnTwoQuotes
    <3> QED BY <2>5, <2>6, <3>4, <3>5, <3>7
  <2>7. CASE w[k + 1] # "quote"
    <3>1. Len(q[k + 1]) = 1 /\ q[k + 1][1] = w[k + 1]
      BY <2>4, <2>7
    <3>2. a + 1 \in 1..Len(e) /\ a \in Nat
      BY <1>0, <2>3, <3>1
    <3>3. e[a + 1] = w[k + 1]
      BY <2>3, <3>1
    <3>4. o + 1 + a \in 0..(n - 1) /\ place(k + 1) = (o + 1 + a) + 1
      <4>1. Offset(q, k + 1) = a + 1 /\ a + 1 <= Len(e)
        BY <1>0, <2>3, <3>1, <3>2
      <4>2. place(k + 1) = o + 1 + Offset(q, k + 1)
        OBVIOUS
      <4>3. o + 1 + a \in 0..(n - 1) /\ (o + 1 + a) + 1 = o + 1 + (a + 1)
        <5>1. Len(e) \in Nat /\ n \in Nat /\ a \in Nat /\ o + (Len(e) + 2) <= n
          BY <1>0, <1>1, <3>2
        <5>2. a + 1 <= Len(e)
          BY <4>1
        <5> QED BY ONLY <5>1, <5>2, o \in Nat, Places
      <4> QED BY ONLY <4>1, <4>2, <4>3
    <3>5. text[(o + 1 + a) + 1] = Word(w[k + 1])
      <4>1. (o + 1 + a) + 1 = o + (1 + (a + 1))
        <5>1. Len(e) \in Nat /\ n \in Nat /\ a \in Nat /\ o + (Len(e) + 2) <= n
          BY <1>0, <1>1, <3>2
        <5> QED BY ONLY <5>1, o \in Nat, Places
      <4> QED BY <1>3, <3>2, <3>3, <4>1
    <3>6. ~Is(text[(o + 1 + a) + 1], "quote")
      BY <2>7, <3>5, PartsOfWord DEF Is
    <3>7. Stands(text, d, (o + 1 + a) + 1,
                 In(R, W, Append(FirstOf(v, k), text[(o + 1 + a) + 1])))
      BY <2>2, <3>4, <3>6, OnQuoted
    <3> QED BY <2>5, <3>4, <3>5, <3>7
  <2> QED BY <2>6, <2>7
<1>6. Stands(text, d, o + 1 + Len(e), In(R, W, v))
  <2> HIDE DEF G, place
  <2>1. m \in G
    BY <1>1, <1>4, <1>5, Counting
  <2>2. place(m) = o + 1 + Len(e)
    BY <1>0 DEF place, Laid
  <2> QED BY <1>1, <1>2, <2>1, <2>2, FirstOfAll DEF G
<1>7. /\ o + 1 + Len(e) \in 0..(n - 1) /\ (o + 1 + Len(e)) + 1 = o + (Len(e) + 2)
      /\ (o + 1 + Len(e)) + 2 = o + Len(p) + 1 /\ o + Len(p) = o + (Len(e) + 2)
  BY <1>0, <1>1
<1>8. Is(text[(o + 1 + Len(e)) + 1], "quote")
  BY <1>3, <1>7, PartsOfWord DEF Is
<1>9. Stands(text, d, (o + 1 + Len(e)) + 1, Out(R, W, v))
  BY <1>6, <1>7, <1>8, OnClosing
<1> QED BY <1>7, <1>9

(* A field is read if what is written is its content, without signs, or its *)
(* words between quotes.                                                    *)
Writes(T, p, v) ==
  \/ p = v /\ \A j \in 1..Len(p) : Ordinary(p[j])
  \/ \E w \in Seq(T) : Len(w) # 0 /\ p = InQuotes(w) /\ v = Words(w)

(* A field that is written in either way is read.                           *)
LEMMA FieldIsRead ==
  ASSUME NEW text, NEW n, Sized(text, n), NEW d \in Cands, NEW R, NEW W,
         NEW T, "quote" \in T, NEW S, NEW p \in Seq(S), NEW v, Writes(T, p, v),
         NEW o \in Nat, o + Len(p) <= n, Piece(text, o, p),
         ~Is(text[o + Len(p) + 1], "quote"),
         Stands(text, d, o, Out(R, W, <<>>))
  PROVE  Stands(text, d, o + Len(p), Out(R, W, v))
<1>1. CASE p = v /\ \A j \in 1..Len(p) : Ordinary(p[j])
  BY <1>1, PlainField
<1>2. CASE \E w \in Seq(T) : Len(w) # 0 /\ p = InQuotes(w) /\ v = Words(w)
  <2>1. PICK w \in Seq(T) : Len(w) # 0 /\ p = InQuotes(w) /\ v = Words(w)
    BY <1>2
  <2> QED BY <2>1, QuotedWords
<1> QED BY <1>1, <1>2 DEF Writes

-----------------------------------------------------------------------------
(* A row.                                                                   *)

(* The fields' texts with the delimiter between them, and the row's end.    *)
Parted(d, P, m) == [c \in 1..m |-> (IF c = 1 THEN <<>> ELSE <<Word(d)>>) \o P[c]]
Ending == <<Word("return"), Word("newline")>>
RowText(d, P, m) == FlattenSeq(Parted(d, P, m)) \o Ending

(* Where each field begins, and what stands after it.                       *)
Row(r, d, P, m, g) ==
  /\ g[1] = 0 /\ \A c \in 1..m : g[c] \in Nat /\ Len(P[c]) \in Nat
  /\ \A c \in 1..m : g[c] + Len(P[c]) + 2 <= Len(r) /\ Piece(r, g[c], P[c])
  /\ \A c \in 1..(m - 1) : /\ g[c + 1] = g[c] + Len(P[c]) + 1
                           /\ r[g[c] + Len(P[c]) + 1] = Word(d)
  /\ r[g[m] + Len(P[m]) + 1] = Word("return")
  /\ r[g[m] + Len(P[m]) + 2] = Word("newline")
  /\ Len(r) \in Nat /\ Len(r) = g[m] + Len(P[m]) + 2

(* The first field stands alone, and a delimiter before each other one.     *)
LEMMA PartedAt ==
  ASSUME NEW S, NEW d, Word(d) \in S, NEW m \in Nat \ {0}, NEW P \in [1..m -> Seq(S)]
  PROVE  /\ Parted(d, P, m) \in [1..m -> Seq(S)]
         /\ Parted(d, P, m)[1] = P[1]
         /\ \A c \in 2..m : /\ Len(Parted(d, P, m)[c]) = Len(P[c]) + 1
                            /\ Parted(d, P, m)[c][1] = Word(d)
                            /\ \A j \in 1..Len(P[c]) : Parted(d, P, m)[c][1 + j] = P[c][j]
<1> PICK l : l = <<Word(d)>>
  OBVIOUS
<1> HIDE DEF Word
<1>1. l \in Seq(S) /\ Len(l) = 1 /\ l[1] = Word(d)
  OBVIOUS
<1>2. 1 \in 1..m /\ \A c \in 1..m : P[c] \in Seq(S) /\ <<>> \o P[c] = P[c]
  OBVIOUS
<1>3. \A c \in 1..m : l \o P[c] \in Seq(S) /\ Followed(l \o P[c], l, P[c])
  BY <1>1, <1>2, Concats
<1> PICK q : q = Parted(d, P, m)
  OBVIOUS
<1>4. q = [c \in 1..m |-> IF c = 1 THEN P[c] ELSE l \o P[c]]
  BY <1>2 DEF Parted
<1>5. q \in [1..m -> Seq(S)] /\ q[1] = P[1]
  BY <1>2, <1>3, <1>4
<1>6. ASSUME NEW c \in 2..m
      PROVE  /\ Len(q[c]) = Len(P[c]) + 1 /\ q[c][1] = Word(d)
             /\ \A j \in 1..Len(P[c]) : q[c][1 + j] = P[c][j]
  <2>1. c \in 1..m /\ q[c] = l \o P[c]
    BY <1>4
  <2>2. Followed(q[c], l, P[c])
    BY <1>3, <2>1
  <2>3. Len(q[c]) = Len(P[c]) + 1
    BY <1>1, <2>2 DEF Followed
  <2>4. 1 \in 1..Len(l)
    BY <1>1
  <2> QED BY <1>1, <2>2, <2>3, <2>4 DEF Followed
<1> QED BY <1>5, <1>6

(* A row that is written has its fields in their places.                    *)
LEMMA RowShape ==
  ASSUME NEW S, NEW d, Word(d) \in S, Word("return") \in S, Word("newline") \in S,
         NEW m \in Nat \ {0}, NEW P \in [1..m -> Seq(S)], NEW r, r = RowText(d, P, m)
  PROVE  r \in Seq(S) /\ \E g : Row(r, d, P, m, g)
<1> PICK q, e, z : q = Parted(d, P, m) /\ e = FlattenSeq(q) /\ z = Ending
  OBVIOUS
<1>1. /\ q \in [1..m -> Seq(S)] /\ q[1] = P[1]
      /\ \A c \in 2..m : /\ Len(q[c]) = Len(P[c]) + 1 /\ q[c][1] = Word(d)
                         /\ \A j \in 1..Len(P[c]) : q[c][1 + j] = P[c][j]
  BY PartedAt
<1>2. e \in Seq(S) /\ Laid(e, q, m)
  BY <1>1, FlattenAt
<1>3. z \in Seq(S) /\ Len(z) = 2 /\ z[1] = Word("return") /\ z[2] = Word("newline")
  BY DEF Ending
<1>4. r = e \o z
  BY DEF RowText
<1>5. r \in Seq(S) /\ Followed(r, e, z)
  BY <1>2, <1>3, <1>4, Concats
<1>6. /\ Len(e) \in Nat /\ Len(r) = Len(e) + 2 /\ Len(r) \in Nat
      /\ \A j \in 1..Len(e) : r[j] = e[j]
      /\ r[Len(e) + 1] = Word("return") /\ r[Len(e) + 2] = Word("newline")
  <2>1. 1 \in 1..Len(z) /\ 2 \in 1..Len(z)
    BY <1>3
  <2> QED BY <1>3, <1>5, <2>1 DEF Followed
<1> DEFINE g == [c \in 1..m |-> IF c = 1 THEN 0 ELSE Offset(q, c - 1) + 1]
<1>7. ASSUME NEW c \in 1..m
      PROVE  /\ g[c] \in Nat /\ Len(P[c]) \in Nat /\ Offset(q, c) = g[c] + Len(P[c])
             /\ Offset(q, c) \in 0..Len(e)
             /\ \A j \in 1..Len(P[c]) : e[g[c] + j] = P[c][j]
             /\ c # 1 => e[g[c]] = Word(d)
  <2>1. Offset(q, 0) = 0
    BY DEF Offset
  <2> PICK b : b = c - 1
    OBVIOUS
  <2>2. b \in 0..(m - 1) /\ b \in 0..m /\ c \in 0..m /\ b + 1 = c /\ Len(P[c]) \in Nat
    OBVIOUS
  <2>3. /\ Offset(q, c - 1) \in 0..Len(e) /\ Offset(q, c) \in 0..Len(e)
        /\ Offset(q, c) = Offset(q, c - 1) + Len(q[c])
        /\ \A j \in 1..Len(q[c]) : e[Offset(q, c - 1) + j] = q[c][j]
    <3>1. Offset(q, b) \in 0..Len(e) /\ Offset(q, c) \in 0..Len(e)
      BY <1>2, <2>2 DEF Laid
    <3>2. /\ Offset(q, b + 1) = Offset(q, b) + Len(q[b + 1])
          /\ \A j \in 1..Len(q[b + 1]) : e[Offset(q, b) + j] = q[b + 1][j]
      BY <1>2, <2>2 DEF Laid
    <3> QED BY <2>2, <3>1, <3>2
  <2>4. CASE c = 1
    <3>1. g[c] = 0 /\ c - 1 = 0
      BY <2>4
    <3>2. q[c] = P[c] /\ Offset(q, c - 1) = 0
      BY <1>1, <2>1, <2>4, <3>1
    <3> QED BY <2>2, <2>3, <2>4, <3>1, <3>2
  <2>5. CASE c # 1
    <3>1. c \in 2..m
      BY <2>5
    <3>2. /\ Len(q[c]) = Len(P[c]) + 1 /\ q[c][1] = Word(d)
          /\ \A j \in 1..Len(P[c]) : q[c][1 + j] = P[c][j]
      BY <1>1, <3>1
    <3>3. g[c] = Offset(q, c - 1) + 1 /\ Offset(q, c - 1) \in Nat
      BY <1>6, <2>3, <2>5
    <3>4. Offset(q, c) = g[c] + Len(P[c])
      BY <2>2, <2>3, <3>2, <3>3
    <3>5. ASSUME NEW j \in 1..Len(P[c]) PROVE e[g[c] + j] = P[c][j]
      <4> PICK a, l, u, x :
            a = Offset(q, c - 1) /\ l = Len(P[c]) /\ u = g[c] /\ x = Len(q[c])
        OBVIOUS
      <4>0. a \in Nat /\ l \in Nat /\ u = a + 1 /\ x = l + 1 /\ j \in 1..l
        BY <2>2, <3>2, <3>3
      <4>1. 1 + j \in 1..x /\ u + j = a + (1 + j)
        BY ONLY <4>0
      <4>2. e[a + (1 + j)] = q[c][1 + j]
        BY <2>3, <4>1
      <4>3. q[c][1 + j] = P[c][j]
        BY <3>2
      <4> QED BY <4>1, <4>2, <4>3
    <3>6. e[g[c]] = Word(d)
      <4>1. 1 \in 1..Len(q[c])
        BY <2>2, <3>2
      <4>2. e[Offset(q, c - 1) + 1] = q[c][1]
        BY <2>3, <4>1
      <4> QED BY <3>2, <3>3, <4>2
    <3> QED BY <2>2, <2>3, <3>3, <3>4, <3>5, <3>6
  <2> QED BY <2>4, <2>5
<1>8. g[1] = 0 /\ \A c \in 1..(m - 1) : g[c + 1] = Offset(q, c) + 1
  <2>1. ASSUME NEW c \in 1..(m - 1) PROVE g[c + 1] = Offset(q, c) + 1
    <3>1. c + 1 \in 1..m /\ c + 1 # 1 /\ (c + 1) - 1 = c
      OBVIOUS
    <3> QED BY <3>1
  <2> QED BY <2>1
<1> HIDE DEF g
<1>9. ASSUME NEW c \in 1..m PROVE g[c] + Len(P[c]) + 2 <= Len(r) /\ Piece(r, g[c], P[c])
  <2>1. /\ g[c] \in Nat /\ Len(P[c]) \in Nat /\ Offset(q, c) = g[c] + Len(P[c])
        /\ Offset(q, c) \in 0..Len(e) /\ \A j \in 1..Len(P[c]) : e[g[c] + j] = P[c][j]
    BY <1>7
  <2> PICK u, l, h, y : u = g[c] /\ l = Len(P[c]) /\ h = Len(e) /\ y = Len(r)
    OBVIOUS
  <2>4. u \in Nat /\ l \in Nat /\ h \in Nat /\ y = h + 2 /\ u + l \in 0..h
    BY <1>6, <2>1
  <2>2. g[c] + Len(P[c]) + 2 <= Len(r)
    <3>1. u + l + 2 <= y
      BY ONLY <2>4
    <3> QED BY <3>1
  <2>3. ASSUME NEW j \in 1..Len(P[c]) PROVE r[g[c] + j] = P[c][j]
    <3>0. u + j \in 1..h
      BY ONLY <2>4, j \in 1..Len(P[c]), l = Len(P[c])
    <3>1. g[c] + j \in 1..Len(e)
      BY <3>0
    <3> QED BY <1>6, <2>1, <3>1
  <2> QED BY <2>2, <2>3 DEF Piece
<1>10. ASSUME NEW c \in 1..(m - 1)
       PROVE  g[c + 1] = g[c] + Len(P[c]) + 1 /\ r[g[c] + Len(P[c]) + 1] = Word(d)
  <2>1. c \in 1..m /\ c + 1 \in 1..m /\ c + 1 # 1
    OBVIOUS
  <2>2. /\ Offset(q, c) = g[c] + Len(P[c]) /\ g[c] \in Nat /\ Len(P[c]) \in Nat
        /\ Offset(q, c + 1) = g[c + 1] + Len(P[c + 1]) /\ Offset(q, c + 1) \in 0..Len(e)
        /\ Len(P[c + 1]) \in Nat /\ e[g[c + 1]] = Word(d)
    BY <1>7, <2>1
  <2>3. g[c + 1] = g[c] + Len(P[c]) + 1
    BY <1>8, <2>2
  <2>4. g[c + 1] \in 1..Len(e)
    <3> PICK a, l, b : a = g[c] /\ l = Len(P[c]) /\ b = Len(P[c + 1])
      OBVIOUS
    <3>1. a \in Nat /\ l \in Nat /\ b \in Nat /\ g[c + 1] = a + l + 1
          /\ g[c + 1] + b \in 0..Len(e) /\ Len(e) \in Nat
      BY <1>6, <2>2, <2>3
    <3> QED BY ONLY <3>1
  <2> QED BY <1>6, <2>2, <2>3, <2>4
<1>11. /\ r[g[m] + Len(P[m]) + 1] = Word("return") /\ r[g[m] + Len(P[m]) + 2] = Word("newline")
       /\ Len(r) = g[m] + Len(P[m]) + 2
  <2>1. m \in 1..m
    OBVIOUS
  <2>2. g[m] + Len(P[m]) = Offset(q, m) /\ Len(e) = Offset(q, m)
    BY <1>2, <1>7, <2>1 DEF Laid
  <2> QED BY <1>6, <2>2
<1>12. Row(r, d, P, m, g)
  BY <1>6, <1>7, <1>8, <1>9, <1>10, <1>11 DEF Row
<1> QED BY <1>5, <1>12

(* The fields of a row are read, and its end makes them a row.              *)
Written(T, P, V, m) == \A c \in 1..m : Writes(T, P[c], V[c])

(* The fields of a row are read one after the other, and then the row.      *)
LEMMA FieldsAreRead ==
  ASSUME NEW text, NEW n, Sized(text, n), NEW d \in Cands, NEW R, NEW T, "quote" \in T,
         NEW S, NEW m \in Nat \ {0}, NEW P \in [1..m -> Seq(S)],
         NEW F, NEW V \in Seq(F), Len(V) = m, Written(T, P, V, m),
         NEW r, NEW g, Row(r, d, P, m, g),
         NEW o \in Nat, o + Len(r) <= n, Piece(text, o, r),
         Stands(text, d, o, Out(R, <<>>, <<>>))
  PROVE  Stands(text, d, o + Len(r), Out(Append(R, V), <<>>, <<>>))
<1> DEFINE G == {k \in Nat : k + 1 <= m =>
                   Stands(text, d, o + (g[k + 1] + Len(P[k + 1])), Out(R, FirstOf(V, k), V[k + 1]))}
<1>0. n \in Nat /\ Len(r) \in Nat
  BY DEF Sized, Row
(* What stands at, and after, the place of a field.                         *)
<1>1. ASSUME NEW c \in 1..m
      PROVE  /\ o + g[c] \in Nat /\ Len(P[c]) \in Nat /\ P[c] \in Seq(S) /\ g[c] \in Nat
             /\ (o + g[c]) + Len(P[c]) = o + (g[c] + Len(P[c]))
             /\ o + (g[c] + Len(P[c])) \in 0..(n - 1)
             /\ (o + g[c]) + Len(P[c]) <= n /\ Piece(text, o + g[c], P[c])
             /\ text[(o + (g[c] + Len(P[c]))) + 1] = IF c = m THEN Word("return") ELSE Word(d)
  <2> PICK a, l : a = g[c] /\ l = Len(P[c])
    OBVIOUS
  <2>1. a \in Nat /\ l \in Nat /\ a + l + 2 <= Len(r) /\ Piece(r, a, P[c])
    BY DEF Row
  <2>2. r[a + l + 1] = IF c = m THEN Word("return") ELSE Word(d)
    <3>1. CASE c = m
      BY <3>1 DEF Row
    <3>2. CASE c # m
      <4>1. c \in 1..(m - 1)
        BY <3>2
      <4> QED BY <3>2, <4>1 DEF Row
    <3> QED BY <3>1, <3>2
  <2>3. /\ a + l + 1 \in 1..Len(r) /\ o + a \in Nat /\ (o + a) + l = o + (a + l)
        /\ o + (a + l) \in 0..(n - 1) /\ (o + a) + l <= n
        /\ (o + (a + l)) + 1 = o + (a + l + 1)
    <3>1. o \in Nat /\ n \in Nat /\ Len(r) \in Nat /\ o + Len(r) <= n
      BY <1>0
    <3> QED BY ONLY <2>1, <3>1
  <2>4. ASSUME NEW j \in 1..l PROVE text[(o + a) + j] = P[c][j]
    <3>1. a + j \in 1..Len(r) /\ (o + a) + j = o + (a + j)
      <4>1. o \in Nat /\ Len(r) \in Nat /\ j \in 1..l
        BY <1>0
      <4> QED BY ONLY <2>1, <4>1
    <3>2. r[a + j] = P[c][j]
      BY <2>1 DEF Piece
    <3>3. text[o + (a + j)] = r[a + j]
      BY <3>1 DEF Piece
    <3> QED BY <3>1, <3>2, <3>3
  <2>5. Piece(text, o + a, P[c])
    BY <2>4 DEF Piece
  <2>6. text[(o + (a + l)) + 1] = r[a + l + 1]
    BY <2>3 DEF Piece
  <2>7. P[c] \in Seq(S)
    OBVIOUS
  <2> QED BY <2>1, <2>2, <2>3, <2>5, <2>6, <2>7
<1>2. \A c \in 1..m : ~Is(text[(o + (g[c] + Len(P[c]))) + 1], "quote")
  <2>1. ~Is(Word("return"), "quote") /\ ~Is(Word(d), "quote")
    BY PartsOfWord DEF Is, Cands
  <2> QED BY <1>1, <2>1
(* A field is read where the scanner stands between two.                    *)
<1>3. ASSUME NEW c \in 1..m, NEW W, Stands(text, d, o + g[c], Out(R, W, <<>>))
      PROVE  Stands(text, d, o + (g[c] + Len(P[c])), Out(R, W, V[c]))
  <2>1. Writes(T, P[c], V[c])
    BY DEF Written
  <2> PICK u, p : u = o + g[c] /\ p = P[c]
    OBVIOUS
  <2>2. /\ u \in Nat /\ p \in Seq(S) /\ u + Len(p) <= n /\ Piece(text, u, p)
        /\ u + Len(p) = o + (g[c] + Len(P[c])) /\ u + Len(p) + 1 = (o + (g[c] + Len(P[c]))) + 1
    BY <1>1
  <2>3. ~Is(text[u + Len(p) + 1], "quote")
    BY <1>2, <2>2
  <2>4. Stands(text, d, u + Len(p), Out(R, W, V[c]))
    BY <1>3, <2>1, <2>2, <2>3, FieldIsRead
  <2> QED BY <2>2, <2>4
<1>4. V \in Seq(F) /\ m = Len(V) /\ FirstOf(V, 0) = <<>> /\ FirstOf(V, m) = V
  BY FirstOfAll
<1>5. 0 \in G
  <2>1. 0 + 1 = 1 /\ 1 \in 1..m /\ g[1] = 0 /\ o + 0 = o
    BY DEF Row
  <2>2. Stands(text, d, o + g[1], Out(R, <<>>, <<>>))
    BY <2>1
  <2>3. Stands(text, d, o + (g[1] + Len(P[1])), Out(R, <<>>, V[1]))
    BY <1>3, <2>1, <2>2
  <2> QED BY <1>4, <2>1, <2>3
<1>6. ASSUME NEW k \in Nat, k \in G PROVE k + 1 \in G
  <2> SUFFICES ASSUME (k + 1) + 1 <= m
               PROVE  Stands(text, d, o + (g[(k + 1) + 1] + Len(P[(k + 1) + 1])),
                             Out(R, FirstOf(V, k + 1), V[(k + 1) + 1]))
    OBVIOUS
  <2>1. k + 1 \in 1..m /\ k + 1 \in 1..(m - 1) /\ (k + 1) + 1 \in 1..m /\ k + 1 <= m /\ k + 1 # m
        /\ k \in 0..(m - 1)
    OBVIOUS
  <2>2. Stands(text, d, o + (g[k + 1] + Len(P[k + 1])), Out(R, FirstOf(V, k), V[k + 1]))
    BY <1>6, <2>1
  <2> HIDE DEF G
  <2> PICK u : u = o + (g[k + 1] + Len(P[k + 1]))
    OBVIOUS
  <2>3. u \in 0..(n - 1) /\ text[u + 1] = Word(d)
    BY <1>1, <2>1
  <2>4. Is(text[u + 1], d)
    BY <2>3, PartsOfWord DEF Is
  <2>5. Stands(text, d, u + 1, Out(R, Append(FirstOf(V, k), V[k + 1]), <<>>))
    BY <2>2, <2>3, <2>4, OnDelimiter
  <2>6. Append(FirstOf(V, k), V[k + 1]) = FirstOf(V, k + 1)
    BY <1>4, <2>1, FirstAndNext
  <2>7. u + 1 = o + g[(k + 1) + 1]
    <3>1. g[(k + 1) + 1] = g[k + 1] + Len(P[k + 1]) + 1
      BY <2>1 DEF Row
    <3>2. g[k + 1] \in Nat /\ Len(P[k + 1]) \in Nat
      BY <1>1, <2>1
    <3> PICK a, l, x : a = g[k + 1] /\ l = Len(P[k + 1]) /\ x = g[(k + 1) + 1]
      OBVIOUS
    <3>3. a \in Nat /\ l \in Nat /\ x = a + l + 1 /\ u = o + (a + l)
      BY <3>1, <3>2
    <3>4. u + 1 = o + x
      BY ONLY <3>3, o \in Nat
    <3> QED BY <3>4
  <2>8. Stands(text, d, o + g[(k + 1) + 1], Out(R, FirstOf(V, k + 1), <<>>))
    BY <2>5, <2>6, <2>7
  <2> QED BY <1>3, <2>1, <2>8
<1> HIDE DEF G
<1>7. \A k \in Nat : k \in G
  BY <1>5, <1>6, Counting
<1>8. Stands(text, d, o + (g[m] + Len(P[m])), Out(R, FirstOf(V, m - 1), V[m]))
  <2>1. m - 1 \in Nat /\ (m - 1) + 1 = m /\ (m - 1) + 1 <= m
    OBVIOUS
  <2>2. m - 1 \in G
    BY <1>7, <2>1
  <2> QED BY <2>1, <2>2 DEF G
<1>9. Append(FirstOf(V, m - 1), V[m]) = V
  <2>1. m - 1 \in 0..(Len(V) - 1) /\ (m - 1) + 1 = m
    OBVIOUS
  <2>2. Append(FirstOf(V, m - 1), V[(m - 1) + 1]) = FirstOf(V, (m - 1) + 1)
    BY <2>1, FirstAndNext
  <2> QED BY <1>4, <2>1, <2>2
<1> PICK u : u = o + (g[m] + Len(P[m]))
  OBVIOUS
<1>10. /\ u \in 0..(n - 1) /\ u + 1 \in 0..(n - 1) /\ o + Len(r) = (u + 1) + 1
       /\ text[u + 1] = Word("return") /\ text[(u + 1) + 1] = Word("newline")
  <2>1. m \in 1..m
    OBVIOUS
  <2>2. u \in 0..(n - 1) /\ text[u + 1] = Word("return")
    BY <1>1, <2>1
  <2> PICK a, l : a = g[m] /\ l = Len(P[m])
    OBVIOUS
  <2>3. Len(r) = a + l + 2 /\ a \in Nat /\ l \in Nat /\ u = o + (a + l)
        /\ o \in Nat /\ o + Len(r) <= n /\ n \in Nat
    BY <1>0, <2>1 DEF Row
  <2>4. u + 1 \in 0..(n - 1) /\ o + Len(r) = (u + 1) + 1 /\ (u + 1) + 1 = o + (a + l + 2)
        /\ a + l + 2 \in 1..Len(r)
    BY ONLY <2>3
  <2>5. text[o + (a + l + 2)] = r[a + l + 2]
    BY <2>4 DEF Piece
  <2>6. r[a + l + 2] = Word("newline")
    BY DEF Row
  <2> QED BY <2>2, <2>4, <2>5, <2>6
<1>11. Is(text[u + 1], "return") /\ Is(text[(u + 1) + 1], "newline")
  BY <1>10, PartsOfWord DEF Is
<1>12. Stands(text, d, u + 1, Out(R, FirstOf(V, m - 1), V[m]))
  BY <1>8, <1>10, <1>11, OnReturn
<1>13. Stands(text, d, (u + 1) + 1,
              Out(Append(R, Append(FirstOf(V, m - 1), V[m])), <<>>, <<>>))
  BY <1>10, <1>11, <1>12, OnNewline
<1> QED BY <1>9, <1>10, <1>13

-----------------------------------------------------------------------------
(* What follows what in a file.                                             *)

(* Where a row can begin, this text gives these rows.                       *)
Gives(d, x, b, Y) ==
  \A text, n, R, o :
    /\ Sized(text, n) /\ R \in Seq(Y) /\ o \in Nat /\ o + Len(x) <= n
    /\ Piece(text, o, x) /\ Stands(text, d, o, Out(R, <<>>, <<>>))
    => Stands(text, d, o + Len(x), Out(R \o b, <<>>, <<>>))

(* No text gives no rows.                                                   *)
LEMMA GivesNone ==
  ASSUME NEW d, NEW Y
  PROVE  Gives(d, <<>>, <<>>, Y)
<1> SUFFICES ASSUME NEW text, NEW n, NEW R \in Seq(Y), NEW o \in Nat,
                    Stands(text, d, o, Out(R, <<>>, <<>>))
             PROVE  Stands(text, d, o + Len(<<>>), Out(R \o <<>>, <<>>, <<>>))
  BY DEF Gives
<1>1. o + Len(<<>>) = o /\ R \o <<>> = R
  BY ConcatEmptySeq
<1> QED BY <1>1

(* The text of a row gives that row.                                        *)
LEMMA GivesRow ==
  ASSUME NEW d \in Cands, NEW T, "quote" \in T, NEW S, NEW m \in Nat \ {0},
         Word(d) \in S, Word("return") \in S, Word("newline") \in S,
         NEW P \in [1..m -> Seq(S)], NEW F, NEW V \in Seq(F), Len(V) = m,
         Written(T, P, V, m), NEW Y, V \in Y
  PROVE  /\ RowText(d, P, m) \in Seq(S)
         /\ Gives(d, RowText(d, P, m), <<V>>, Y)
<1> PICK r : r = RowText(d, P, m)
  OBVIOUS
<1>1. r \in Seq(S) /\ \E g : Row(r, d, P, m, g)
  BY RowShape
<1> PICK g : Row(r, d, P, m, g)
  BY <1>1
<1>2. Gives(d, r, <<V>>, Y)
  <2> SUFFICES ASSUME NEW text, NEW n, Sized(text, n), NEW R \in Seq(Y), NEW o \in Nat,
                      o + Len(r) <= n, Piece(text, o, r),
                      Stands(text, d, o, Out(R, <<>>, <<>>))
               PROVE  Stands(text, d, o + Len(r), Out(R \o <<V>>, <<>>, <<>>))
    BY DEF Gives
  <2>1. Append(R, V) = R \o <<V>>
    BY AppendIsConcat
  <2>2. Stands(text, d, o + Len(r), Out(Append(R, V), <<>>, <<>>))
    BY FieldsAreRead
  <2> QED BY <2>1, <2>2
<1> QED BY <1>1, <1>2

(* A text that follows another.                                             *)
LEMMA PiecesOfBoth ==
  ASSUME NEW text, NEW o \in Nat, NEW x, NEW y, NEW z, Followed(z, x, y), Piece(text, o, z)
  PROVE  Piece(text, o, x) /\ Piece(text, o + Len(x), y)
<1>1. /\ Len(x) \in Nat /\ Len(y) \in Nat /\ Len(z) = Len(x) + Len(y)
      /\ \A i \in 1..Len(x) : z[i] = x[i]
      /\ \A i \in 1..Len(y) : z[Len(x) + i] = y[i]
  BY DEF Followed
<1>2. \A j \in 1..Len(z) : text[o + j] = z[j]
  BY DEF Piece
<1>3. ASSUME NEW j \in 1..Len(x) PROVE text[o + j] = x[j]
  <2>1. j \in 1..Len(z)
    BY <1>1
  <2> QED BY <1>1, <1>2, <2>1
<1>4. ASSUME NEW j \in 1..Len(y) PROVE text[(o + Len(x)) + j] = y[j]
  <2>1. Len(x) + j \in 1..Len(z) /\ (o + Len(x)) + j = o + (Len(x) + j)
    BY <1>1
  <2> QED BY <1>1, <1>2, <2>1
<1> QED BY <1>3, <1>4 DEF Piece

(* Two texts that give rows give them one after the other.                  *)
LEMMA GivesBoth ==
  ASSUME NEW d, NEW S, NEW x \in Seq(S), NEW y \in Seq(S), NEW Y, NEW b \in Seq(Y),
         NEW c \in Seq(Y), Gives(d, x, b, Y), Gives(d, y, c, Y)
  PROVE  Gives(d, x \o y, b \o c, Y)
<1> PICK z : z = x \o y
  OBVIOUS
<1>1. Followed(z, x, y)
  BY Concats
<1>2. Len(x) \in Nat /\ Len(y) \in Nat /\ Len(z) = Len(x) + Len(y)
  BY <1>1 DEF Followed
<1> SUFFICES ASSUME NEW text, NEW n, Sized(text, n), NEW R \in Seq(Y), NEW o \in Nat,
                    o + Len(z) <= n, Piece(text, o, z),
                    Stands(text, d, o, Out(R, <<>>, <<>>))
             PROVE  Stands(text, d, o + Len(z), Out(R \o (b \o c), <<>>, <<>>))
  BY DEF Gives
<1>3. Piece(text, o, x) /\ Piece(text, o + Len(x), y)
  BY <1>1, PiecesOfBoth
<1>4. /\ n \in Nat /\ o + Len(x) \in Nat /\ o + Len(x) <= n /\ (o + Len(x)) + Len(y) <= n
      /\ (o + Len(x)) + Len(y) = o + Len(z)
  BY <1>2 DEF Sized
<1>5. Stands(text, d, o + Len(x), Out(R \o b, <<>>, <<>>))
  BY <1>3, <1>4 DEF Gives
<1>6. R \o b \in Seq(Y) /\ (R \o b) \o c = R \o (b \o c)
  BY ONLY R \in Seq(Y), b \in Seq(Y), c \in Seq(Y), ConcatProperties, ConcatAssociative
<1>7. Stands(text, d, (o + Len(x)) + Len(y), Out((R \o b) \o c, <<>>, <<>>))
  BY <1>3, <1>4, <1>5, <1>6 DEF Gives
<1> QED BY <1>4, <1>6, <1>7

(* Any number of texts that give rows give them all.                        *)
LEMMA GivesAll ==
  ASSUME NEW d, NEW S, NEW n \in Nat \ {0}, NEW q \in [1..n -> Seq(S)], NEW Y,
         NEW B \in [1..n -> Seq(Y)], \A i \in 1..n : Gives(d, q[i], B[i], Y)
  PROVE  /\ FlattenSeq(q) \in Seq(S) /\ FlattenSeq(B) \in Seq(Y)
         /\ Gives(d, FlattenSeq(q), FlattenSeq(B), Y)
<1> PICK u, v : u = Joined(q) /\ v = Joined(B)
  OBVIOUS
<1>1. /\ FlattenSeq(q) = u[n] /\ u[1] = q[1]
      /\ \A k \in 1..(n - 1) : u[k + 1] = u[k] \o q[k + 1]
      /\ \A k \in 1..n : u[k] \in Seq(S)
  <2>1. /\ FlattenSeq(q) = Joined(q)[n] /\ Joined(q)[1] = q[1]
        /\ \A k \in 1..(n - 1) : Joined(q)[k + 1] = Joined(q)[k] \o q[k + 1]
        /\ \A k \in 1..n : Joined(q)[k] \in Seq(S)
    BY JoinedStep
  <2> QED BY <2>1
<1>2. /\ FlattenSeq(B) = v[n] /\ v[1] = B[1]
      /\ \A k \in 1..(n - 1) : v[k + 1] = v[k] \o B[k + 1]
      /\ \A k \in 1..n : v[k] \in Seq(Y)
  <2>1. /\ FlattenSeq(B) = Joined(B)[n] /\ Joined(B)[1] = B[1]
        /\ \A k \in 1..(n - 1) : Joined(B)[k + 1] = Joined(B)[k] \o B[k + 1]
        /\ \A k \in 1..n : Joined(B)[k] \in Seq(Y)
    BY JoinedStep
  <2> QED BY <2>1
<1> DEFINE G == {k \in Nat : k + 1 <= n => Gives(d, u[k + 1], v[k + 1], Y)}
<1>3. 0 \in G
  <2>1. 0 + 1 = 1 /\ 1 \in 1..n
    OBVIOUS
  <2>2. Gives(d, u[1], v[1], Y)
    BY <1>1, <1>2, <2>1
  <2> QED BY <2>1, <2>2
<1>4. ASSUME NEW k \in Nat, k \in G PROVE k + 1 \in G
  <2> SUFFICES ASSUME (k + 1) + 1 <= n PROVE Gives(d, u[(k + 1) + 1], v[(k + 1) + 1], Y)
    OBVIOUS
  <2> PICK l : l = k + 1
    OBVIOUS
  <2>1. l \in 1..(n - 1) /\ l \in 1..n /\ l + 1 \in 1..n /\ l <= n
    OBVIOUS
  <2>2. Gives(d, u[l], v[l], Y)
    BY <1>4, <2>1
  <2> HIDE DEF G
  <2>3. Gives(d, q[l + 1], B[l + 1], Y) /\ q[l + 1] \in Seq(S) /\ B[l + 1] \in Seq(Y)
    BY <2>1
  <2>4. u[l] \in Seq(S) /\ v[l] \in Seq(Y)
    BY <1>1, <1>2, <2>1
  <2>5. Gives(d, u[l] \o q[l + 1], v[l] \o B[l + 1], Y)
    BY <2>2, <2>3, <2>4, GivesBoth
  <2>6. u[l + 1] = u[l] \o q[l + 1] /\ v[l + 1] = v[l] \o B[l + 1]
    BY <1>1, <1>2, <2>1
  <2> QED BY <2>5, <2>6
<1> HIDE DEF G
<1>5. n - 1 \in G
  <2>1. n - 1 \in Nat
    OBVIOUS
  <2> QED BY <1>3, <1>4, <2>1, Counting
<1>6. Gives(d, u[n], v[n], Y)
  <2>1. (n - 1) + 1 = n
    OBVIOUS
  <2> QED BY <1>5, <2>1 DEF G
<1>7. n \in 1..n
  OBVIOUS
<1> QED BY <1>1, <1>2, <1>6, <1>7

(* A text is read as the rows it gives that are not blank, and nothing that *)
(* could be taken for its delimiter stands outside quotes.                  *)
LEMMA TextIsRead ==
  ASSUME NEW d, NEW S, NEW text \in Seq(S), NEW Y, NEW b \in Seq(Y), Gives(d, text, b, Y)
  PROVE  /\ ParseRows(text, d) = Filled(b)
         /\ \A i \in DOMAIN text : Calm(text, d, i)
<1> PICK n : n = Len(text)
  OBVIOUS
<1>1. Sized(text, n) /\ n \in Nat /\ DOMAIN text = 1..n
  BY DEF Sized
<1>2. Piece(text, 0, text)
  BY DEF Piece
<1>3. Stands(text, d, 0, Out(<<>>, <<>>, <<>>))
  BY <1>1, StandsAtStart
<1>4. <<>> \in Seq(Y) /\ <<>> \o b = b /\ 0 + Len(text) = n /\ n <= n /\ 0 \in Nat
  BY <1>1, ConcatEmptySeq
<1>5. Stands(text, d, n, Out(b, <<>>, <<>>))
  BY <1>1, <1>2, <1>3, <1>4 DEF Gives
<1>6. Upto(text, d, n) = Out(b, <<>>, <<>>) /\ \A i \in 1..n : Calm(text, d, i)
  BY <1>5 DEF Stands
<1>7. Upto(text, d, n) = St(b, <<>>, <<>>, FALSE, FALSE)
  BY <1>6 DEF Out
<1>8. ParseRows(text, d) = Filled(b)
  BY <1>1, <1>7, RowsOfScan
<1> QED BY <1>1, <1>6, <1>8

(* The three that are tried.                                                *)
Candidate == <<",", ";", "tab">>

(* The delimiter of a file is one of the three, once.                       *)
LEMMA Tried ==
  ASSUME NEW d \in Cands
  PROVE  \E x \in 1..3 : /\ Candidate[x] = d
                         /\ \A k \in 1..3 : /\ Candidate[k] \in Cands
                                            /\ k # x => Candidate[k] # d
<1>1. Candidate[1] = "," /\ Candidate[2] = ";" /\ Candidate[3] = "tab"
  BY DEF Candidate
<1>2. \A k \in 1..3 : k = 1 \/ k = 2 \/ k = 3
  OBVIOUS
<1>3. 1 \in 1..3 /\ 2 \in 1..3 /\ 3 \in 1..3
  OBVIOUS
<1>4. \A k \in 1..3 : Candidate[k] \in Cands
  BY <1>1, <1>2 DEF Cands
<1>5. \A k, x \in 1..3 : k # x => Candidate[k] # Candidate[x]
  <2>1. Candidate[1] # Candidate[2] /\ Candidate[1] # Candidate[3] /\ Candidate[2] # Candidate[3]
    BY <1>1
  <2> QED BY <1>2, <2>1
<1>6. \E x \in 1..3 : Candidate[x] = d
  BY <1>1, <1>3 DEF Cands
<1> QED BY <1>4, <1>5, <1>6

(* The delimiter is found: it stands after a first field without signs, and *)
(* nothing that could be taken for it is counted.                           *)
LEMMA DelimiterIsFound ==
  ASSUME NEW text, NEW n, Sized(text, n), NEW d \in Cands,
         \A i \in DOMAIN text : Calm(text, d, i),
         NEW a \in 1..n, Is(text[a], d),
         \A j \in 1..(a - 1) : ~Is(text[j], "quote") /\ ~Is(text[j], "newline")
  PROVE  DetectDelimiter(text) = d
<1> DEFINE counted(k) == {i \in DOMAIN text :
                  /\ Is(text[i], Candidate[k])
                  /\ Before(text, i, "quote") % 2 = 0
                  /\ Before(text, i, "newline") < 5}
           score == [k \in 1..3 |-> Cardinality(counted(k))]
           best(k) == \A l \in 1..3 : score[l] < score[k] \/ (score[l] = score[k] /\ k <= l)
<1>0. n \in Nat /\ DOMAIN text = 1..n
  BY DEF Sized
<1>1. PICK x \in 1..3 :
        Candidate[x] = d /\ \A k \in 1..3 : Candidate[k] \in Cands /\ (k # x => Candidate[k] # d)
  BY Tried
<1>2. \A k \in 1..3 : Candidate[k] \in Cands /\ (k # x => Candidate[k] # d)
  BY <1>1
<1>3. ASSUME NEW k \in 1..3, k # x PROVE counted(k) = {}
  <2> SUFFICES ASSUME NEW i \in 1..n, Is(text[i], Candidate[k]),
                      Before(text, i, "quote") % 2 = 0
               PROVE  FALSE
    BY <1>0
  <2>1. Candidate[k] \in Cands \ {d}
    BY <1>2, <1>3
  <2>2. ~Even(text, i - 1)
    BY <1>0, <2>1 DEF Calm
  <2>3. (i - 1) + 1 = i
    BY <1>0
  <2> QED BY <2>2, <2>3 DEF Even
<1>4. a \in counted(x)
  <2>1. Before(text, a, "quote") = 0 /\ Before(text, a, "newline") = 0
    <3>1. /\ {j \in 1..(a - 1) : Is(text[j], "quote")} = {}
          /\ {j \in 1..(a - 1) : Is(text[j], "newline")} = {}
      OBVIOUS
    <3> QED BY <3>1, FS_EmptySet DEF Before
  <2>2. 0 % 2 = 0 /\ 0 < 5
    OBVIOUS
  <2> QED BY <1>0, <1>1, <2>1, <2>2
<1>5. counted(x) \in SUBSET (1..n)
  BY <1>0
<1> HIDE DEF counted
<1>6. Cardinality(counted(x)) \in Nat \ {0}
  <2>1. IsFiniteSet(counted(x))
    <3>1. IsFiniteSet(1..n)
      BY <1>0, FS_Interval
    <3> QED BY <1>5, <3>1, FS_Subset
  <2>2. Cardinality(counted(x)) # 0
    BY <1>4, <2>1, FS_EmptySet
  <2> QED BY <2>1, <2>2, FS_CardinalityType
<1>7. score[x] \in Nat \ {0} /\ \A k \in 1..3 : k # x => score[k] = 0
  BY <1>3, <1>6, FS_EmptySet
<1> HIDE DEF score
<1>8. best(x) /\ \A k \in 1..3 : best(k) => k = x
  BY <1>7
<1>9. (CHOOSE k \in 1..3 : best(k)) = x
  BY <1>8
<1>10. DetectDelimiter(text) = Candidate[CHOOSE k \in 1..3 : best(k)]
  BY DEF DetectDelimiter, score, counted, Candidate
<1> QED BY <1>1, <1>9, <1>10

-----------------------------------------------------------------------------
(* What is made of the rows.                                                *)

(* Rows of which none is blank are all kept.                                *)
LEMMA AllFilled ==
  ASSUME NEW Y, NEW b \in Seq(Y), \A i \in DOMAIN b : ~Blank(b[i])
  PROVE  Filled(b) = b
<1> PICK ss : ss = [k \in DOMAIN b |-> IF Blank(b[k]) THEN {} ELSE {b[k]}]
  OBVIOUS
<1>1. DOMAIN ss = 1..Len(b) /\ \A i \in 1..Len(b) : ss[i] = {b[i]}
  OBVIOUS
<1>2. Collect(ss) = b
  BY <1>1, CollectOfOnes
<1> QED BY <1>2 DEF Filled

(* Of pairs of parts, one that holds one thing and one that holds none.     *)
LEMMA CollectOfPairs ==
  ASSUME NEW S, NEW t \in Seq(S), NEW ss, DOMAIN ss = 1..(2 * Len(t)),
         \A i \in 1..Len(t) : ss[2 * i - 1] = {t[i]} /\ ss[2 * i] = {}
  PROVE  Collect(ss) = t
<1> PICK n : n = Len(t)
  OBVIOUS
<1> PICK N : N = 2 * n
  OBVIOUS
<1>0. /\ n \in Nat /\ N \in Nat /\ N = 2 * n
      /\ \A i \in 1..n : ss[2 * i - 1] = {t[i]} /\ ss[2 * i] = {} /\ t[i] \in S
  OBVIOUS
<1> DEFINE g == Gathered(ss)
<1>1. Gathers(ss, g, SUBSET (1..N))
  BY <1>0, GatheredExists DEF Gathered
<1> HIDE DEF g
<1>2. \A s \in SUBSET (1..N) :
        g[s] = IF s = {} THEN <<>> ELSE g[s \ {Max(s)}] \o SetToSeq(ss[Max(s)])
  BY <1>1 DEF Gathers
<1>3. \A k \in 0..(N - 1) : g[1..(k + 1)] = g[1..k] \o SetToSeq(ss[k + 1])
  <2> SUFFICES ASSUME NEW k \in 0..(N - 1)
               PROVE  g[1..(k + 1)] = g[1..k] \o SetToSeq(ss[k + 1])
    OBVIOUS
  <2>1. /\ 1..(k + 1) \in SUBSET (1..N) /\ 1..(k + 1) # {}
        /\ (1..(k + 1)) \ {k + 1} = 1..k /\ Max(1..(k + 1)) = k + 1
    BY <1>0, OneMore
  <2> QED BY <1>2, <2>1
<1> DEFINE G == {k \in Nat : k <= n => g[1..(2 * k)] = FirstOf(t, k)}
<1>4. 0 \in G
  <2>1. 1..0 = {} /\ {} \in SUBSET (1..N) /\ 2 * 0 = 0
    OBVIOUS
  <2>2. g[1..0] = <<>>
    BY <1>2, <2>1
  <2> QED BY <2>1, <2>2, FirstOfAll
<1>5. ASSUME NEW k \in Nat, k \in G PROVE k + 1 \in G
  <2> SUFFICES ASSUME k + 1 <= n PROVE g[1..(2 * (k + 1))] = FirstOf(t, k + 1)
    OBVIOUS
  <2> PICK j : j = 2 * k
    OBVIOUS
  <2>1. /\ k <= n /\ k + 1 \in 1..n /\ k \in 0..(n - 1) /\ j \in 0..(N - 1) /\ j + 1 \in 0..(N - 1)
        /\ 2 * (k + 1) = (j + 1) + 1 /\ 2 * (k + 1) - 1 = j + 1
    BY <1>0
  <2>2. g[1..j] = FirstOf(t, k)
    BY <1>5, <2>1
  <2> HIDE DEF G
  <2> PICK e, p : e = t[k + 1] /\ p = FirstOf(t, k)
    OBVIOUS
  <2>3. SetToSeq(ss[j + 1]) = <<e>> /\ SetToSeq(ss[(j + 1) + 1]) = <<>> /\ e \in S
    <3>1. ss[j + 1] = {e} /\ ss[(j + 1) + 1] = {} /\ e \in S
      BY <1>0, <2>1
    <3> QED BY <3>1, ListOfOne, ListOfNone
  <2>4. p \in Seq(S)
    <3>1. \A i \in 1..k : t[i] \in S
      BY <1>0, <2>1
    <3> QED BY <3>1 DEF FirstOf
  <2>5. p \o <<e>> = FirstOf(t, k + 1)
    <3>1. k \in 0..(Len(t) - 1)
      BY <2>1
    <3>2. Append(p, e) = FirstOf(t, k + 1)
      BY <3>1, FirstAndNext
    <3>3. Append(p, e) = p \o <<e>>
      BY <2>3, <2>4, AppendIsConcat
    <3> QED BY <3>2, <3>3
  <2>6. g[1..(j + 1)] = p \o <<e>>
    BY <1>3, <2>1, <2>2, <2>3
  <2>7. (p \o <<e>>) \o <<>> = p \o <<e>>
    <3>1. Append(p, e) \in Seq(S) /\ Append(p, e) = p \o <<e>>
      BY <2>3, <2>4, AppendIsConcat, AppendProperties
    <3> QED BY <3>1, ConcatEmptySeq
  <2>8. g[1..((j + 1) + 1)] = p \o <<e>>
    BY <1>3, <2>1, <2>3, <2>6, <2>7
  <2> QED BY <2>1, <2>5, <2>8
<1> HIDE DEF G
<1>6. n \in G
  BY <1>0, <1>4, <1>5, Counting
<1>7. g[1..N] = FirstOf(t, n)
  BY <1>0, <1>6 DEF G
<1>8. FirstOf(t, n) = t
  BY FirstOfAll
<1> QED BY <1>0, <1>7, <1>8, CollectIsGathered DEF g

(* The rows that groups of one or two add up to.                            *)
Singles(B, v, n) == \A i \in 1..n : Len(B[i]) = 1 /\ B[i][1] = v[i]
Pairs(B, v, c, n) == \A i \in 1..n : Len(B[i]) = 2 /\ B[i][1] = v[i] /\ B[i][2] = c
Alternate(X, v, c, n) == \A i \in 1..n : X[2 * i - 1] = v[i] /\ X[2 * i] = c

(* Of groups of one row each there are as many rows.                        *)
LEMMA OneEach ==
  ASSUME NEW n \in Nat \ {0}, NEW Y, NEW v, NEW B \in [1..n -> Seq(Y)],
         Singles(B, v, n), NEW X, X = FlattenSeq(B)
  PROVE  Len(X) = n /\ \A i \in 1..n : X[i] = v[i]
<1>1. B \in [1..n -> Seq(Y)] /\ \A i \in 1..n : Len(B[i]) = 1 /\ B[i][1] = v[i]
  BY DEF Singles
<1>2. Laid(X, B, n)
  BY <1>1, FlattenAt
<1> DEFINE G == {k \in Nat : k <= n => Offset(B, k) = k}
<1>3. 0 \in G
  BY DEF Offset
<1>4. ASSUME NEW k \in Nat, k \in G PROVE k + 1 \in G
  <2> SUFFICES ASSUME k + 1 <= n PROVE Offset(B, k + 1) = k + 1
    OBVIOUS
  <2>1. k <= n /\ k \in 0..(n - 1) /\ k + 1 \in 1..n
    OBVIOUS
  <2>2. Offset(B, k) = k
    BY <1>4, <2>1
  <2> HIDE DEF G
  <2>3. Offset(B, k + 1) = Offset(B, k) + Len(B[k + 1])
    BY <1>2, <2>1 DEF Laid
  <2> QED BY <1>1, <2>1, <2>2, <2>3
<1> HIDE DEF G
<1>5. \A k \in Nat : k \in G
  BY <1>3, <1>4, Counting
<1>6. \A k \in 0..n : Offset(B, k) = k
  BY <1>5 DEF G
<1>7. Len(X) = n
  <2>1. n \in 0..n
    OBVIOUS
  <2> QED BY <1>2, <1>6, <2>1 DEF Laid
<1>8. ASSUME NEW i \in 1..n PROVE X[i] = v[i]
  <2> PICK k : k = i - 1
    OBVIOUS
  <2>1. k \in 0..(n - 1) /\ k \in 0..n /\ k + 1 = i
    OBVIOUS
  <2>2. \A j \in 1..Len(B[k + 1]) : X[Offset(B, k) + j] = B[k + 1][j]
    BY <1>2, <2>1 DEF Laid
  <2>3. 1 \in 1..Len(B[i])
    BY <1>1
  <2> QED BY <1>1, <1>6, <2>1, <2>2, <2>3
<1> QED BY <1>7, <1>8

(* Of groups of two rows each there are twice as many, in turn.             *)
LEMMA TwoEach ==
  ASSUME NEW n \in Nat \ {0}, NEW Y, NEW v, NEW c, NEW B \in [1..n -> Seq(Y)],
         Pairs(B, v, c, n), NEW X, X = FlattenSeq(B)
  PROVE  Len(X) = 2 * n /\ Alternate(X, v, c, n)
<1>1. B \in [1..n -> Seq(Y)] /\ \A i \in 1..n : Len(B[i]) = 2 /\ B[i][1] = v[i] /\ B[i][2] = c
  BY DEF Pairs
<1>2. Laid(X, B, n)
  BY <1>1, FlattenAt
<1> DEFINE G == {k \in Nat : k <= n => Offset(B, k) = 2 * k}
<1>3. 0 \in G
  BY DEF Offset
<1>4. ASSUME NEW k \in Nat, k \in G PROVE k + 1 \in G
  <2> SUFFICES ASSUME k + 1 <= n PROVE Offset(B, k + 1) = 2 * (k + 1)
    OBVIOUS
  <2>1. k <= n /\ k \in 0..(n - 1) /\ k + 1 \in 1..n
    OBVIOUS
  <2>2. Offset(B, k) = 2 * k
    BY <1>4, <2>1
  <2> HIDE DEF G
  <2>3. Offset(B, k + 1) = Offset(B, k) + Len(B[k + 1])
    BY <1>2, <2>1 DEF Laid
  <2>4. Len(B[k + 1]) = 2
    BY <1>1, <2>1
  <2> QED BY <2>2, <2>3, <2>4
<1> HIDE DEF G
<1>5. \A k \in Nat : k \in G
  BY <1>3, <1>4, Counting
<1>6. ASSUME NEW k \in 0..n PROVE Offset(B, k) = 2 * k
  <2>1. k \in Nat /\ k <= n
    OBVIOUS
  <2>2. k \in G
    BY <1>5, <2>1
  <2> QED BY <2>1, <2>2 DEF G
<1>7. Len(X) = 2 * n
  <2>1. n \in 0..n
    OBVIOUS
  <2> QED BY <1>2, <1>6, <2>1 DEF Laid
<1>8. ASSUME NEW i \in 1..n PROVE X[2 * i - 1] = v[i] /\ X[2 * i] = c
  <2> PICK k : k = i - 1
    OBVIOUS
  <2>1. k \in 0..(n - 1) /\ k \in 0..n /\ k + 1 = i
        /\ 2 * k + 1 = 2 * i - 1 /\ 2 * k + 2 = 2 * i
    OBVIOUS
  <2>2. \A j \in 1..Len(B[k + 1]) : X[Offset(B, k) + j] = B[k + 1][j]
    BY <1>2, <2>1 DEF Laid
  <2>3. 1 \in 1..Len(B[i]) /\ 2 \in 1..Len(B[i])
    BY <1>1
  <2>4. Offset(B, k) = 2 * k
    BY <1>6, <2>1
  <2>5. X[2 * k + 1] = B[i][1] /\ X[2 * k + 2] = B[i][2]
    BY <2>1, <2>2, <2>3, <2>4
  <2> QED BY <1>1, <2>1, <2>5
<1> QED BY <1>7, <1>8 DEF Alternate

-----------------------------------------------------------------------------
(* What a bank writes for a transaction in a table.                         *)

(* What a column is for, and its heading.                                   *)
Roles == {"date", "desc", "amount", "debit", "credit", "balance"}
Role(c) == form.columns[c][1]
Named(c) == form.columns[c][2]

(* The years that are told apart.                                           *)
CsvYears == CASE form.dates = "long" -> {y \in Int : y >= 100}
              [] form.dates = "short" -> 2000..2099
              [] OTHER -> {}

(* The transactions that a table can say: some words, a return and a tab    *)
(* not among them, which are not quoted everywhere.                         *)
CsvTx ==
  {t \in [date : CsvYears \X (1..12) \X (1..31), text : Seq(STRING), amount : Int] :
     /\ t.text # <<>>
     /\ \A i \in DOMAIN t.text : t.text[i] \notin {"return", "tab"}}

(* The words and the symbols of a file.                                     *)
Vocabulary == STRING \cup Signs \cup {"closing"}
Symbols == Wording(Vocabulary) \cup {Date(k) : k \in Int \X (1..12) \X (1..31)}
             \cup {Signed(k) : k \in Int} \cup {Num(900, "plus")}

(* The words and what is printed are symbols.                               *)
LEMMA Lexicon ==
  /\ \A x \in Vocabulary : Word(x) \in Symbols
  /\ \A k \in Int : Signed(k) \in Symbols
  /\ \A k \in Int \X (1..12) \X (1..31) : Date(k) \in Symbols
  /\ Num(900, "plus") \in Symbols
  /\ STRING \subseteq Vocabulary /\ Signs \subseteq Vocabulary /\ "closing" \in Vocabulary
BY DEF Symbols, Wording, Vocabulary

(* Which of them are no signs.                                              *)
LEMMA OrdinarySymbols ==
  /\ \A x : x \notin Signs => Ordinary(Word(x))
  /\ \A k : Ordinary(Date(k)) /\ Ordinary(Signed(k))
  /\ Ordinary(Num(900, "plus"))
<1>1. ASSUME NEW x, x \notin Signs PROVE Ordinary(Word(x))
  BY <1>1, PartsOfWord DEF Ordinary
<1>2. \A k, s : Num(k, s).kind = "num" /\ Date(k).kind = "date"
  BY DEF Num, Date
<1>3. \A c : c.kind # "word" => Ordinary(c)
  BY DEF Ordinary
<1> QED BY <1>1, <1>2, <1>3 DEF Signed

(* A list of one symbol.                                                    *)
LEMMA ListsOfOne ==
  ASSUME NEW S, NEW x \in S
  PROVE  /\ <<x>> \in Seq(S) /\ Len(<<x>>) = 1 /\ <<x>>[1] = x /\ <<x>> # <<>>
         /\ Ordinary(x) => \A j \in 1..Len(<<x>>) : Ordinary(<<x>>[j])
OBVIOUS

(* A date is read as it was before it was printed.                          *)
LEMMA CsvDateIsRead ==
  ASSUME NEW t \in CsvTx
  PROVE  /\ CsvDate(Printed(t.date)) = {t.date}
         /\ \E k \in Int \X (1..12) \X (1..31) : Printed(t.date) = Date(k)
<1>1. PICK y \in CsvYears, m \in 1..12, d \in 1..31 : t.date = <<y, m, d>>
  <2>1. t.date \in CsvYears \X (1..12) \X (1..31)
    BY DEF CsvTx
  <2> QED BY <2>1
<1>2. PICK z \in Int : /\ Printed(t.date) = Date(<<z, m, d>>) /\ z # NoYear
                       /\ (IF z < 100 THEN 2000 + z ELSE z) = y
  <2>1. CASE form.dates = "long"
    <3>1. y \in Int /\ y >= 100
      BY <1>1, <2>1 DEF CsvYears
    <3>2. Printed(t.date) = Date(<<y, m, d>>)
      BY <1>1, <2>1 DEF Printed
    <3>3. y # NoYear /\ (IF y < 100 THEN 2000 + y ELSE y) = y
      BY <3>1 DEF NoYear
    <3> QED BY <3>1, <3>2, <3>3
  <2>2. CASE form.dates = "short"
    <3>1. y \in 2000..2099
      BY <1>1, <2>2 DEF CsvYears
    <3> PICK z : z = y % 100
      OBVIOUS
    <3>2. Printed(t.date) = Date(<<z, m, d>>)
      BY <1>1, <2>2 DEF Printed
    <3>3. z = y - 2000
      BY <3>1
    <3>4. z \in Int /\ z # NoYear /\ (IF z < 100 THEN 2000 + z ELSE z) = y
      BY <3>1, <3>3 DEF NoYear
    <3> QED BY <3>2, <3>4
  <2>3. form.dates = "long" \/ form.dates = "short"
    BY <1>1 DEF CsvYears
  <2> QED BY <2>1, <2>2, <2>3
<1>3. PICK c, k : c = Printed(t.date) /\ k = <<z, m, d>>
  OBVIOUS
<1>4. c = Date(k) /\ k \in Int \X (1..12) \X (1..31)
  BY <1>2, <1>3
<1>5. c.kind = "date" /\ c.date = k
  BY <1>4, PartsOfDate
<1>6. c.date[1] = z /\ c.date[2] = m /\ c.date[3] = d
  BY <1>3, <1>5
<1>7. CsvDate(c) = Sane(y, c.date)
  BY <1>2, <1>5, <1>6 DEF CsvDate, Dated
<1>8. Sane(y, c.date) = {t.date}
  BY <1>1, <1>6 DEF Sane
<1> QED BY <1>3, <1>4, <1>7, <1>8

(* An amount is the number printed.                                         *)
LEMMA AmountIsRead == \A k : Amount(Signed(k)) = {k} /\ Signed(k).num = k
BY DEF Signed, Num, Amount

(* A sequence of some is one of more.                                       *)
LEMMA SeqOfMore ==
  ASSUME NEW A, NEW B, A \subseteq B, NEW w \in Seq(A)
  PROVE  w \in Seq(B)
OBVIOUS

(* Words are written as they are, or between quotes.                        *)
LEMMA WordsAreWritten ==
  ASSUME NEW t \in CsvTx, form.variant \in Cands
  PROVE  /\ Writes(Vocabulary, Quoted(t.text), Words(t.text))
         /\ Quoted(t.text) \in Seq(Symbols) /\ Words(t.text) \in Seq(Symbols)
         /\ Words(t.text) # <<>> /\ Texts(Words(t.text)) = t.text
<1> PICK w : w = t.text
  OBVIOUS
<1>1. /\ w \in Seq(STRING) /\ w # <<>> /\ Len(w) # 0
      /\ \A i \in DOMAIN w : w[i] \notin {"return", "tab"}
  BY DEF CsvTx
<1>2. w \in Seq(Vocabulary) /\ "quote" \in Vocabulary
  <2>1. STRING \subseteq Vocabulary
    BY DEF Vocabulary
  <2>2. "quote" \in Vocabulary
    BY DEF Vocabulary, Signs
  <2>3. w \in Seq(Vocabulary)
    BY <1>1, <2>1, SeqOfMore
  <2> QED BY <2>2, <2>3
<1>3. Wording(Vocabulary) \subseteq Symbols
  BY DEF Symbols
<1> PICK v : v = Words(w)
  OBVIOUS
<1>4. /\ v \in Seq(Wording(Vocabulary)) /\ Len(v) = Len(w) /\ Len(w) \in Nat
      /\ \A j \in 1..Len(w) : v[j] = Word(w[j])
  BY <1>2, CellsOfWords
<1>5. v \in Seq(Symbols) /\ v # <<>>
  BY <1>1, <1>3, <1>4
<1>6. Texts(v) = w
  BY <1>1, WordsAreRead
<1>7. CASE \A i \in DOMAIN w : w[i] \notin {form.variant, "quote", "newline", ",", ";"}
  <2>1. Quoted(w) = v
    BY <1>7 DEF Quoted
  <2>2. \A j \in 1..Len(v) : Ordinary(v[j])
    <3> SUFFICES ASSUME NEW j \in 1..Len(v) PROVE Ordinary(v[j])
      OBVIOUS
    <3>1. j \in DOMAIN w /\ v[j] = Word(w[j])
      BY <1>1, <1>4
    <3>2. w[j] \notin Signs
      BY <1>1, <1>7, <3>1 DEF Signs
    <3> QED BY <3>1, <3>2, OrdinarySymbols
  <2> QED BY <1>5, <1>6, <2>1, <2>2 DEF Writes
<1>8. CASE ~(\A i \in DOMAIN w : w[i] \notin {form.variant, "quote", "newline", ",", ";"})
  <2>1. Quoted(w) = InQuotes(w)
    BY <1>8 DEF Quoted, InQuotes, Doubles
  <2>2. Writes(Vocabulary, InQuotes(w), v)
    BY <1>1, <1>2 DEF Writes
  <2>3. InQuotes(w) \in Seq(Symbols)
    <3>1. FlattenSeq(Doubles(w)) \in Seq(Vocabulary)
      BY <1>1, <1>2, QuotedShape
    <3> PICK x, l : x = Words(FlattenSeq(Doubles(w))) /\ l = <<Word("quote")>>
      OBVIOUS
    <3>2. x \in Seq(Wording(Vocabulary))
      BY <3>1, CellsOfWords
    <3>3. x \in Seq(Symbols)
      BY <1>3, <3>2
    <3>4. l \in Seq(Symbols)
      BY <1>2, Lexicon, ListsOfOne
    <3>5. (l \o x) \o l \in Seq(Symbols)
      BY <3>3, <3>4, ConcatProperties
    <3> QED BY <3>5 DEF InQuotes
  <2> QED BY <1>5, <1>6, <2>1, <2>2, <2>3
<1> QED BY <1>7, <1>8

(* What a field says.                                                       *)
Content(role, t) == IF role = "desc" THEN Words(t.text) ELSE Field(role, t)

(* What each role writes.                                                   *)
LEMMA FieldOf ==
  ASSUME NEW t
  PROVE  /\ Field("date", t) = <<Printed(t.date)>>
         /\ Field("desc", t) = Quoted(t.text)
         /\ Field("amount", t) = <<Signed(t.amount)>>
         /\ Field("debit", t) = (IF t.amount < 0 THEN <<Signed(-t.amount)>> ELSE <<>>)
         /\ Field("credit", t) = (IF t.amount > 0 THEN <<Signed(t.amount)>> ELSE <<>>)
         /\ Field("balance", t) = <<Num(900, "plus")>>
BY DEF Field

(* What each role writes is read as what it says.                           *)
LEMMA FieldIsWritten ==
  ASSUME NEW t \in CsvTx, form.variant \in Cands, NEW role \in Roles
  PROVE  /\ Writes(Vocabulary, Field(role, t), Content(role, t))
         /\ Field(role, t) \in Seq(Symbols) /\ Content(role, t) \in Seq(Symbols)
         /\ role # "desc" => \A j \in 1..Len(Field(role, t)) : Ordinary(Field(role, t)[j])
<1>1. CASE role = "desc"
  BY <1>1, WordsAreWritten, FieldOf DEF Content
<1>2. CASE role # "desc"
  <2> PICK p : p = Field(role, t)
    OBVIOUS
  <2>1. Content(role, t) = p
    BY <1>2 DEF Content
  <2>2. p = <<>> \/ \E x \in Symbols : Ordinary(x) /\ p = <<x>>
    <3>1. CASE role = "date"
      <4>1. PICK k \in Int \X (1..12) \X (1..31) : Printed(t.date) = Date(k)
        BY CsvDateIsRead
      <4>2. p = <<Printed(t.date)>>
        BY <3>1, FieldOf
      <4>3. p = <<Date(k)>>
        BY <4>1, <4>2
      <4> QED BY <4>3, Lexicon, OrdinarySymbols
    <3>2. t.amount \in Int /\ -t.amount \in Int
      BY DEF CsvTx
    <3>3. CASE role = "amount"
      <4>1. p = <<Signed(t.amount)>>
        BY <3>3, FieldOf
      <4> QED BY <3>2, <4>1, Lexicon, OrdinarySymbols
    <3>4. CASE role = "debit"
      <4>1. p = <<>> \/ p = <<Signed(-t.amount)>>
        BY <3>4, FieldOf
      <4> QED BY <3>2, <4>1, Lexicon, OrdinarySymbols
    <3>5. CASE role = "credit"
      <4>1. p = <<>> \/ p = <<Signed(t.amount)>>
        BY <3>5, FieldOf
      <4> QED BY <3>2, <4>1, Lexicon, OrdinarySymbols
    <3>6. CASE role = "balance"
      <4>1. p = <<Num(900, "plus")>>
        BY <3>6, FieldOf
      <4> QED BY <4>1, Lexicon, OrdinarySymbols
    <3> QED BY <1>2, <3>1, <3>3, <3>4, <3>5, <3>6 DEF Roles
  <2>3. p \in Seq(Symbols) /\ \A j \in 1..Len(p) : Ordinary(p[j])
    <3>1. CASE p = <<>>
      BY <3>1
    <3>2. CASE \E x \in Symbols : Ordinary(x) /\ p = <<x>>
      BY <3>2, ListsOfOne
    <3> QED BY <2>2, <3>1, <3>2
  <2> QED BY <1>2, <2>1, <2>3 DEF Writes
<1> QED BY <1>1, <1>2

-----------------------------------------------------------------------------
(* The file.                                                                *)

(* The columns of a table that can be read: a date's and a description's    *)
(* among them, and no sign in a heading.                                    *)
Columns == 1..Len(form.columns)
Tabled ==
  /\ form.variant \in Cands
  /\ form.columns \in Seq(Roles \X STRING)
  /\ \A c \in Columns : Named(c) \notin Signs
  /\ \E c \in Columns : Role(c) = "date"
  /\ \E c \in Columns : Role(c) = "desc"

(* What is written in a transaction's row, and what it says; the headings,  *)
(* and the row that is none.                                                *)
TxTexts(t) == [c \in Columns |-> Field(Role(c), t)]
TxRow(t) == [c \in Columns |-> Content(Role(c), t)]
HeadRow == [c \in Columns |-> <<Word(Named(c))>>]
ClosingRow == [c \in Columns |-> IF Role(c) = "desc" THEN <<Word("closing")>> ELSE <<>>]

TextOf(P) == RowText(form.variant, P, Len(form.columns))
HeadText == IF form.head THEN TextOf(HeadRow) ELSE <<>>
GroupText(t) == TextOf(TxTexts(t)) \o (IF form.junk THEN TextOf(ClosingRow) ELSE <<>>)
GroupTexts == [i \in DOMAIN txs |-> GroupText(txs[i])]

(* A row is written so, field by field.                                     *)
LEMMA RowsAre ==
  ASSUME Tabled
  PROVE  /\ CsvRow(LAMBDA c : <<Word(c[2])>>) = TextOf(HeadRow)
         /\ CsvRow(LAMBDA c : IF c[1] = "desc" THEN <<Word("closing")>> ELSE <<>>)
              = TextOf(ClosingRow)
         /\ \A t : CsvRow(LAMBDA c : Field(c[1], t)) = TextOf(TxTexts(t))
<1>1. DOMAIN form.columns = Columns
  BY DEF Tabled, Columns
<1>2. CsvRow(LAMBDA c : <<Word(c[2])>>) = TextOf(HeadRow)
  <2>1. \A c \in Columns : <<Word(form.columns[c][2])>> = HeadRow[c]
    BY DEF HeadRow, Named
  <2> QED BY <1>1, <2>1 DEF CsvRow, TextOf, RowText, Parted, Ending, Columns
<1>3. CsvRow(LAMBDA c : IF c[1] = "desc" THEN <<Word("closing")>> ELSE <<>>) = TextOf(ClosingRow)
  <2>1. \A c \in Columns :
          (IF form.columns[c][1] = "desc" THEN <<Word("closing")>> ELSE <<>>) = ClosingRow[c]
    BY DEF ClosingRow, Role
  <2> QED BY <1>1, <2>1 DEF CsvRow, TextOf, RowText, Parted, Ending, Columns
<1>4. ASSUME NEW t PROVE CsvRow(LAMBDA c : Field(c[1], t)) = TextOf(TxTexts(t))
  <2>1. \A c \in Columns : Field(form.columns[c][1], t) = TxTexts(t)[c]
    BY DEF TxTexts, Role
  <2> QED BY <1>1, <2>1 DEF CsvRow, TextOf, RowText, Parted, Ending, Columns
<1> QED BY <1>2, <1>3, <1>4

(* The file is its mark, its headings and its transactions.                 *)
LEMMA CsvFileIs ==
  ASSUME Tabled
  PROVE  CsvFile = <<Word("bom")>> \o HeadText \o FlattenSeq(GroupTexts)
<1>1. CsvFile = <<Word("bom")>> \o (IF form.head THEN CsvRow(LAMBDA c : <<Word(c[2])>>) ELSE <<>>)
        \o FlattenSeq([i \in DOMAIN txs |-> CsvRow(LAMBDA c : Field(c[1], txs[i]))
             \o (IF form.junk
                 THEN CsvRow(LAMBDA c : IF c[1] = "desc" THEN <<Word("closing")>> ELSE <<>>)
                 ELSE <<>>)])
  BY DEF CsvFile, Lines
<1> QED BY <1>1, RowsAre DEF HeadText, GroupTexts, GroupText

(* What is written gives the rows.                                          *)
RowSet == Seq(Seq(Symbols))

(* A table has two columns at least, and its delimiter is a symbol.         *)
LEMMA TableGives ==
  ASSUME Tabled
  PROVE  /\ Len(form.columns) \in Nat \ {0, 1} /\ DOMAIN form.columns = Columns
         /\ \A c \in Columns : Role(c) \in Roles /\ Named(c) \in STRING
         /\ \A x \in Signs : Word(x) \in Symbols
         /\ Word(form.variant) \in Symbols
<1>1. Len(form.columns) \in Nat /\ DOMAIN form.columns = Columns
  BY DEF Tabled, Columns
<1>2. \A c \in Columns : Role(c) \in Roles /\ Named(c) \in STRING
  <2>1. \A c \in Columns : form.columns[c] \in Roles \X STRING
    BY DEF Tabled, Columns
  <2> QED BY <2>1 DEF Role, Named
<1>3. PICK a \in Columns, b \in Columns : Role(a) = "date" /\ Role(b) = "desc"
  BY DEF Tabled
<1>4. a # b
  BY <1>3
<1>5. Len(form.columns) \notin {0, 1}
  <2> PICK m : m = Len(form.columns)
    OBVIOUS
  <2>1. m \in Nat /\ a \in 1..m /\ b \in 1..m /\ a # b
    BY <1>1, <1>4 DEF Columns
  <2>2. m \notin {0, 1}
    BY ONLY <2>1
  <2> QED BY <2>2
<1>6. \A x \in Signs : Word(x) \in Symbols
  BY Lexicon
<1>7. form.variant \in Signs
  BY DEF Tabled, Cands, Signs
<1> QED BY <1>1, <1>2, <1>5, <1>6, <1>7

(* A row whose fields are written so gives what they say.                   *)
LEMMA RowGives ==
  ASSUME Tabled, NEW P \in [Columns -> Seq(Symbols)], NEW V \in [Columns -> Seq(Symbols)],
         \A c \in Columns : Writes(Vocabulary, P[c], V[c])
  PROVE  /\ TextOf(P) \in Seq(Symbols) /\ V \in RowSet /\ Len(V) = Len(form.columns)
         /\ Gives(form.variant, TextOf(P), <<V>>, RowSet)
<1> PICK m, S : m = Len(form.columns) /\ S = Symbols
  OBVIOUS
<1>1. m \in Nat \ {0} /\ Columns = 1..m
  BY TableGives DEF Columns
<1>2. V \in Seq(Seq(S)) /\ Len(V) = m
  <2> PICK Q : Q = Seq(S)
    OBVIOUS
  <2>1. m \in Nat /\ V \in [1..m -> Q]
    BY <1>1
  <2>2. V \in Seq(Q) /\ Len(V) = m
    BY ONLY <2>1
  <2> QED BY <2>2
<1>3. Written(Vocabulary, P, V, m)
  BY <1>1 DEF Written
<1>4. Word(form.variant) \in S /\ Word("return") \in S /\ Word("newline") \in S
      /\ "quote" \in Vocabulary
  <2>1. "return" \in Signs /\ "newline" \in Signs /\ "quote" \in Signs
    BY DEF Signs
  <2> QED BY <2>1, TableGives, Lexicon
<1>5. form.variant \in Cands /\ V \in RowSet
  BY <1>2 DEF Tabled, RowSet
<1>6. P \in [1..m -> Seq(S)]
  BY <1>1
<1>7. /\ RowText(form.variant, P, m) \in Seq(S)
      /\ Gives(form.variant, RowText(form.variant, P, m), <<V>>, RowSet)
  BY <1>1, <1>2, <1>3, <1>4, <1>5, <1>6, GivesRow
<1> QED BY <1>2, <1>5, <1>7 DEF TextOf

(* The headings, the rows that are none and the transactions do.            *)
LEMMA RowsGive ==
  ASSUME Tabled
  PROVE  /\ /\ TextOf(HeadRow) \in Seq(Symbols) /\ HeadRow \in RowSet
            /\ Gives(form.variant, TextOf(HeadRow), <<HeadRow>>, RowSet)
         /\ /\ TextOf(ClosingRow) \in Seq(Symbols) /\ ClosingRow \in RowSet
            /\ Gives(form.variant, TextOf(ClosingRow), <<ClosingRow>>, RowSet)
         /\ \A t \in CsvTx :
              /\ TextOf(TxTexts(t)) \in Seq(Symbols) /\ TxRow(t) \in RowSet
              /\ Gives(form.variant, TextOf(TxTexts(t)), <<TxRow(t)>>, RowSet)
<1>1. ASSUME NEW x \in Vocabulary, x \notin Signs
      PROVE  <<Word(x)>> \in Seq(Symbols) /\ Writes(Vocabulary, <<Word(x)>>, <<Word(x)>>)
  <2>1. Word(x) \in Symbols /\ Ordinary(Word(x))
    BY <1>1, Lexicon, OrdinarySymbols
  <2> QED BY <2>1, ListsOfOne DEF Writes
<1>2. <<>> \in Seq(Symbols) /\ Writes(Vocabulary, <<>>, <<>>)
  BY DEF Writes
<1>3. /\ HeadRow \in [Columns -> Seq(Symbols)]
      /\ \A c \in Columns : Writes(Vocabulary, HeadRow[c], HeadRow[c])
  <2>1. \A c \in Columns : Named(c) \in Vocabulary /\ Named(c) \notin Signs
    <3>1. \A c \in Columns : Named(c) \in STRING
      BY TableGives
    <3>2. \A c \in Columns : Named(c) \notin Signs
      BY DEF Tabled
    <3> QED BY <3>1, <3>2, Lexicon
  <2> QED BY <1>1, <2>1 DEF HeadRow
<1>4. /\ ClosingRow \in [Columns -> Seq(Symbols)]
      /\ \A c \in Columns : Writes(Vocabulary, ClosingRow[c], ClosingRow[c])
  <2>1. "closing" \in Vocabulary /\ "closing" \notin Signs
    <3>1. "closing" \notin Signs
      BY DEF Signs
    <3> QED BY <3>1, Lexicon
  <2> QED BY <1>1, <1>2, <2>1 DEF ClosingRow
<1>5. ASSUME NEW t \in CsvTx
      PROVE  /\ TxTexts(t) \in [Columns -> Seq(Symbols)] /\ TxRow(t) \in [Columns -> Seq(Symbols)]
             /\ \A c \in Columns : Writes(Vocabulary, TxTexts(t)[c], TxRow(t)[c])
  <2>1. form.variant \in Cands
    BY DEF Tabled
  <2>2. ASSUME NEW c \in Columns
        PROVE  /\ Writes(Vocabulary, Field(Role(c), t), Content(Role(c), t))
               /\ Field(Role(c), t) \in Seq(Symbols) /\ Content(Role(c), t) \in Seq(Symbols)
    <3>1. Role(c) \in Roles
      BY TableGives
    <3> QED BY <2>1, <3>1, FieldIsWritten
  <2> QED BY <2>2 DEF TxTexts, TxRow
<1> QED BY <1>3, <1>4, <1>5, RowGives

(* The text after its mark, and the rows that it says.                      *)
TableText == HeadText \o FlattenSeq(GroupTexts)
HeadRows == IF form.head THEN <<HeadRow>> ELSE <<>>
GroupRows == [i \in DOMAIN txs |->
                IF form.junk THEN <<TxRow(txs[i]), ClosingRow>> ELSE <<TxRow(txs[i])>>]
DataRows == FlattenSeq(GroupRows)
Stated == txs \in Seq(CsvTx) /\ txs # <<>>

(* A statement has a first transaction, and each can be said.               *)
LEMMA StatedAre ==
  ASSUME Stated
  PROVE  /\ Len(txs) \in Nat \ {0} /\ DOMAIN txs = 1..Len(txs)
         /\ \A i \in 1..Len(txs) : txs[i] \in CsvTx
BY DEF Stated

(* A list of two rows.                                                      *)
LEMMA ListsOfTwo ==
  ASSUME NEW Y, NEW v \in Y, NEW w \in Y
  PROVE  /\ <<v>> \in Seq(Y) /\ <<w>> \in Seq(Y) /\ <<v, w>> \in Seq(Y)
         /\ <<v>> \o <<w>> = <<v, w>>
<1>1. <<v>> \in Seq(Y) /\ <<w>> \in Seq(Y) /\ <<v, w>> \in Seq(Y)
  OBVIOUS
<1>2. Append(<<v>>, w) = <<v>> \o <<w>>
  BY <1>1, AppendIsConcat
<1>3. Append(<<v>>, w) = <<v, w>>
  <2> PICK l, x, y : l = <<v>> /\ x = Append(l, w) /\ y = <<v, w>>
    OBVIOUS
  <2>1. l \in Seq(Y) /\ Len(l) = 1 /\ l[1] = v
    OBVIOUS
  <2>2. x \in Seq(Y) /\ Len(x) = 2 /\ x[1] = v /\ x[2] = w
    BY <2>1, AppendProperties
  <2>3. y \in Seq(Y) /\ Len(y) = 2 /\ y[1] = v /\ y[2] = w
    OBVIOUS
  <2>4. \A i \in 1..2 : x[i] = y[i]
    BY <2>2, <2>3
  <2>5. x = y
    BY ONLY <2>2, <2>3, <2>4
  <2> QED BY <2>5
<1> QED BY <1>1, <1>2, <1>3

(* What is written for a transaction gives its rows.                        *)
LEMMA GroupGives ==
  ASSUME Tabled, NEW t \in CsvTx
  PROVE  LET rows == IF form.junk THEN <<TxRow(t), ClosingRow>> ELSE <<TxRow(t)>>
         IN  /\ GroupText(t) \in Seq(Symbols) /\ rows \in Seq(RowSet)
             /\ Gives(form.variant, GroupText(t), rows, RowSet)
<1> PICK x, y, v, w, d : /\ x = TextOf(TxTexts(t)) /\ y = TextOf(ClosingRow)
                         /\ v = TxRow(t) /\ w = ClosingRow /\ d = form.variant
  OBVIOUS
<1>1. /\ x \in Seq(Symbols) /\ v \in RowSet /\ Gives(d, x, <<v>>, RowSet)
      /\ y \in Seq(Symbols) /\ w \in RowSet /\ Gives(d, y, <<w>>, RowSet)
  BY RowsGive
<1>2. <<v>> \in Seq(RowSet) /\ <<w>> \in Seq(RowSet) /\ <<v, w>> \in Seq(RowSet)
      /\ <<v>> \o <<w>> = <<v, w>>
  BY <1>1, ListsOfTwo
<1>3. CASE form.junk
  <2>1. GroupText(t) = x \o y
    BY <1>3 DEF GroupText
  <2>2. Gives(d, x \o y, <<v>> \o <<w>>, RowSet)
    BY <1>1, <1>2, GivesBoth
  <2>3. x \o y \in Seq(Symbols)
    BY <1>1, ConcatProperties
  <2> QED BY <1>2, <1>3, <2>1, <2>2, <2>3
<1>4. CASE ~form.junk
  <2>1. GroupText(t) = x \o <<>>
    BY <1>4 DEF GroupText
  <2>2. x \o <<>> = x
    BY <1>1, ConcatEmptySeq
  <2> QED BY <1>1, <1>2, <1>4, <2>1, <2>2
<1> QED BY <1>3, <1>4

(* The text after its mark gives all rows.                                  *)
LEMMA TextGives ==
  ASSUME Tabled, Stated
  PROVE  /\ TableText \in Seq(Symbols) /\ FlattenSeq(GroupTexts) \in Seq(Symbols)
         /\ HeadText \in Seq(Symbols)
         /\ HeadRows \in Seq(RowSet) /\ DataRows \in Seq(RowSet)
         /\ HeadRows \o DataRows \in Seq(RowSet)
         /\ Gives(form.variant, TableText, HeadRows \o DataRows, RowSet)
<1> PICK n, q, B, d, S, Y : /\ n = Len(txs) /\ q = GroupTexts /\ B = GroupRows
                            /\ d = form.variant /\ S = Symbols /\ Y = RowSet
  OBVIOUS
<1>1. n \in Nat \ {0} /\ DOMAIN txs = 1..n /\ \A i \in 1..n : txs[i] \in CsvTx
  BY StatedAre
<1>2. \A i \in 1..n : q[i] \in Seq(S) /\ B[i] \in Seq(Y) /\ Gives(d, q[i], B[i], Y)
  <2> SUFFICES ASSUME NEW i \in 1..n
               PROVE  q[i] \in Seq(S) /\ B[i] \in Seq(Y) /\ Gives(d, q[i], B[i], Y)
    OBVIOUS
  <2> PICK t : t = txs[i]
    OBVIOUS
  <2>1. t \in CsvTx
    BY <1>1
  <2>2. q[i] = GroupText(t) /\ B[i] = IF form.junk THEN <<TxRow(t), ClosingRow>> ELSE <<TxRow(t)>>
    BY <1>1 DEF GroupTexts, GroupRows
  <2> QED BY <2>1, <2>2, GroupGives
<1>3. q \in [1..n -> Seq(S)] /\ B \in [1..n -> Seq(Y)]
  <2>1. q = [i \in 1..n |-> q[i]] /\ B = [i \in 1..n |-> B[i]]
    BY <1>1 DEF GroupTexts, GroupRows
  <2> QED BY <1>2, <2>1
<1> PICK e, X, h, H : e = FlattenSeq(q) /\ X = FlattenSeq(B) /\ h = HeadText /\ H = HeadRows
  OBVIOUS
<1>4. e \in Seq(S) /\ X \in Seq(Y) /\ Gives(d, e, X, Y)
  BY <1>1, <1>2, <1>3, GivesAll
<1>5. h \in Seq(S) /\ H \in Seq(Y) /\ Gives(d, h, H, Y)
  <2>1. CASE form.head
    <3>1. h = TextOf(HeadRow) /\ H = <<HeadRow>>
      BY <2>1 DEF HeadText, HeadRows
    <3> QED BY <3>1, RowsGive, ListsOfOne
  <2>2. CASE ~form.head
    <3>1. h = <<>> /\ H = <<>>
      BY <2>2 DEF HeadText, HeadRows
    <3> QED BY <3>1, GivesNone
  <2> QED BY <2>1, <2>2
<1>6. Gives(d, h \o e, H \o X, Y)
  BY <1>4, <1>5, GivesBoth
<1>7. h \o e \in Seq(S) /\ H \o X \in Seq(Y)
  BY <1>4, <1>5, ConcatProperties
<1> QED BY <1>4, <1>5, <1>6, <1>7 DEF TableText, DataRows

(* The mark at the beginning is left out.                                   *)
LEMMA MarkIsStripped ==
  ASSUME Tabled, Stated
  PROVE  StripBom(CsvFile) = TableText
<1> PICK S, a, h, e, f : /\ S = Symbols \cup {Word("bom")} /\ a = Word("bom")
                         /\ h = HeadText /\ e = FlattenSeq(GroupTexts) /\ f = CsvFile
  OBVIOUS
<1>1. h \in Seq(S) /\ e \in Seq(S) /\ a \in S
  <2>1. Symbols \subseteq S /\ a \in S
    OBVIOUS
  <2>2. h \in Seq(Symbols) /\ e \in Seq(Symbols)
    BY TextGives
  <2> QED BY <2>1, <2>2, SeqOfMore
<1>2. f = <<a>> \o h \o e
  BY CsvFileIs
<1>3. <<a>> \in Seq(S)
  BY <1>1
<1> PICK z : z = h \o e
  OBVIOUS
<1>4. z \in Seq(S) /\ f = <<a>> \o z
  BY <1>1, <1>2, <1>3, ConcatProperties, ConcatAssociative
<1>5. f \in Seq(S) /\ Followed(f, <<a>>, z)
  BY <1>3, <1>4, Concats
<1>6. Len(f) = 1 + Len(z) /\ f[1] = a /\ Len(z) \in Nat /\ \A i \in 1..Len(z) : f[1 + i] = z[i]
  <2>1. Len(<<a>>) = 1 /\ <<a>>[1] = a /\ 1 \in 1..1
    OBVIOUS
  <2> QED BY <1>5, <2>1 DEF Followed
<1>7. f # <<>> /\ Is(f[1], "bom")
  <2>1. Is(a, "bom")
    BY PartsOfWord DEF Is
  <2>2. Len(f) # 0
    BY <1>6
  <2> QED BY <1>6, <2>1, <2>2
<1>8. Tail(f) = z
  <2>1. /\ Tail(f) \in Seq(S) /\ Len(Tail(f)) = Len(f) - 1
        /\ \A i \in 1..Len(Tail(f)) : Tail(f)[i] = f[i + 1]
    BY <1>5, <1>7, HeadTailProperties
  <2> PICK y : y = Tail(f)
    OBVIOUS
  <2>2. y \in Seq(S) /\ Len(y) = Len(z)
    BY <1>6, <2>1
  <2>3. \A i \in 1..Len(z) : i + 1 = 1 + i
    BY <1>6
  <2>4. \A i \in 1..Len(z) : y[i] = z[i]
    BY <1>6, <2>1, <2>2, <2>3
  <2> QED BY <1>4, <2>2, <2>4
<1>9. StripBom(f) = Tail(f)
  BY <1>7 DEF StripBom
<1> QED BY <1>8, <1>9 DEF TableText

(* The rows of the data.                                                    *)
LEMMA DataRowsAre ==
  ASSUME Tabled, Stated
  PROVE  /\ form.junk => /\ Len(DataRows) = 2 * Len(txs)
                         /\ \A i \in 1..Len(txs) : /\ DataRows[2 * i - 1] = TxRow(txs[i])
                                                   /\ DataRows[2 * i] = ClosingRow
         /\ ~form.junk => /\ Len(DataRows) = Len(txs)
                          /\ \A i \in 1..Len(txs) : DataRows[i] = TxRow(txs[i])
<1> PICK n, Y : n = Len(txs) /\ Y = RowSet
  OBVIOUS
<1>1. n \in Nat \ {0} /\ DOMAIN txs = 1..n /\ \A i \in 1..n : txs[i] \in CsvTx
  BY StatedAre
<1> PICK v : v = [i \in 1..n |-> TxRow(txs[i])]
  OBVIOUS
<1>2. v \in [1..n -> Y] /\ \A i \in 1..n : v[i] = TxRow(txs[i])
  <2>1. \A i \in 1..n : TxRow(txs[i]) \in Y
    BY <1>1, RowsGive
  <2> QED BY <2>1
<1> PICK c : c = ClosingRow
  OBVIOUS
<1>3. c \in Y
  BY RowsGive
<1>4. CASE form.junk
  <2>1. GroupRows = [i \in 1..n |-> <<v[i], c>>]
    BY <1>1, <1>2, <1>4 DEF GroupRows
  <2> PICK X, B : X = DataRows /\ B = GroupRows
    OBVIOUS
  <2>2. X = FlattenSeq(B) /\ B = [i \in 1..n |-> <<v[i], c>>]
    BY <2>1 DEF DataRows
  <2>4. B \in [1..n -> Seq(Y)] /\ \A i \in 1..n : B[i] = <<v[i], c>>
    <3>1. \A i \in 1..n : <<v[i], c>> \in Seq(Y)
      BY <1>2, <1>3, ListsOfTwo
    <3> QED BY <2>2, <3>1
  <2>5. Pairs(B, v, c, n)
    <3> SUFFICES ASSUME NEW i \in 1..n
                 PROVE  Len(B[i]) = 2 /\ B[i][1] = v[i] /\ B[i][2] = c
      BY DEF Pairs
    <3> PICK b, x : b = B[i] /\ x = v[i]
      OBVIOUS
    <3>1. b = <<x, c>>
      BY <2>4
    <3> QED BY <3>1
  <2>6. n \in Nat \ {0} /\ B \in [1..n -> Seq(Y)] /\ X = FlattenSeq(B)
    BY <1>1, <2>2, <2>4
  <2>3. Len(X) = 2 * n /\ Alternate(X, v, c, n)
    BY ONLY <2>5, <2>6, TwoEach
  <2> QED BY <1>2, <1>4, <2>3 DEF Alternate
<1>5. CASE ~form.junk
  <2>1. GroupRows = [i \in 1..n |-> <<v[i]>>]
    BY <1>1, <1>2, <1>5 DEF GroupRows
  <2> PICK X, B : X = DataRows /\ B = GroupRows
    OBVIOUS
  <2>2. X = FlattenSeq(B) /\ B = [i \in 1..n |-> <<v[i]>>]
    BY <2>1 DEF DataRows
  <2>4. B \in [1..n -> Seq(Y)] /\ \A i \in 1..n : B[i] = <<v[i]>>
    <3>1. \A i \in 1..n : <<v[i]>> \in Seq(Y)
      BY <1>2, ListsOfOne
    <3> QED BY <2>2, <3>1
  <2>5. Singles(B, v, n)
    <3>1. \A i \in 1..n : B[i] = <<v[i]>>
      BY <2>4
    <3> QED BY ONLY <3>1 DEF Singles
  <2>6. n \in Nat \ {0} /\ B \in [1..n -> Seq(Y)] /\ X = FlattenSeq(B)
    BY <1>1, <2>2, <2>4
  <2>3. Len(X) = n /\ \A i \in 1..n : X[i] = v[i]
    BY ONLY <2>5, <2>6, OneEach
  <2> QED BY <1>2, <1>5, <2>3
<1> QED BY <1>4, <1>5

(* A text that begins with a row whose first field has no signs has the     *)
(* delimiter after that field.                                              *)
Opens(text) ==
  \E a \in 1..Len(text) :
    /\ Is(text[a], form.variant)
    /\ \A j \in 1..(a - 1) : ~Is(text[j], "quote") /\ ~Is(text[j], "newline")

(* After the first field of a row stands the delimiter.                     *)
LEMMA RowOpens ==
  ASSUME Tabled, NEW P \in [Columns -> Seq(Symbols)],
         \A j \in 1..Len(P[1]) : Ordinary(P[1][j]),
         NEW text, Len(text) \in Nat, Len(TextOf(P)) <= Len(text), Piece(text, 0, TextOf(P))
  PROVE  Opens(text)
<1> PICK m, S, d, r : m = Len(form.columns) /\ S = Symbols /\ d = form.variant /\ r = TextOf(P)
  OBVIOUS
<1>1. /\ m \in Nat \ {0, 1} /\ Columns = 1..m
      /\ Word(d) \in S /\ Word("return") \in S /\ Word("newline") \in S
  BY TableGives DEF Columns, Signs
<1>2. m \in Nat \ {0} /\ P \in [1..m -> Seq(S)] /\ r = RowText(d, P, m)
  BY <1>1 DEF TextOf
<1>3. PICK g : Row(r, d, P, m, g)
  BY <1>1, <1>2, RowShape
<1> PICK k : k = Len(P[1])
  OBVIOUS
<1>4. /\ k \in Nat /\ k + 2 <= Len(r) /\ Piece(r, 0, P[1])
      /\ r[k + 1] = Word(d) /\ Len(r) \in Nat
  <2>0. m \in Nat \ {0, 1}
    BY <1>1
  <2>1. 1 \in 1..m /\ 1 \in 1..(m - 1)
    BY ONLY <2>0
  <2>2. /\ g[1] = 0 /\ Len(P[1]) \in Nat /\ g[1] + Len(P[1]) + 2 <= Len(r)
        /\ Piece(r, g[1], P[1]) /\ r[g[1] + Len(P[1]) + 1] = Word(d) /\ Len(r) \in Nat
    BY <1>3, <2>1 DEF Row
  <2>3. 0 + k + 2 <= Len(r) /\ r[0 + k + 1] = Word(d) /\ k \in Nat
    BY <2>2
  <2>4. 0 + k + 2 = k + 2 /\ 0 + k + 1 = k + 1
    BY <2>3
  <2> QED BY <2>2, <2>3, <2>4
<1>5. \A j \in 1..Len(r) : text[j] = r[j]
  <2>1. \A j \in 1..Len(r) : text[0 + j] = r[j] /\ 0 + j = j
    BY DEF Piece
  <2> QED BY <2>1
<1>6. \A j \in 1..k : r[j] = P[1][j]
  <2>1. \A j \in 1..k : r[0 + j] = P[1][j] /\ 0 + j = j
    BY <1>4 DEF Piece
  <2> QED BY <2>1
<1>7. k + 1 \in 1..Len(text) /\ k + 1 \in 1..Len(r) /\ Is(text[k + 1], d)
  <2>1. k + 1 \in 1..Len(text) /\ k + 1 \in 1..Len(r)
    BY <1>4
  <2>2. text[k + 1] = Word(d)
    BY <1>4, <1>5, <2>1
  <2> QED BY <2>1, <2>2, PartsOfWord DEF Is
<1>8. ASSUME NEW j \in 1..((k + 1) - 1)
      PROVE  ~Is(text[j], "quote") /\ ~Is(text[j], "newline")
  <2>1. j \in 1..k /\ j \in 1..Len(r)
    BY <1>4
  <2>2. text[j] = P[1][j] /\ Ordinary(P[1][j])
    BY <1>5, <1>6, <2>1
  <2> QED BY <2>2 DEF Ordinary, Is, Signs
<1> QED BY <1>7, <1>8 DEF Opens

(* The first field of a file has no signs when it is a heading or when it   *)
(* is not the description.                                                  *)
LEMMA TableOpens ==
  ASSUME Tabled, Stated, form.head \/ Role(1) # "desc"
  PROVE  Opens(TableText)
<1> PICK n, q, e, S, h : /\ n = Len(txs) /\ q = GroupTexts /\ e = FlattenSeq(q) /\ S = Symbols
                         /\ h = HeadText
  OBVIOUS
<1>1. /\ TableText \in Seq(S) /\ e \in Seq(S) /\ h \in Seq(S) /\ TableText = h \o e
      /\ Len(TableText) \in Nat
  BY TextGives DEF TableText
<1>2. 1 \in Columns
  BY TableGives DEF Columns
<1>3. CASE form.head
  <2>1. h = TextOf(HeadRow)
    BY <1>3 DEF HeadText
  <2>2. Followed(TableText, h, e)
    BY <1>1, Concats
  <2>3. Piece(TableText, 0, TableText)
    BY DEF Piece
  <2>4. Piece(TableText, 0, h)
    BY <2>2, <2>3, PiecesOfBoth
  <2>5. Len(h) <= Len(TableText)
    BY <1>1, <2>2 DEF Followed
  <2>6. \A c \in Columns : Word(Named(c)) \in Symbols /\ Ordinary(Word(Named(c)))
    BY TableGives, Lexicon, OrdinarySymbols DEF Tabled
  <2>7. \A c \in Columns : <<Word(Named(c))>> \in Seq(Symbols)
    BY <2>6, ListsOfOne
  <2>8. HeadRow \in [Columns -> Seq(Symbols)]
    BY <2>7 DEF HeadRow
  <2>9. \A j \in 1..Len(HeadRow[1]) : Ordinary(HeadRow[1][j])
    <3>1. HeadRow[1] = <<Word(Named(1))>>
      BY <1>2 DEF HeadRow
    <3>2. \A j \in 1..Len(<<Word(Named(1))>>) : Ordinary(<<Word(Named(1))>>[j])
      BY <1>2, <2>6, ListsOfOne
    <3> QED BY <3>1, <3>2
  <2> QED BY <1>1, <2>1, <2>4, <2>5, <2>8, <2>9, RowOpens
<1>4. CASE ~form.head
  <2>1. TableText = e
    BY <1>1, <1>4 DEF HeadText
  <2>2. n \in Nat \ {0} /\ DOMAIN txs = 1..n /\ txs[1] \in CsvTx
    BY StatedAre
  <2> PICK t, r : t = txs[1] /\ r = TextOf(TxTexts(t))
    OBVIOUS
  <2>3. \A i \in 1..n : q[i] \in Seq(S)
    <3> SUFFICES ASSUME NEW i \in 1..n PROVE q[i] \in Seq(S)
      OBVIOUS
    <3>1. txs[i] \in CsvTx
      BY StatedAre
    <3>2. q[i] = GroupText(txs[i])
      BY <2>2 DEF GroupTexts
    <3> QED BY <3>1, <3>2, GroupGives
  <2>4. q \in [1..n -> Seq(S)]
    <3>1. q = [i \in 1..n |-> q[i]]
      BY <2>2 DEF GroupTexts
    <3> QED BY <2>3, <3>1
  <2>5. Laid(e, q, n)
    BY <2>2, <2>4, FlattenAt
  <2>6. Len(q[1]) <= Len(e) /\ \A j \in 1..Len(q[1]) : e[j] = q[1][j]
    <3>1. 0 \in 0..(n - 1) /\ 1 \in 0..n /\ 0 + 1 = 1
      BY <2>2
    <3>2. /\ Len(e) = Offset(q, n) /\ Offset(q, 1) \in 0..Offset(q, n)
          /\ Offset(q, 0 + 1) = Offset(q, 0) + Len(q[0 + 1])
          /\ \A j \in 1..Len(q[0 + 1]) : e[Offset(q, 0) + j] = q[0 + 1][j]
      BY <2>5, <3>1 DEF Laid
    <3>3. Offset(q, 0) = 0
      BY DEF Offset
    <3>4. q[1] \in Seq(S) /\ Len(q[1]) \in Nat
      BY <2>2, <2>3
    <3> PICK l, a, N : l = Len(q[1]) /\ a = Offset(q, 1) /\ N = Offset(q, n)
      OBVIOUS
    <3>5. /\ l \in Nat /\ Len(e) \in Nat /\ Len(e) = N /\ a \in 0..N /\ a = 0 + l
          /\ \A j \in 1..l : e[0 + j] = q[1][j]
      <4>1. l \in Nat /\ Len(e) \in Nat
        BY <1>1, <3>4
      <4>2. Len(e) = N /\ a \in 0..N
        BY <3>2
      <4>3. a = 0 + l
        BY <3>1, <3>2, <3>3
      <4>4. \A j \in 1..l : e[0 + j] = q[1][j]
        BY <3>1, <3>2, <3>3
      <4> QED BY <4>1, <4>2, <4>3, <4>4
    <3>6. l <= Len(e) /\ \A j \in 1..l : 0 + j = j
      BY ONLY <3>5
    <3> QED BY <3>5, <3>6
  <2>7. Piece(TableText, 0, q[1])
    <3>1. q[1] \in Seq(S)
      BY <2>2, <2>3
    <3>2. \A j \in 1..Len(q[1]) : 0 + j = j
      BY <3>1
    <3> QED BY <2>1, <2>6, <3>2 DEF Piece
  <2>8. r \in Seq(S) /\ TextOf(ClosingRow) \in Seq(S)
    BY <2>2, RowsGive
  <2> PICK z : z = IF form.junk THEN TextOf(ClosingRow) ELSE <<>>
    OBVIOUS
  <2>9. z \in Seq(S) /\ q[1] = r \o z
    <3>1. q[1] = GroupText(t)
      BY <2>2 DEF GroupTexts
    <3> QED BY <2>8, <3>1 DEF GroupText
  <2>10. Followed(q[1], r, z)
    BY <2>8, <2>9, Concats
  <2>11. Piece(TableText, 0, r)
    BY <2>7, <2>10, PiecesOfBoth
  <2>12. Len(r) <= Len(TableText)
    <3>1. Len(r) \in Nat /\ Len(z) \in Nat /\ Len(q[1]) = Len(r) + Len(z)
      BY <2>10 DEF Followed
    <3> PICK a, b, c : a = Len(r) /\ b = Len(z) /\ c = Len(e)
      OBVIOUS
    <3>2. a \in Nat /\ b \in Nat /\ c \in Nat /\ a + b <= c
      BY <1>1, <2>1, <2>6, <3>1
    <3>3. a <= c
      BY ONLY <3>2
    <3> QED BY <2>1, <3>3
  <2>13. /\ TxTexts(t) \in [Columns -> Seq(Symbols)]
         /\ \A j \in 1..Len(TxTexts(t)[1]) : Ordinary(TxTexts(t)[1][j])
    <3>1. form.variant \in Cands /\ t \in CsvTx
      BY <2>2 DEF Tabled
    <3>2. \A c \in Columns : Role(c) \in Roles /\ Field(Role(c), t) \in Seq(Symbols)
      BY <3>1, TableGives, FieldIsWritten
    <3>3. TxTexts(t) \in [Columns -> Seq(Symbols)]
      BY <3>2 DEF TxTexts
    <3>4. TxTexts(t)[1] = Field(Role(1), t)
      BY <1>2 DEF TxTexts
    <3> PICK o : o = Role(1)
      OBVIOUS
    <3>5. o \in Roles /\ o # "desc"
      BY <1>2, <1>4, <3>2
    <3>6. \A j \in 1..Len(Field(o, t)) : Ordinary(Field(o, t)[j])
      BY <3>1, <3>5, FieldIsWritten
    <3> QED BY <3>3, <3>4, <3>6
  <2> QED BY <1>1, <2>11, <2>12, <2>13, RowOpens
<1> QED BY <1>3, <1>4

(* No row of the file is blank.                                             *)
LEMMA RowsSaySomething ==
  ASSUME Tabled
  PROVE  ~Blank(HeadRow) /\ ~Blank(ClosingRow) /\ \A t \in CsvTx : ~Blank(TxRow(t))
<1>1. \A x : <<x>> # <<>>
  OBVIOUS
<1>2. ~Blank(HeadRow)
  <2>1. 1 \in Columns
    BY TableGives DEF Columns
  <2>2. 1 \in DOMAIN HeadRow /\ HeadRow[1] = <<Word(Named(1))>>
    BY <2>1 DEF HeadRow
  <2> QED BY <1>1, <2>2 DEF Blank
<1>3. ~Blank(ClosingRow)
  <2>1. PICK c \in Columns : Role(c) = "desc"
    BY DEF Tabled
  <2>2. c \in DOMAIN ClosingRow /\ ClosingRow[c] = <<Word("closing")>>
    BY <2>1 DEF ClosingRow
  <2> QED BY <1>1, <2>2 DEF Blank
<1>4. ASSUME NEW t \in CsvTx PROVE ~Blank(TxRow(t))
  <2>1. PICK c \in Columns : Role(c) = "date"
    BY DEF Tabled
  <2>2. c \in DOMAIN TxRow(t) /\ TxRow(t)[c] = Content("date", t)
    BY <2>1 DEF TxRow
  <2>3. Content("date", t) = <<Printed(t.date)>>
    BY FieldOf DEF Content
  <2> QED BY <1>1, <2>2, <2>3 DEF Blank
<1> QED BY <1>2, <1>3, <1>4

(* The rows of the data are those of the transactions and the ones that are *)
(* none; there is a first, and it is the first transaction's.               *)
LEMMA DataRowsHave ==
  ASSUME Tabled, Stated
  PROVE  /\ DataRows \in Seq(RowSet) /\ DataRows # <<>> /\ 1 \in DOMAIN DataRows
         /\ DataRows[1] = TxRow(txs[1])
         /\ \A i \in DOMAIN DataRows : ~Blank(DataRows[i])
<1> PICK n, X : n = Len(txs) /\ X = DataRows
  OBVIOUS
<1>1. n \in Nat \ {0} /\ \A i \in 1..n : txs[i] \in CsvTx
  BY StatedAre
<1>2. X \in Seq(RowSet) /\ DOMAIN X = 1..Len(X) /\ Len(X) \in Nat
  BY TextGives
<1>3. ~Blank(ClosingRow) /\ \A i \in 1..n : ~Blank(TxRow(txs[i]))
  BY <1>1, RowsSaySomething
<1>4. CASE form.junk
  <2>1. /\ Len(X) = 2 * n
        /\ \A i \in 1..n : X[2 * i - 1] = TxRow(txs[i]) /\ X[2 * i] = ClosingRow
    BY <1>4, DataRowsAre
  <2>2. 1 \in 1..n /\ 2 * 1 - 1 = 1 /\ 1 \in 1..(2 * n)
    BY <1>1
  <2>3. X[1] = TxRow(txs[1]) /\ 1 \in DOMAIN X
    BY <1>2, <2>1, <2>2
  <2>4. ASSUME NEW i \in 1..(2 * n) PROVE ~Blank(X[i])
    <3>1. \E k \in 1..n : i = 2 * k - 1 \/ i = 2 * k
      <4>1. i \in 1..(2 * n) /\ n \in Nat
        BY <1>1
      <4>2. (i + 1) \div 2 \in 1..n /\ (i = 2 * ((i + 1) \div 2) - 1 \/ i = 2 * ((i + 1) \div 2))
        BY ONLY <4>1
      <4> QED BY <4>2
    <3>2. PICK k \in 1..n : i = 2 * k - 1 \/ i = 2 * k
      BY <3>1
    <3>3. X[2 * k - 1] = TxRow(txs[k]) /\ X[2 * k] = ClosingRow
      BY <2>1
    <3> QED BY <1>3, <3>2, <3>3
  <2>5. X # <<>>
    BY <2>3
  <2> QED BY <1>2, <2>1, <2>3, <2>4, <2>5
<1>5. CASE ~form.junk
  <2>1. Len(X) = n /\ \A i \in 1..n : X[i] = TxRow(txs[i])
    BY <1>5, DataRowsAre
  <2>2. 1 \in 1..n
    BY <1>1
  <2>3. X[1] = TxRow(txs[1]) /\ 1 \in DOMAIN X
    BY <1>2, <2>1, <2>2
  <2>4. X # <<>>
    BY <2>3
  <2> QED BY <1>2, <1>3, <2>1, <2>3, <2>4
<1> QED BY <1>4, <1>5

(* What follows a first element is the tail.                                *)
LEMMA TailOfFirst ==
  ASSUME NEW Y, NEW x \in Y, NEW b \in Seq(Y)
  PROVE  /\ (<<x>> \o b) \in Seq(Y) /\ (<<x>> \o b)[1] = x /\ (<<x>> \o b) # <<>>
         /\ Tail(<<x>> \o b) = b
         /\ \A i \in DOMAIN (<<x>> \o b) : i = 1 \/ (<<x>> \o b)[i] \in {b[j] : j \in DOMAIN b}
<1> PICK l, f : l = <<x>> /\ f = l \o b
  OBVIOUS
<1>1. l \in Seq(Y) /\ Len(l) = 1 /\ l[1] = x /\ 1 \in 1..1
  OBVIOUS
<1>2. f \in Seq(Y) /\ Followed(f, l, b)
  BY <1>1, Concats
<1>3. /\ Len(f) = 1 + Len(b) /\ f[1] = x /\ Len(b) \in Nat
      /\ \A i \in 1..Len(b) : f[1 + i] = b[i]
  BY <1>1, <1>2 DEF Followed
<1>4. f # <<>>
  <2>1. Len(f) # 0
    BY <1>3
  <2> QED BY <2>1
<1>5. Tail(f) = b
  <2>1. /\ Tail(f) \in Seq(Y) /\ Len(Tail(f)) = Len(f) - 1
        /\ \A i \in 1..Len(Tail(f)) : Tail(f)[i] = f[i + 1]
    BY <1>2, <1>4, HeadTailProperties
  <2> PICK y : y = Tail(f)
    OBVIOUS
  <2>2. y \in Seq(Y) /\ Len(y) = Len(b)
    BY <1>3, <2>1
  <2>3. \A i \in 1..Len(b) : i + 1 = 1 + i
    BY <1>3
  <2>4. \A i \in 1..Len(b) : y[i] = b[i]
    BY <1>3, <2>1, <2>2, <2>3
  <2> QED BY <2>2, <2>4
<1>6. ASSUME NEW i \in DOMAIN f, i # 1 PROVE f[i] \in {b[j] : j \in DOMAIN b}
  <2> PICK N, k : N = Len(b) /\ k = i - 1
    OBVIOUS
  <2>1. N \in Nat /\ i \in 1..(1 + N) /\ DOMAIN b = 1..N
    BY <1>2, <1>3
  <2>2. k \in 1..N /\ 1 + k = i
    BY <1>6, <2>1
  <2>3. f[1 + k] = b[k]
    BY <1>3, <2>2
  <2> QED BY <2>1, <2>2, <2>3
<1> QED BY <1>2, <1>3, <1>4, <1>5, <1>6

(* The rows that are read are the rows that were written.                   *)
LEMMA TableIsRead ==
  ASSUME Tabled, Stated, form.head \/ Role(1) # "desc"
  PROVE  ParseRows(TableText, DetectDelimiter(TableText)) = HeadRows \o DataRows
<1> PICK text, d, n, b, S, Y : /\ text = TableText /\ d = form.variant /\ n = Len(text)
                               /\ b = HeadRows \o DataRows /\ S = Symbols /\ Y = RowSet
  OBVIOUS
<1>1. text \in Seq(S) /\ b \in Seq(Y) /\ Gives(d, text, b, Y)
  BY TextGives
<1>2. ParseRows(text, d) = Filled(b) /\ \A i \in DOMAIN text : Calm(text, d, i)
  BY <1>1, TextIsRead
<1>3. Sized(text, n)
  BY <1>1 DEF Sized
<1>4. PICK a \in 1..n :
        Is(text[a], d) /\ \A j \in 1..(a - 1) : ~Is(text[j], "quote") /\ ~Is(text[j], "newline")
  BY TableOpens DEF Opens
<1>5. d \in Cands
  BY DEF Tabled
<1>6. DetectDelimiter(text) = d
  BY <1>2, <1>3, <1>4, <1>5, DelimiterIsFound
<1>7. \A i \in DOMAIN b : ~Blank(b[i])
  <2> PICK X : X = DataRows
    OBVIOUS
  <2>1. X \in Seq(Y) /\ \A i \in DOMAIN X : ~Blank(X[i])
    BY DataRowsHave
  <2>2. CASE form.head
    <3> PICK x : x = HeadRow
      OBVIOUS
    <3>1. x \in Y /\ ~Blank(x) /\ b = <<x>> \o X
      BY <2>2, RowsGive, RowsSaySomething DEF HeadRows
    <3>2. b[1] = x /\ \A i \in DOMAIN b : i = 1 \/ b[i] \in {X[j] : j \in DOMAIN X}
      BY <2>1, <3>1, TailOfFirst
    <3> QED BY <2>1, <3>1, <3>2
  <2>3. CASE ~form.head
    <3>1. b = <<>> \o X
      BY <2>3 DEF HeadRows
    <3>2. b = X
      BY <2>1, <3>1, ConcatEmptySeq
    <3> QED BY <2>1, <3>2
  <2> QED BY <2>2, <2>3
<1>8. Filled(b) = b
  BY <1>1, <1>7, AllFilled
<1> QED BY <1>2, <1>6, <1>8

(* The columns that a mapping names hold what it takes them for; of an      *)
(* amount in two columns nothing is known when it is zero.                  *)
Fits(m) ==
  /\ m.date \in Columns /\ Role(m.date) = "date"
  /\ m.desc \in Columns /\ Role(m.desc) = "desc"
  /\ IF m.amount \in Columns
     THEN Role(m.amount) = "amount"
     ELSE /\ m.amount \in {0, -1}
          /\ m.debit \in Columns /\ Role(m.debit) = "debit"
          /\ m.credit \in Columns /\ Role(m.credit) = "credit"
          /\ \A i \in DOMAIN txs : txs[i].amount # 0

(* Fields of one cell, and of none.                                         *)
LEMMA FieldsAre ==
  /\ \A x : FieldDate(<<x>>) = CsvDate(x) /\ FieldAmount(<<x>>) = Amount(x) /\ <<x>> # <<>>
  /\ FieldDate(<<>>) = {} /\ FieldAmount(<<>>) = {}
<1>1. \A x : Len(<<x>>) = 1 /\ <<x>>[1] = x /\ <<x>> # <<>>
  OBVIOUS
<1>2. Len(<<>>) # 1
  OBVIOUS
<1> QED BY <1>1, <1>2 DEF FieldDate, FieldAmount

(* A heading is text.                                                       *)
LEMMA HeadingIsText ==
  ASSUME NEW x
  PROVE  /\ FieldDate(<<Word(x)>>) = {} /\ FieldAmount(<<Word(x)>>) = {}
         /\ KindOf(<<Word(x)>>) = "text"
<1> PICK w : w = Word(x)
  OBVIOUS
<1>1. w.kind = "word"
  BY PartsOfWord
<1>2. CsvDate(w) = {} /\ Amount(w) = {}
  BY <1>1 DEF CsvDate, Dated, Amount
<1> QED BY <1>2, FieldsAre DEF KindOf

(* A row of headings looks like one, and not like data.                     *)
LEMMA HeadIsHead ==
  ASSUME Tabled
  PROVE  LooksLikeHeader(HeadRow) /\ \A m : Fits(m) => ~RowLooksLikeData(HeadRow, m)
<1> PICK n : n = Len(form.columns)
  OBVIOUS
<1>1. n \in Nat \ {0} /\ Columns = 1..n
  BY TableGives DEF Columns
<1>2. \A c \in Columns : FieldDate(HeadRow[c]) = {} /\ KindOf(HeadRow[c]) = "text"
  BY HeadingIsText DEF HeadRow
<1>3. DOMAIN HeadRow = Columns
  BY DEF HeadRow
<1>4. LooksLikeHeader(HeadRow)
  <2>1. /\ {i \in DOMAIN HeadRow : KindOf(HeadRow[i]) = "date"} = {}
        /\ {i \in DOMAIN HeadRow : KindOf(HeadRow[i]) = "num"} = {}
        /\ {i \in DOMAIN HeadRow : KindOf(HeadRow[i]) = "text"} = 1..n
    BY <1>1, <1>2, <1>3
  <2>2. Cardinality(1..n) = n /\ Cardinality({}) = 0
    <3>1. 1 \in Int /\ n \in Int /\ n - 1 + 1 = n /\ 1 <= n
      BY <1>1
    <3>2. Cardinality(1..n) = n - 1 + 1
      BY <3>1, FS_Interval
    <3> QED BY <3>1, <3>2, FS_EmptySet
  <2>3. ~(0 >= 1 /\ 0 >= 1) /\ n > 0 + 0
    BY <1>1
  <2> QED BY <2>1, <2>2, <2>3 DEF LooksLikeHeader
<1>5. ASSUME NEW m, Fits(m) PROVE ~RowLooksLikeData(HeadRow, m)
  <2>1. m.date \in DOMAIN HeadRow /\ FieldDate(HeadRow[m.date]) = {}
    BY <1>2, <1>3, <1>5 DEF Fits
  <2> QED BY <2>1 DEF RowLooksLikeData, At
<1> QED BY <1>4, <1>5

(* The larger of a number and of nothing.                                   *)
LEMMA MaxWithZero ==
  /\ Max({} \union {0}) = 0
  /\ \A k \in Nat : Max({k} \union {0}) = k
<1>1. Max({} \union {0}) = 0
  BY DEF Max
<1>2. ASSUME NEW k \in Nat PROVE Max({k} \union {0}) = k
  <2>1. k \in {k} \union {0} /\ \A y \in {k} \union {0} : k >= y
    OBVIOUS
  <2>2. \A x \in {k} \union {0} : (\A y \in {k} \union {0} : x >= y) => x = k
    OBVIOUS
  <2>3. (CHOOSE x \in {k} \union {0} : \A y \in {k} \union {0} : x >= y) = k
    BY <2>1, <2>2
  <2> QED BY <2>3 DEF Max
<1> QED BY <1>1, <1>2

(* What stands in the columns of a transaction's row.                       *)
LEMMA RowHolds ==
  ASSUME Tabled, NEW t \in CsvTx, NEW c \in Columns
  PROVE  /\ At(TxRow(t), c) = Content(Role(c), t)
         /\ Role(c) = "date" => FieldDate(At(TxRow(t), c)) = {t.date}
         /\ Role(c) = "desc" => /\ At(TxRow(t), c) # <<>>
                                /\ Texts(At(TxRow(t), c)) = t.text
         /\ Role(c) = "amount" => FieldAmount(At(TxRow(t), c)) = {t.amount}
         /\ Role(c) = "debit" =>
              FieldAmount(At(TxRow(t), c)) = IF t.amount < 0 THEN {-t.amount} ELSE {}
         /\ Role(c) = "credit" =>
              FieldAmount(At(TxRow(t), c)) = IF t.amount > 0 THEN {t.amount} ELSE {}
<1> PICK f, o : f = At(TxRow(t), c) /\ o = Role(c)
  OBVIOUS
<1>1. f = Content(o, t)
  <2>1. c \in DOMAIN TxRow(t) /\ TxRow(t)[c] = Content(Role(c), t)
    BY DEF TxRow
  <2> QED BY <2>1 DEF At
<1>2. ASSUME o = "date" PROVE FieldDate(f) = {t.date}
  <2>1. f = <<Printed(t.date)>>
    BY <1>1, <1>2, FieldOf DEF Content
  <2> QED BY <2>1, FieldsAre, CsvDateIsRead
<1>3. ASSUME o = "desc" PROVE f # <<>> /\ Texts(f) = t.text
  <2>1. f = Words(t.text)
    BY <1>1, <1>3 DEF Content
  <2>2. form.variant \in Cands
    BY DEF Tabled
  <2> QED BY <2>1, <2>2, WordsAreWritten
<1>4. ASSUME o = "amount" PROVE FieldAmount(f) = {t.amount}
  <2>1. f = <<Signed(t.amount)>>
    BY <1>1, <1>4, FieldOf DEF Content
  <2> QED BY <2>1, FieldsAre, AmountIsRead
<1>5. ASSUME o = "debit" PROVE FieldAmount(f) = IF t.amount < 0 THEN {-t.amount} ELSE {}
  <2>1. f = IF t.amount < 0 THEN <<Signed(-t.amount)>> ELSE <<>>
    BY <1>1, <1>5, FieldOf DEF Content
  <2> QED BY <2>1, FieldsAre, AmountIsRead
<1>6. ASSUME o = "credit" PROVE FieldAmount(f) = IF t.amount > 0 THEN {t.amount} ELSE {}
  <2>1. f = IF t.amount > 0 THEN <<Signed(t.amount)>> ELSE <<>>
    BY <1>1, <1>6, FieldOf DEF Content
  <2> QED BY <2>1, FieldsAre, AmountIsRead
<1> QED BY <1>1, <1>2, <1>3, <1>4, <1>5, <1>6

(* The sizes of what stands in two columns make the amount.                 *)
LEMMA TwoColumns ==
  ASSUME NEW a \in Int, a # 0
  PROVE  LET size(S) == Max({Abs(n) : n \in S} \union {0})
             debit == IF a < 0 THEN {-a} ELSE {}
             credit == IF a > 0 THEN {a} ELSE {}
         IN  /\ ~(size(debit) = 0 /\ size(credit) = 0)
             /\ size(credit) - size(debit) = a
             /\ debit # {} \/ credit # {}
<1> DEFINE size(S) == Max({Abs(n) : n \in S} \union {0})
<1>1. size({}) = 0
  <2>1. {Abs(n) : n \in {}} = {}
    OBVIOUS
  <2> QED BY <2>1, MaxWithZero
<1>2. ASSUME NEW k \in Nat \ {0} PROVE size({k}) = k
  <2>1. {Abs(n) : n \in {k}} = {k}
    BY DEF Abs
  <2> QED BY <2>1, MaxWithZero
<1> HIDE DEF size
<1>3. CASE a < 0
  <2>1. -a \in Nat \ {0} /\ ~(a > 0)
    BY <1>3
  <2>2. size({-a}) = -a
    BY <1>2, <2>1
  <2>3. 0 - (-a) = a /\ -a # 0
    BY <2>1
  <2> QED BY <1>1, <1>3, <2>1, <2>2, <2>3 DEF size
<1>4. CASE a > 0
  <2>1. a \in Nat \ {0} /\ ~(a < 0)
    BY <1>4
  <2>2. size({a}) = a
    BY <1>2, <2>1
  <2>3. a - 0 = a
    OBVIOUS
  <2> QED BY <1>1, <1>4, <2>1, <2>2, <2>3 DEF size
<1> QED BY <1>3, <1>4

(* A transaction's row says the transaction, and looks like one, unless the *)
(* mapping says -1.                                                         *)
LEMMA TxRowIsRead ==
  ASSUME Tabled, NEW t \in CsvTx, NEW m, Fits(m), m.amount \notin Columns => t.amount # 0
  PROVE  ParseRow(TxRow(t), m) = {t} /\ (m.amount # -1 => RowLooksLikeData(TxRow(t), m))
<1> PICK row : row = TxRow(t)
  OBVIOUS
<1>1. m.date \in Columns /\ Role(m.date) = "date" /\ m.desc \in Columns /\ Role(m.desc) = "desc"
  BY DEF Fits
<1>2. /\ FieldDate(At(row, m.date)) = {t.date}
      /\ At(row, m.desc) # <<>> /\ Texts(At(row, m.desc)) = t.text
  BY <1>1, RowHolds
<1>3. t.amount \in Int /\ Tx(t.date, t.text, t.amount) = t
  BY DEF CsvTx, Tx
<1>4. /\ RowAmount(row, m) = {t.amount}
      /\ m.amount # -1 =>
           IF m.amount # 0 THEN FieldAmount(At(row, m.amount)) # {}
           ELSE \E c \in {m.debit, m.credit} : FieldAmount(At(row, c)) # {}
  <2>1. CASE m.amount \in Columns
    <3>1. Role(m.amount) = "amount" /\ m.amount \in Nat /\ m.amount > 0
      BY <2>1, TableGives DEF Fits, Columns
    <3>2. FieldAmount(At(row, m.amount)) = {t.amount}
      BY <2>1, <3>1, RowHolds
    <3> QED BY <3>1, <3>2, <1>3 DEF RowAmount
  <2>2. CASE m.amount \notin Columns
    <3>1. /\ m.amount \in {0, -1}
          /\ m.debit \in Columns /\ Role(m.debit) = "debit"
          /\ m.credit \in Columns /\ Role(m.credit) = "credit"
      BY <2>2 DEF Fits
    <3> PICK a, D, C : /\ a = t.amount /\ D = (IF a < 0 THEN {-a} ELSE {})
                       /\ C = (IF a > 0 THEN {a} ELSE {})
      OBVIOUS
    <3>2. FieldAmount(At(row, m.debit)) = D /\ FieldAmount(At(row, m.credit)) = C
      BY <3>1, RowHolds
    <3> DEFINE size(S) == Max({Abs(n) : n \in S} \union {0})
    <3>3. /\ ~(size(D) = 0 /\ size(C) = 0) /\ size(C) - size(D) = a
          /\ D # {} \/ C # {}
      BY <1>3, <2>2, TwoColumns
    <3>4. RowAmount(row, m) = IF size(D) = 0 /\ size(C) = 0 THEN {} ELSE {size(C) - size(D)}
      BY <3>1, <3>2 DEF RowAmount
    <3> HIDE DEF size
    <3>5. RowAmount(row, m) = {a}
      BY <3>3, <3>4
    <3>6. \E c \in {m.debit, m.credit} : FieldAmount(At(row, c)) # {}
      BY <3>2, <3>3
    <3> QED BY <3>1, <3>5, <3>6
  <2> QED BY <2>1, <2>2
<1>5. ParseRow(row, m) = {t}
  <2>1. ParseRow(row, m) = {Tx(x, t.text, a) : x \in {t.date}, a \in {t.amount}}
    BY <1>2, <1>4 DEF ParseRow
  <2> QED BY <1>3, <2>1
<1>6. m.amount # -1 => RowLooksLikeData(row, m)
  BY <1>2, <1>4 DEF RowLooksLikeData
<1> QED BY <1>5, <1>6

(* A row that is none says nothing.                                         *)
LEMMA ClosingRowIsRead ==
  ASSUME Tabled, NEW m, Fits(m)
  PROVE  ParseRow(ClosingRow, m) = {}
<1>1. m.date \in Columns /\ Role(m.date) = "date"
  BY DEF Fits
<1>2. At(ClosingRow, m.date) = <<>>
  BY <1>1 DEF At, ClosingRow
<1>3. FieldDate(At(ClosingRow, m.date)) = {}
  BY <1>2, FieldsAre
<1> QED BY <1>3 DEF ParseRow

(* Of the rows of the data the transactions are collected.                  *)
LEMMA DataIsRead ==
  ASSUME Tabled, Stated, NEW m, Fits(m)
  PROVE  Collect([i \in DOMAIN DataRows |-> ParseRow(DataRows[i], m)]) = txs
<1> PICK n, X, t, ss : /\ n = Len(txs) /\ X = DataRows /\ t = txs
                       /\ ss = [i \in DOMAIN X |-> ParseRow(X[i], m)]
  OBVIOUS
<1>1. /\ n \in Nat \ {0} /\ DOMAIN txs = 1..n /\ \A i \in 1..n : t[i] \in CsvTx
      /\ t \in Seq(CsvTx)
  BY StatedAre DEF Stated
<1>2. X \in Seq(RowSet) /\ DOMAIN X = 1..Len(X)
  BY DataRowsHave
<1>3. ASSUME NEW i \in 1..n PROVE ParseRow(TxRow(t[i]), m) = {t[i]}
  <2>1. t[i] \in CsvTx /\ (m.amount \notin Columns => t[i].amount # 0)
    BY <1>1 DEF Fits
  <2> QED BY <2>1, TxRowIsRead
<1>4. CASE form.junk
  <2>1. /\ Len(X) = 2 * n
        /\ \A i \in 1..n : X[2 * i - 1] = TxRow(t[i]) /\ X[2 * i] = ClosingRow
    BY <1>4, DataRowsAre
  <2>2. DOMAIN ss = 1..(2 * n)
    BY <1>2, <2>1
  <2>3. ASSUME NEW i \in 1..n PROVE ss[2 * i - 1] = {t[i]} /\ ss[2 * i] = {}
    <3>1. 2 * i - 1 \in 1..(2 * n) /\ 2 * i \in 1..(2 * n)
      BY <1>1
    <3>2. ss[2 * i - 1] = ParseRow(X[2 * i - 1], m) /\ ss[2 * i] = ParseRow(X[2 * i], m)
      BY <2>2, <3>1
    <3>3. X[2 * i - 1] = TxRow(t[i]) /\ X[2 * i] = ClosingRow
      BY <2>1
    <3> QED BY <1>3, <3>2, <3>3, ClosingRowIsRead
  <2>4. Collect(ss) = t
    BY <1>1, <2>2, <2>3, CollectOfPairs
  <2> QED BY <2>4
<1>5. CASE ~form.junk
  <2>1. Len(X) = n /\ \A i \in 1..n : X[i] = TxRow(t[i])
    BY <1>5, DataRowsAre
  <2>2. DOMAIN ss = 1..n
    BY <1>2, <2>1
  <2>3. \A i \in 1..n : ss[i] = {t[i]}
    BY <1>3, <2>1, <2>2
  <2>4. Collect(ss) = t
    BY <1>1, <2>2, <2>3, CollectOfOnes
  <2> QED BY <2>4
<1> QED BY <1>4, <1>5

(* Some numbers and none have the largest of the numbers.                   *)
LEMMA MaxOrNone ==
  ASSUME NEW n \in Nat, NEW s \in SUBSET (1..n), s # {}, NEW z \in {0, -1}
  PROVE  Max(s \union {z}) \in s
<1> PICK k : k = Max(s)
  OBVIOUS
<1>1. k \in s /\ \A x \in s : x <= k
  BY Largest
<1>2. k \in s \union {z} /\ \A y \in s \union {z} : k >= y
  BY <1>1
<1>3. \A x \in s \union {z} : (\A y \in s \union {z} : x >= y) => x = k
  BY <1>1, <1>2
<1>4. (CHOOSE x \in s \union {z} : \A y \in s \union {z} : x >= y) = k
  BY <1>2, <1>3
<1>5. Max(s \union {z}) = k
  BY <1>4 DEF Max
<1> QED BY <1>1, <1>5

LEMMA MaxOfNone ==
  ASSUME NEW z \in {0, -1}
  PROVE  Max({} \union {z}) = z
<1>1. (CHOOSE x \in {} \union {z} : \A y \in {} \union {z} : x >= y) = z
  OBVIOUS
<1> QED BY <1>1 DEF Max

(* An amount is in a column of its own, or it is not zero and in one of     *)
(* two.                                                                     *)
Priced ==
  \/ \E c \in Columns : Role(c) = "amount"
  \/ /\ \E c \in Columns : Role(c) = "debit"
     /\ \E c \in Columns : Role(c) = "credit"
     /\ \A i \in DOMAIN txs : txs[i].amount # 0

(* A choice without a column of amounts leaves it out, or says -1 where     *)
(* there are headings to skip.                                              *)
NoneTold ==
  /\ form.none \in {0, -1}
  /\ \/ form.none = 0 \/ form.head
     \/ \E c \in Columns : Role(c) = "amount"

(* The columns that the user chose hold what they are chosen for.           *)
LEMMA ChosenFits ==
  ASSUME Tabled, Priced, NoneTold, form.chosen
  PROVE  \E m : ChosenColumns = {m} /\ Fits(m) /\ (form.head \/ m.amount # -1)
<1> DEFINE held(role) == {c \in DOMAIN form.columns : form.columns[c][1] = role}
           none(role) == IF role = "amount" THEN form.none ELSE 0
           column(role) == Max(held(role) \union {none(role)})
           m == [role \in DOMAIN Synonyms |-> column(role)]
<1>1. ChosenColumns = {m}
  <2>1. {x \in {TRUE} : form.chosen} = {TRUE}
    OBVIOUS
  <2>2. ChosenColumns = {m : x \in {TRUE}}
    BY <2>1 DEF ChosenColumns
  <2> QED BY <2>2
<1>2. DOMAIN form.columns = Columns
  BY TableGives
<1>3. ASSUME NEW role, \E c \in Columns : Role(c) = role
      PROVE  column(role) \in Columns /\ Role(column(role)) = role
  <2> PICK n : n = Len(form.columns)
    OBVIOUS
  <2>1. n \in Nat /\ Columns = 1..n
    BY TableGives DEF Columns
  <2>2. held(role) \in SUBSET (1..n) /\ held(role) # {}
    BY <1>2, <1>3, <2>1 DEF Role
  <2>3. none(role) \in {0, -1}
    BY DEF NoneTold
  <2> HIDE DEF held, none
  <2>4. column(role) \in held(role)
    BY <2>1, <2>2, <2>3, MaxOrNone
  <2> USE DEF held
  <2> QED BY <1>2, <2>4 DEF Role
<1>4. ASSUME NEW role, ~\E c \in Columns : Role(c) = role PROVE column(role) = none(role)
  <2>1. held(role) = {} /\ none(role) \in {0, -1}
    BY <1>2, <1>4 DEF Role, NoneTold
  <2> QED BY <2>1, MaxOfNone
<1> HIDE DEF held, column
<1>5. DOMAIN Synonyms = {"date", "desc", "amount", "debit", "credit"}
  BY DEF Synonyms
<1>6. /\ m.date = column("date") /\ m.desc = column("desc") /\ m.amount = column("amount")
      /\ m.debit = column("debit") /\ m.credit = column("credit")
  BY <1>5
<1> HIDE DEF m
<1>7. /\ m.date \in Columns /\ Role(m.date) = "date"
      /\ m.desc \in Columns /\ Role(m.desc) = "desc"
  BY <1>3, <1>6 DEF Tabled
<1>8. CASE \E c \in Columns : Role(c) = "amount"
  <2>1. m.amount \in Columns /\ Role(m.amount) = "amount" /\ m.amount # -1
    BY <1>3, <1>6, <1>8, TableGives DEF Columns
  <2>2. Fits(m)
    BY <1>7, <2>1 DEF Fits
  <2> QED BY <1>1, <2>1, <2>2
<1>9. CASE ~\E c \in Columns : Role(c) = "amount"
  <2>1. m.amount = form.none /\ m.amount \in {0, -1} /\ (form.head \/ m.amount # -1)
    BY <1>4, <1>6, <1>9 DEF NoneTold
  <2>2. /\ m.debit \in Columns /\ Role(m.debit) = "debit"
        /\ m.credit \in Columns /\ Role(m.credit) = "credit"
        /\ \A i \in DOMAIN txs : txs[i].amount # 0
    BY <1>3, <1>6, <1>9 DEF Priced
  <2>3. m.amount \notin Columns
    BY <2>1, TableGives DEF Columns
  <2>4. Fits(m)
    BY <1>7, <2>1, <2>2, <2>3 DEF Fits
  <2> QED BY <1>1, <2>1, <2>4
<1> QED BY <1>8, <1>9

(* The headings name the columns so that the reader finds them.             *)
Understood ==
  /\ DetectMappingFromHeader(HeadRow) # {}
  /\ \A m \in DetectMappingFromHeader(HeadRow) : Fits(m)

(* The forms and the statements that are read: a first column that is no    *)
(* description where there are no headings, and columns that are known.     *)
CsvSays ==
  /\ form.kind = "csv" /\ Tabled /\ Stated
  /\ form.head \/ Role(1) # "desc"
  /\ IF form.chosen THEN Priced /\ NoneTold ELSE form.head /\ Understood

(* What the reader makes of a file's rows with one mapping.                 *)
RowsOf(file) == ParseRows(StripBom(file), DetectDelimiter(StripBom(file)))
KeptOf(rows, mapping, m) ==
  IF (IF mapping # {} THEN RowLooksLikeData(rows[1], m) ELSE ~LooksLikeHeader(rows[1]))
  THEN rows ELSE Tail(rows)
AnswerOf(data, m) == Collect([i \in DOMAIN data |-> ParseRow(data[i], m)])

(* The answer of the reader once the rows and the columns are known.        *)
LEMMA AnswerIs ==
  ASSUME NEW file, NEW mapping, NEW rows, rows = RowsOf(file), rows # <<>>,
         NEW m, (IF mapping # {} THEN mapping ELSE InspectCsv(rows)) = {m},
         NEW read, read = AnswerOf(KeptOf(rows, mapping, m), m), read # <<>>
  PROVE  ParseCsv(file, mapping) = {read}
<1>1. ParseCsv(file, mapping) =
        IF RowsOf(file) = <<>> THEN {}
        ELSE {AnswerOf(KeptOf(RowsOf(file), mapping, x), x) :
                x \in IF mapping # {} THEN mapping ELSE InspectCsv(RowsOf(file))} \ {<<>>}
  BY DEF ParseCsv, RowsOf, KeptOf, AnswerOf
<1>2. {AnswerOf(KeptOf(rows, mapping, x), x) :
         x \in IF mapping # {} THEN mapping ELSE InspectCsv(rows)} = {read}
  OBVIOUS
<1>3. {read} \ {<<>>} = {read}
  OBVIOUS
<1> QED BY <1>1, <1>2, <1>3

(* The file is read as the transactions that it says.                       *)
LEMMA CsvFileIsRead ==
  ASSUME CsvSays
  PROVE  ParseCsv(CsvFile, ChosenColumns) = {txs}
<1>1. Tabled /\ Stated /\ (form.head \/ Role(1) # "desc")
  BY DEF CsvSays
<1> PICK file, mapping, text, rows, X : /\ file = CsvFile /\ mapping = ChosenColumns
      /\ text = TableText /\ rows = HeadRows \o DataRows /\ X = DataRows
  OBVIOUS
<1>2. text = StripBom(file)
  BY <1>1, MarkIsStripped
<1>3. rows = RowsOf(file)
  BY <1>1, <1>2, TableIsRead DEF RowsOf
<1>4. /\ X \in Seq(RowSet) /\ X # <<>> /\ X[1] = TxRow(txs[1])
  BY <1>1, DataRowsHave
<1>5. ASSUME form.head
      PROVE  rows # <<>> /\ rows[1] = HeadRow /\ Tail(rows) = X
  <2>1. HeadRow \in RowSet /\ rows = <<HeadRow>> \o X
    BY <1>1, <1>5, RowsGive DEF HeadRows
  <2> QED BY <1>4, <2>1, TailOfFirst
<1>6. ASSUME ~form.head PROVE rows = X
  <2>1. rows = <<>> \o X
    BY <1>6 DEF HeadRows
  <2> QED BY <1>4, <2>1, ConcatEmptySeq
<1>7. PICK m : /\ Fits(m) /\ (form.head \/ m.amount # -1)
               /\ (IF mapping # {} THEN mapping ELSE InspectCsv(rows)) = {m}
               /\ form.chosen => mapping = {m}
               /\ ~form.chosen => mapping = {} /\ form.head
  <2>1. CASE form.chosen
    <3>1. Priced /\ NoneTold
      BY <2>1 DEF CsvSays
    <3>2. PICK m : mapping = {m} /\ Fits(m) /\ (form.head \/ m.amount # -1)
      BY <1>1, <2>1, <3>1, ChosenFits
    <3> QED BY <2>1, <3>2
  <2>2. CASE ~form.chosen
    <3>1. form.head /\ Understood
      BY <2>2 DEF CsvSays
    <3>2. PICK m : DetectMappingFromHeader(HeadRow) = {m} /\ Fits(m)
      <4>1. PICK m : m \in DetectMappingFromHeader(HeadRow)
        BY <3>1 DEF Understood
      <4>2. DetectMappingFromHeader(HeadRow) = {m}
        BY <4>1 DEF DetectMappingFromHeader
      <4> QED BY <3>1, <4>1, <4>2 DEF Understood
    <3>3. mapping = {}
      BY <2>2 DEF ChosenColumns
    <3>4. InspectCsv(rows) = {m}
      <4>1. rows[1] = HeadRow /\ LooksLikeHeader(HeadRow)
        BY <1>1, <1>5, <3>1, HeadIsHead
      <4> QED BY <3>2, <4>1 DEF InspectCsv
    <3> QED BY <2>2, <3>1, <3>2, <3>3, <3>4
  <2> QED BY <2>1, <2>2
<1> PICK data : data = KeptOf(rows, mapping, m)
  OBVIOUS
<1>8. rows # <<>> /\ data = X
  <2>1. CASE form.head
    <3>1. /\ rows # <<>> /\ rows[1] = HeadRow /\ Tail(rows) = X
          /\ LooksLikeHeader(HeadRow) /\ ~RowLooksLikeData(HeadRow, m)
      BY <1>1, <1>5, <1>7, <2>1, HeadIsHead
    <3> QED BY <3>1 DEF KeptOf
  <2>2. CASE ~form.head
    <3>1. rows = X /\ mapping = {m}
      BY <1>6, <1>7, <2>2
    <3>2. RowLooksLikeData(TxRow(txs[1]), m)
      <4>1. txs[1] \in CsvTx /\ 1 \in DOMAIN txs
        BY <1>1, StatedAre
      <4>2. (m.amount \notin Columns => txs[1].amount # 0) /\ m.amount # -1
        BY <1>7, <2>2, <4>1 DEF Fits
      <4> QED BY <1>1, <1>7, <4>1, <4>2, TxRowIsRead
    <3>3. mapping # {} /\ RowLooksLikeData(rows[1], m)
      BY <1>4, <3>1, <3>2
    <3> QED BY <1>4, <3>1, <3>3 DEF KeptOf
  <2> QED BY <2>1, <2>2
<1> PICK read : read = AnswerOf(data, m)
  OBVIOUS
<1>9. read = txs /\ read # <<>>
  <2>1. read = txs
    BY <1>1, <1>7, <1>8, DataIsRead DEF AnswerOf
  <2> QED BY <1>1, <2>1 DEF Stated
<1>10. ParseCsv(file, mapping) = {read}
  <2>1. rows # <<>> /\ (IF mapping # {} THEN mapping ELSE InspectCsv(rows)) = {m}
    BY <1>7, <1>8
  <2>2. read = AnswerOf(KeptOf(rows, mapping, m), m) /\ read # <<>>
    BY <1>9
  <2> QED BY ONLY <1>3, <2>1, <2>2, AnswerIs
<1> QED BY <1>9, <1>10

(* The file says what is expected.                                          *)
LEMMA CsvExpected == CsvSays => Expected = txs
<1> SUFFICES ASSUME CsvSays PROVE Expected = txs
  OBVIOUS
<1>1. txs \in Seq(CsvTx) /\ form.kind # "ofx"
  BY DEF CsvSays, Stated
<1>2. ASSUME NEW i \in DOMAIN txs PROVE [txs[i] EXCEPT !.text = @ \o <<>>] = txs[i]
  <2> PICK t : t = txs[i]
    OBVIOUS
  <2>1. t \in [date : CsvYears \X (1..12) \X (1..31), text : Seq(STRING), amount : Int]
    BY <1>1, <1>2 DEF CsvTx
  <2>2. t.text \o <<>> = t.text
    BY <2>1, ConcatEmptySeq
  <2> QED BY <2>1, <2>2
<1>3. Expected = [i \in DOMAIN txs |-> [txs[i] EXCEPT !.text = @ \o <<>>]]
  BY <1>1 DEF Expected
<1> QED BY <1>1, <1>2, <1>3

CsvRead == CsvSays => StatementIsRead

(* A statement in comma-separated values is read as it was written: every   *)
(* transaction once, in order, with its date, its sign and its words,       *)
(* quoted where they hold a sign of the format, whatever its length, its    *)
(* delimiter and its columns, and whether rows that are none stand between, *)
(* in the forms of CsvSays: where the reader has to guess the columns, or   *)
(* the choice says -1 in a file without headings, it is not (csv.ts:380).   *)
THEOREM CsvIsRead == FileSpec => [](CsvSays => StatementIsRead)
<1>1. FileInit => CsvRead
  BY DEF FileInit, CsvRead, StatementIsRead
<1>2. CsvRead /\ [FileNext]_fileVars => CsvRead'
  <2> SUFFICES ASSUME CsvRead, [FileNext]_fileVars, CsvSays' PROVE StatementIsRead'
    BY DEF CsvRead
  <2>1. form' = form /\ txs' = txs
    BY DEF FileNext, Read, fileVars
  <2>2. CsvSays
    <3>1. Tabled' => Tabled
      BY <2>1 DEF Tabled, Columns, Role, Named
    <3>2. Stated' => Stated
      BY <2>1 DEF Stated, CsvTx, CsvYears
    <3>3. (Priced' => Priced) /\ (NoneTold' => NoneTold)
      BY <2>1 DEF Priced, NoneTold, Columns, Role
    <3>4. HeadRow' = HeadRow
      BY <2>1 DEF HeadRow, Columns, Named
    <3>5. ASSUME NEW m, Fits(m)' PROVE Fits(m)
      BY <2>1, <3>5 DEF Fits, Columns, Role
    <3>6. Understood' => Understood
      BY <3>4, <3>5 DEF Understood
    <3>7. Role(1)' = Role(1)
      BY <2>1 DEF Role
    <3> QED BY <2>1, <3>1, <3>2, <3>3, <3>6, <3>7 DEF CsvSays
  <2>3. Expected' = Expected
    BY <2>1 DEF Expected
  <2>4. CASE UNCHANGED fileVars
    BY <2>2, <2>3, <2>4 DEF fileVars, CsvRead, StatementIsRead
  <2>5. CASE FileNext
    <3>1. out' = ParseCsv(CsvFile, ChosenColumns)
      BY <2>2, <2>5 DEF FileNext, Read, CsvSays
    <3>2. out' = {txs}
      BY <2>2, <3>1, CsvFileIsRead
    <3> QED BY <2>2, <2>3, <3>2, CsvExpected DEF StatementIsRead
  <2> QED BY <2>4, <2>5
<1> QED BY <1>1, <1>2, PTL DEF FileSpec, CsvRead
=============================================================================
