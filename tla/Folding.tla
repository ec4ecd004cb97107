-------------------------------- MODULE Folding --------------------------------
(***************************************************************************)
(* Facts about folds from the left and about sums over sets, for the       *)
(* proofs about the operators the modules write with them.  The operator   *)
(* folded from the left is a parameter of the module: an INSTANCE for each *)
(* of them has the facts as its theorems.                                  *)
(*                                                                         *)
(* Induction is over sets, not over predicates: what holds of 0 and is     *)
(* kept by a step is a set of numbers that has all of them.  It rests on   *)
(* the finite sets being well founded.                                     *)
(***************************************************************************)
EXTENDS Integers, SequencesExt, FiniteSetsExt, FiniteSetTheorems, SequenceTheorems,
        TLAPS

CONSTANT op(_, _)

LEMMA NatSetInduction ==
  ASSUME NEW S, 0 \in S, \A n \in Nat : n \in S => n + 1 \in S
  PROVE  \A n \in Nat : n \in S
<1> SUFFICES ASSUME NEW bad \in Nat, bad \notin S
             PROVE  FALSE
  OBVIOUS
<1> DEFINE Inside == StrictSubsetOrdering(Nat)
           Bad == {1 .. n : n \in Nat \ S}
<1>1. IsWellFoundedOn(Inside, FiniteSubsetsOf(Nat))
  BY FS_StrictSubsetOrderingWellFounded
<1>2. Bad \subseteq FiniteSubsetsOf(Nat)
  <2>1. \A n \in Nat : IsFiniteSet(1 .. n) /\ 1 .. n \in SUBSET Nat
    BY FS_Interval
  <2> QED
    BY <2>1 DEF FiniteSubsetsOf
<1>3. Bad # {}
  OBVIOUS
<1>4. PICK I \in Bad : \A J \in Bad : <<J, I>> \notin Inside
  <2> HIDE DEF Inside, Bad
  <2> QED
    BY <1>1, <1>2, <1>3, WFMin
<1>5. PICK n \in Nat : n \notin S /\ I = 1 .. n
  OBVIOUS
<1>6. n # 0 /\ n - 1 \in Nat /\ (n - 1) + 1 = n
  BY <1>5
<1>7. 1 .. (n - 1) \in Bad
  BY <1>5, <1>6
<1>8. 1 .. (n - 1) \subseteq 1 .. n /\ 1 .. (n - 1) # 1 .. n /\ 1 .. n \subseteq Nat
  BY <1>6
<1>9. <<1 .. (n - 1), 1 .. n>> \in Inside
  BY <1>8 DEF StrictSubsetOrdering
<1> QED
  BY <1>4, <1>5, <1>7, <1>9

-----------------------------------------------------------------------------
(* The least and the greatest element, and what taking an element out of a *)
(* sequence and putting one in does to the others.                         *)

LEMMA LeastExists ==
  ASSUME NEW T \in SUBSET Nat, T # {}
  PROVE  \E m \in T : \A x \in T : m <= x
<1> DEFINE N == {n \in Nat : (\E x \in T : x <= n) => \E m \in T : \A x \in T : m <= x}
<1>1. 0 \in N
  <2>1. ASSUME NEW x \in T, x <= 0
        PROVE  \E m \in T : \A y \in T : m <= y
    <3>1. x = 0 /\ \A y \in T : 0 <= y
      BY <2>1
    <3> QED
      BY <3>1
  <2> QED
    BY <2>1
<1>2. ASSUME NEW n \in Nat, n \in N
      PROVE  n + 1 \in N
  <2>1. CASE \E x \in T : x <= n
    BY <1>2, <2>1
  <2>2. CASE ~\E x \in T : x <= n
    <3>1. ASSUME NEW x \in T, x <= n + 1
          PROVE  \E m \in T : \A y \in T : m <= y
      <4>1. x = n + 1 /\ \A y \in T : n + 1 <= y
        BY <2>2, <3>1
      <4> QED
        BY <4>1
    <3> QED
      BY <3>1
  <2> QED
    BY <2>1, <2>2
<1> HIDE DEF N
<1>3. \A n \in Nat : n \in N
  BY <1>1, <1>2, NatSetInduction
<1>4. PICK x \in T : TRUE
  OBVIOUS
<1>5. x \in N /\ x <= x
  BY <1>3, <1>4
<1> QED
  BY <1>4, <1>5 DEF N

LEMMA GreatestExists ==
  ASSUME NEW n \in Nat, NEW T \in SUBSET (0 .. n), T # {}
  PROVE  \E m \in T : \A x \in T : x <= m
<1> DEFINE U == {y \in 0 .. n : n - y \in T}
<1>1. \A x \in T : n - x \in 0 .. n /\ n - (n - x) = x
  OBVIOUS
<1>2. U \in SUBSET Nat /\ U # {}
  <2>1. PICK x \in T : TRUE
    OBVIOUS
  <2>2. n - x \in 0 .. n /\ n - (n - x) \in T
    BY <1>1
  <2>3. n - x \in U /\ U \subseteq 0 .. n
    BY <2>2
  <2> HIDE DEF U
  <2> QED
    BY <2>3
<1>3. PICK u \in U : \A x \in U : u <= x
  BY <1>2, LeastExists
<1>4. \A x \in T : n - x \in U
  BY <1>1
<1>5. n - u \in T /\ u \in 0 .. n
  OBVIOUS
<1>6. ASSUME NEW x \in T
      PROVE  x <= n - u
  <2>1. u <= n - x /\ x \in 0 .. n
    BY <1>3, <1>4
  <2> QED
    BY <1>5, <2>1
<1> QED
  BY <1>5, <1>6

LEMMA MinIsLeast ==
  ASSUME NEW T \in SUBSET Nat, T # {}
  PROVE  Min(T) \in T /\ \A x \in T : Min(T) <= x
<1>1. PICK m \in T : \A x \in T : m <= x
  BY LeastExists
<1> QED
  BY <1>1 DEF Min

LEMMA MaxIsGreatest ==
  ASSUME NEW n \in Nat, NEW T \in SUBSET (0 .. n), T # {}
  PROVE  Max(T) \in T /\ \A x \in T : x <= Max(T)
<1>1. PICK m \in T : \A x \in T : x <= m
  BY GreatestExists
<1>2. \A x \in T : m >= x
  BY <1>1
<1> QED
  BY <1>1, <1>2 DEF Max

LEMMA Removed ==
  ASSUME NEW E, NEW s \in Seq(E), NEW i \in 1 .. Len(s)
  PROVE  /\ RemoveAt(s, i) \in Seq(E)
         /\ Len(RemoveAt(s, i)) = Len(s) - 1
         /\ \A j \in 1 .. (Len(s) - 1) : RemoveAt(s, i)[j] = IF j < i THEN s[j] ELSE s[j + 1]
<1> DEFINE a == SubSeq(s, 1, i - 1)
           b == SubSeq(s, i + 1, Len(s))
           n == Len(s)
<1>1. /\ n \in Nat /\ \A j \in 1 .. n : s[j] \in E
      /\ i \in Nat /\ 1 <= i /\ i <= n
  OBVIOUS
<1>2. /\ a \in Seq(E) /\ Len(a) = i - 1
      /\ \A j \in 1 .. (i - 1) : a[j] = s[j]
  <2>1. \A j \in 1 .. (i - 1) : s[j] \in E
    BY <1>1
  <2> QED
    BY <2>1, SubSeqProperties
<1>3. /\ b \in Seq(E) /\ Len(b) = n - i
      /\ \A j \in 1 .. (n - i) : b[j] = s[j + i]
  <2>1. \A j \in (i + 1) .. n : s[j] \in E
    BY <1>1
  <2>2. /\ b \in Seq(E) /\ Len(b) = IF i + 1 <= n THEN n - (i + 1) + 1 ELSE 0
        /\ \A j \in 1 .. (n - (i + 1) + 1) : b[j] = s[(i + 1) + j - 1]
    BY <1>1, <2>1, SubSeqProperties
  <2> HIDE DEF b, n
  <2> QED
    BY <1>1, <2>2
<1> HIDE DEF a, b, n
<1>4. /\ a \o b \in Seq(E) /\ Len(a \o b) = Len(a) + Len(b)
      /\ \A j \in 1 .. (Len(a) + Len(b)) : (a \o b)[j] = IF j <= Len(a) THEN a[j] ELSE b[j - Len(a)]
  BY <1>2, <1>3, ConcatProperties
<1>5. i \in 1 .. n
  BY <1>1
<1>6. Len(a) + Len(b) = n - 1
  BY <1>1, <1>2, <1>3
<1>7. ASSUME NEW j \in 1 .. (n - 1)
      PROVE  (a \o b)[j] = IF j < i THEN s[j] ELSE s[j + 1]
  <2>1. CASE j < i
    <3>1. j <= Len(a) /\ j \in 1 .. (i - 1) /\ j \in 1 .. (Len(a) + Len(b))
      BY <1>2, <1>5, <1>6, <2>1
    <3> QED
      BY <1>2, <1>4, <2>1, <3>1
  <2>2. CASE ~(j < i)
    <3>1. ~(j <= Len(a)) /\ j - Len(a) \in 1 .. (n - i) /\ j \in 1 .. (Len(a) + Len(b))
          /\ (j - Len(a)) + i = j + 1
      BY <1>1, <1>2, <1>5, <1>6, <2>2
    <3> QED
      BY <1>3, <1>4, <2>2, <3>1
  <2> QED
    BY <2>1, <2>2
<1>8. RemoveAt(s, i) = a \o b
  BY DEF RemoveAt, a, b
<1> QED
  BY <1>4, <1>6, <1>7, <1>8 DEF n

LEMMA Inserted ==
  ASSUME NEW E, NEW s \in Seq(E), NEW i \in 1 .. (Len(s) + 1), NEW e \in E
  PROVE  /\ InsertAt(s, i, e) \in Seq(E)
         /\ Len(InsertAt(s, i, e)) = Len(s) + 1
         /\ \A j \in 1 .. (Len(s) + 1) :
               InsertAt(s, i, e)[j] = IF j < i THEN s[j] ELSE IF j = i THEN e ELSE s[j - 1]
<1> DEFINE a == SubSeq(s, 1, i - 1)
           b == SubSeq(s, i, Len(s))
           c == a \o <<e>>
           n == Len(s)
<1>1. /\ n \in Nat /\ \A j \in 1 .. n : s[j] \in E
      /\ i \in Nat /\ 1 <= i /\ i <= n + 1
  OBVIOUS
<1>2. /\ a \in Seq(E) /\ Len(a) = i - 1
      /\ \A j \in 1 .. (i - 1) : a[j] = s[j]
  <2>1. \A j \in 1 .. (i - 1) : s[j] \in E
    BY <1>1
  <2> QED
    BY <2>1, SubSeqProperties
<1>3. /\ b \in Seq(E) /\ Len(b) = n - i + 1
      /\ \A j \in 1 .. (n - i + 1) : b[j] = s[(j + i) - 1]
  <2>1. \A j \in i .. n : s[j] \in E
    BY <1>1
  <2>2. /\ b \in Seq(E) /\ Len(b) = IF i <= n THEN n - i + 1 ELSE 0
        /\ \A j \in 1 .. (n - i + 1) : b[j] = s[i + j - 1]
    BY <1>1, <2>1, SubSeqProperties
  <2> HIDE DEF b, n
  <2> QED
    BY <1>1, <2>2
<1>4. i \in 1 .. (n + 1) /\ i \in Nat /\ Len(<<e>>) = 1 /\ <<e>>[1] = e /\ <<e>> \in Seq(E)
  OBVIOUS
<1>5. InsertAt(s, i, e) = c \o b
  BY DEF InsertAt
<1> HIDE DEF a, b, n, c
<1>6. /\ c \in Seq(E) /\ Len(c) = i
      /\ \A j \in 1 .. (i - 1) : c[j] = s[j]
      /\ c[i] = e
  <2>1. /\ c \in Seq(E) /\ Len(c) = Len(a) + 1
        /\ \A j \in 1 .. (Len(a) + 1) : c[j] = IF j <= Len(a) THEN a[j] ELSE <<e>>[j - Len(a)]
    BY <1>2, <1>4, ConcatProperties DEF c
  <2>2. \A j \in 1 .. (i - 1) : j <= Len(a) /\ j \in 1 .. (Len(a) + 1)
    BY <1>1, <1>2
  <2>3. i \in 1 .. (Len(a) + 1) /\ ~(i <= Len(a)) /\ i - Len(a) = 1 /\ Len(a) + 1 = i
    BY <1>1, <1>2
  <2> QED
    BY <1>2, <1>4, <2>1, <2>2, <2>3
<1> DEFINE d == c \o b
<1>7. /\ d \in Seq(E) /\ Len(d) = Len(c) + Len(b)
      /\ \A j \in 1 .. (Len(c) + Len(b)) : d[j] = IF j <= Len(c) THEN c[j] ELSE b[j - Len(c)]
  <2>1. b \in Seq(E) /\ c \in Seq(E)
    BY <1>3, <1>6
  <2> QED
    BY <2>1, ConcatProperties
<1> HIDE DEF d
<1>8. Len(c) + Len(b) = n + 1
  BY <1>1, <1>3, <1>4, <1>6
<1>9. ASSUME NEW j \in 1 .. (n + 1)
      PROVE  d[j] = IF j < i THEN s[j] ELSE IF j = i THEN e ELSE s[j - 1]
  <2>1. CASE j <= i
    <3>1. j \in 1 .. (Len(c) + Len(b)) /\ j <= Len(c) /\ (j = i \/ j \in 1 .. (i - 1))
      BY <1>4, <1>6, <1>8, <2>1
    <3>2. d[j] = c[j]
      BY <1>7, <3>1
    <3>3. j < i => j \in 1 .. (i - 1)
      BY <1>1
    <3>4. CASE j = i
      <4>1. ~(j < i)
        BY <1>1, <3>4
      <4> QED
        BY <1>6, <3>2, <3>4, <4>1
    <3>5. CASE j < i
      BY <1>6, <3>2, <3>3, <3>5
    <3> QED
      BY <1>1, <2>1, <3>4, <3>5
  <2>2. CASE j > i
    <3>1. /\ j \in 1 .. (Len(c) + Len(b)) /\ ~(j <= Len(c)) /\ j - Len(c) \in 1 .. (n - i + 1)
          /\ ((j - Len(c)) + i) - 1 = j - 1 /\ ~(j < i) /\ j # i
      BY <1>1, <1>4, <1>6, <1>8, <2>2
    <3> QED
      BY <1>3, <1>7, <3>1
  <2> QED
    BY <1>4, <2>1, <2>2
<1> QED
  BY <1>5, <1>7, <1>8, <1>9 DEF d, n

(* Where the items of a list are once one is put in.  *)
Spliced(q, s, i, e) ==
    /\ Len(q) = Len(s) + 1
    /\ \A j \in 1 .. (Len(s) + 1) : /\ j < i => q[j] = s[j]
                                    /\ j = i => q[j] = e
                                    /\ j > i => q[j] = s[j - 1]

LEMMA InsertionSplices ==
  ASSUME NEW E, NEW s \in Seq(E), NEW i \in 1 .. (Len(s) + 1), NEW e \in E
  PROVE  Spliced(InsertAt(s, i, e), s, i, e)
<1>1. /\ Len(InsertAt(s, i, e)) = Len(s) + 1
      /\ \A j \in 1 .. (Len(s) + 1) :
            InsertAt(s, i, e)[j] = IF j < i THEN s[j] ELSE IF j = i THEN e ELSE s[j - 1]
  BY Inserted
<1>2. i \in Nat /\ Len(s) \in Nat
  OBVIOUS
<1> QED
  BY <1>1, <1>2 DEF Spliced

-----------------------------------------------------------------------------
(* A fold goes over the subsets of the domain, the last element first.     *)

IsIteration(g, base, seq, n) ==
    g = [s \in SUBSET (1 .. n) |->
            IF s = {} THEN base ELSE op(g[s \ {Max(s)}], seq[Max(s)])]

LEMMA MaxIsLast ==
  ASSUME NEW n \in Nat, NEW s \in SUBSET (1 .. n), n \in s
  PROVE  Max(s) = n
<1>1. \A y \in s : n >= y
  OBVIOUS
<1>2. ASSUME NEW x \in s, \A y \in s : x >= y
      PROVE  x = n
  BY <1>2
<1> QED
  BY <1>1, <1>2 DEF Max

LEMMA IterationExists ==
  ASSUME NEW base, NEW seq
  PROVE  \A n \in Nat : \E g : IsIteration(g, base, seq, n)
<1> DEFINE S == {n \in Nat : \E g : IsIteration(g, base, seq, n)}
<1>1. 0 \in S
  <2> DEFINE g == [s \in SUBSET (1 .. 0) |-> base]
  <2>1. 1 .. 0 = {}
    OBVIOUS
  <2>2. IsIteration(g, base, seq, 0)
    BY <2>1 DEF IsIteration
  <2> QED
    BY <2>2
<1>2. ASSUME NEW n \in Nat, n \in S
      PROVE  n + 1 \in S
  <2>1. PICK g : IsIteration(g, base, seq, n)
    BY <1>2
  <2> DEFINE h == [s \in SUBSET (1 .. (n + 1)) |->
                      IF n + 1 \in s THEN op(g[s \ {n + 1}], seq[n + 1]) ELSE g[s]]
             next(s) == IF s = {} THEN base ELSE op(h[s \ {Max(s)}], seq[Max(s)])
  <2>2. 1 .. (n + 1) = (1 .. n) \cup {n + 1} /\ n + 1 \notin 1 .. n /\ n + 1 \in Nat
    OBVIOUS
  <2>3. ASSUME NEW s \in SUBSET (1 .. (n + 1)), n + 1 \in s
        PROVE  h[s] = next(s)
    <3>1. Max(s) = n + 1
      BY <2>2, <2>3, MaxIsLast
    <3>2. h[s \ {n + 1}] = g[s \ {n + 1}]
      BY <2>2
    <3> QED
      BY <2>3, <3>1, <3>2
  <2>4. ASSUME NEW s \in SUBSET (1 .. (n + 1)), n + 1 \notin s
        PROVE  h[s] = next(s)
    <3>1. s \in SUBSET (1 .. n)
      BY <2>2, <2>4
    <3>2. h[s \ {Max(s)}] = g[s \ {Max(s)}] /\ h[s] = g[s]
      BY <2>2, <3>1
    <3>3. g[s] = IF s = {} THEN base ELSE op(g[s \ {Max(s)}], seq[Max(s)])
      BY <2>1, <3>1, Zenon DEF IsIteration
    <3> QED
      BY <3>2, <3>3
  <2>5. \A s \in SUBSET (1 .. (n + 1)) : h[s] = next(s)
    BY <2>3, <2>4
  <2>6. h = [s \in SUBSET (1 .. (n + 1)) |-> next(s)]
    BY <2>5, Zenon
  <2>7. IsIteration(h, base, seq, n + 1)
    BY <2>6, Zenon DEF IsIteration
  <2> QED
    BY <2>2, <2>7
<1> HIDE DEF S
<1>3. \A n \in Nat : n \in S
  BY <1>1, <1>2, NatSetInduction
<1> QED
  BY <1>3 DEF S

-----------------------------------------------------------------------------
(* A run of a fold: what has been computed after each element.             *)

IsRun(run, base, seq, n) ==
    run[0] = base /\ \A m \in 1 .. n : run[m] = op(run[m - 1], seq[m])

LEMMA FoldLeftIsIteration ==
  ASSUME NEW base, NEW seq, NEW n \in Nat, DOMAIN seq = 1 .. n
  PROVE  \E g : IsIteration(g, base, seq, n) /\ FoldLeft(op, base, seq) = g[1 .. n]
<1> DEFINE g == CHOOSE g : IsIteration(g, base, seq, n)
<1>1. IsIteration(g, base, seq, n)
  BY IterationExists
<1>2. FoldLeft(op, base, seq) = g[1 .. n]
  BY DEF FoldLeft, MapThenFoldSet, IsIteration
<1> QED
  BY <1>1, <1>2

(* What FoldLeft gives is what a run ends with, and there is one.  *)
LEMMA FoldLeftRuns ==
  ASSUME NEW base, NEW seq, NEW n \in Nat, DOMAIN seq = 1 .. n
  PROVE  \E run : IsRun(run, base, seq, n) /\ FoldLeft(op, base, seq) = run[n]
<1>1. PICK g : IsIteration(g, base, seq, n) /\ FoldLeft(op, base, seq) = g[1 .. n]
  BY FoldLeftIsIteration
<1> DEFINE run == [m \in 0 .. n |-> g[1 .. m]]
<1>2. run[0] = base
  <2>1. 1 .. 0 = {} /\ {} \in SUBSET (1 .. n)
    OBVIOUS
  <2> QED
    BY <1>1, <2>1 DEF IsIteration
<1>3. ASSUME NEW m \in 1 .. n
      PROVE  run[m] = op(run[m - 1], seq[m])
  <2>1. 1 .. m \in SUBSET (1 .. n) /\ m \in 1 .. m /\ m \in Nat
    OBVIOUS
  <2>2. Max(1 .. m) = m
    BY <2>1, MaxIsLast
  <2>3. (1 .. m) \ {m} = 1 .. (m - 1) /\ m - 1 \in 0 .. n /\ m \in 0 .. n
    OBVIOUS
  <2>4. g[1 .. m] = op(g[(1 .. m) \ {Max(1 .. m)}], seq[Max(1 .. m)])
    BY <1>1, <2>1, Zenon DEF IsIteration
  <2> QED
    BY <2>2, <2>3, <2>4
<1>4. run[n] = g[1 .. n]
  OBVIOUS
<1> HIDE DEF run
<1>5. IsRun(run, base, seq, n)
  BY <1>2, <1>3, Zenon DEF IsRun
<1> QED
  BY <1>1, <1>4, <1>5, Zenon

(* A fold that starts in a set which the operator does not leave ends in   *)
(* it.                                                                     *)
LEMMA FoldLeftStays ==
  ASSUME NEW base, NEW seq, NEW n \in Nat, DOMAIN seq = 1 .. n, NEW V, base \in V,
         \A v \in V, m \in 1 .. n : op(v, seq[m]) \in V
  PROVE  FoldLeft(op, base, seq) \in V
<1>1. PICK run : IsRun(run, base, seq, n) /\ FoldLeft(op, base, seq) = run[n]
  BY FoldLeftRuns
<1>2. run[0] = base /\ \A m \in 1 .. n : run[m] = op(run[m - 1], seq[m])
  BY <1>1, Zenon DEF IsRun
<1> DEFINE S == {m \in Nat : m <= n => run[m] \in V}
<1>3. 0 \in S
  BY <1>2
<1>4. ASSUME NEW m \in Nat, m \in S
      PROVE  m + 1 \in S
  <2>1. CASE m + 1 <= n
    <3>1. m + 1 \in 1 .. n /\ m <= n /\ (m + 1) - 1 = m
      BY <2>1
    <3>2. run[m] \in V /\ run[m + 1] = op(run[m], seq[m + 1])
      BY <1>2, <1>4, <3>1
    <3> QED
      BY <3>1, <3>2
  <2> QED
    BY <2>1
<1> HIDE DEF S
<1>5. n \in S
  BY <1>3, <1>4, NatSetInduction
<1> QED
  BY <1>1, <1>5 DEF S

(* The same, with a set for every place of the sequence.  *)
LEMMA FoldLeftReaches ==
  ASSUME NEW base, NEW seq, NEW n \in Nat, DOMAIN seq = 1 .. n, NEW V, base \in V[0],
         \A m \in 1 .. n : \A v \in V[m - 1] : op(v, seq[m]) \in V[m]
  PROVE  FoldLeft(op, base, seq) \in V[n]
<1>1. PICK run : IsRun(run, base, seq, n) /\ FoldLeft(op, base, seq) = run[n]
  BY FoldLeftRuns
<1>2. run[0] = base /\ \A m \in 1 .. n : run[m] = op(run[m - 1], seq[m])
  BY <1>1, Zenon DEF IsRun
<1> DEFINE S == {m \in Nat : m <= n => run[m] \in V[m]}
<1>3. 0 \in S
  BY <1>2
<1>4. ASSUME NEW m \in Nat, m \in S
      PROVE  m + 1 \in S
  <2>1. CASE m + 1 <= n
    <3>1. m + 1 \in 1 .. n /\ m <= n /\ (m + 1) - 1 = m
      BY <2>1
    <3>2. run[m] \in V[m] /\ run[m + 1] = op(run[m], seq[m + 1])
      BY <1>2, <1>4, <3>1
    <3> QED
      BY <3>1, <3>2
  <2> QED
    BY <2>1
<1> HIDE DEF S
<1>5. n \in S
  BY <1>3, <1>4, NatSetInduction
<1> QED
  BY <1>1, <1>5 DEF S

(* There is only one run.  *)
LEMMA RunsAgree ==
  ASSUME NEW base, NEW seq, NEW n \in Nat, NEW f, IsRun(f, base, seq, n),
         NEW g, IsRun(g, base, seq, n)
  PROVE  f[n] = g[n]
<1>0. /\ f[0] = base /\ \A m \in 1 .. n : f[m] = op(f[m - 1], seq[m])
      /\ g[0] = base /\ \A m \in 1 .. n : g[m] = op(g[m - 1], seq[m])
  BY Zenon DEF IsRun
<1> DEFINE S == {m \in Nat : m <= n => f[m] = g[m]}
<1>1. 0 \in S
  BY <1>0
<1>2. ASSUME NEW m \in Nat, m \in S
      PROVE  m + 1 \in S
  <2>1. CASE m + 1 <= n
    <3>1. m + 1 \in 1 .. n /\ m <= n /\ (m + 1) - 1 = m
      BY <2>1
    <3>2. f[m] = g[m] /\ f[m + 1] = op(f[m], seq[m + 1]) /\ g[m + 1] = op(g[m], seq[m + 1])
      BY <1>0, <1>2, <3>1
    <3> QED
      BY <3>2
  <2> QED
    BY <2>1
<1> HIDE DEF S
<1>3. n \in S
  BY <1>1, <1>2, NatSetInduction
<1> QED
  BY <1>3 DEF S

(* A fold gives what any run of it ends with.  *)
LEMMA FoldLeftIs ==
  ASSUME NEW base, NEW seq, NEW n \in Nat, DOMAIN seq = 1 .. n,
         NEW run, IsRun(run, base, seq, n)
  PROVE  FoldLeft(op, base, seq) = run[n]
<1>1. PICK f : IsRun(f, base, seq, n) /\ FoldLeft(op, base, seq) = f[n]
  BY FoldLeftRuns
<1> QED
  BY <1>1, RunsAgree

(* A fold over one sequence after another is the one fold after the other. *)
LEMMA FoldLeftConcatenation ==
  ASSUME NEW base, NEW E, NEW s \in Seq(E), NEW t \in Seq(E)
  PROVE  FoldLeft(op, base, s \o t) = FoldLeft(op, FoldLeft(op, base, s), t)
<1> DEFINE k == Len(s)
           n == Len(t)
<1>0. PICK mid : mid = FoldLeft(op, base, s)
  OBVIOUS
<1>1. /\ k \in Nat /\ n \in Nat /\ DOMAIN s = 1 .. k /\ DOMAIN t = 1 .. n
      /\ DOMAIN (s \o t) = 1 .. (k + n)
      /\ \A i \in 1 .. k : (s \o t)[i] = s[i]
      /\ \A i \in 1 .. n : (s \o t)[k + i] = t[i]
  OBVIOUS
<1> HIDE DEF k, n
<1>2. PICK f : IsRun(f, base, s, k) /\ mid = f[k]
  BY <1>0, <1>1, FoldLeftRuns
<1>3. PICK g : IsRun(g, mid, t, n) /\ FoldLeft(op, mid, t) = g[n]
  <2>1. n \in Nat /\ DOMAIN t = 1 .. n
    BY <1>1
  <2> QED
    BY <2>1, FoldLeftRuns, Zenon
<1>4. f[0] = base /\ \A m \in 1 .. k : f[m] = op(f[m - 1], s[m])
  BY <1>2, Zenon DEF IsRun
<1>5. g[0] = mid /\ \A m \in 1 .. n : g[m] = op(g[m - 1], t[m])
  BY <1>3, Zenon DEF IsRun
<1> DEFINE run == [m \in 0 .. (k + n) |-> IF m <= k THEN f[m] ELSE g[m - k]]
<1>6. run[0] = base
  BY <1>1, <1>4
<1>7. ASSUME NEW m \in 1 .. (k + n)
      PROVE  run[m] = op(run[m - 1], (s \o t)[m])
  <2>1. CASE m <= k
    <3>1. m \in 1 .. k /\ m - 1 <= k /\ m - 1 \in 0 .. (k + n) /\ m \in 0 .. (k + n)
      BY <1>1, <2>1
    <3> QED
      BY <1>1, <1>4, <2>1, <3>1
  <2>2. CASE m = k + 1
    <3>1. /\ m - 1 = k /\ m - k = 1 /\ ~(m <= k) /\ 1 \in 1 .. n
          /\ k \in 0 .. (k + n) /\ k <= k /\ m \in 0 .. (k + n)
      BY <1>1, <2>2
    <3>2. run[m] = g[1] /\ run[m - 1] = f[k] /\ (s \o t)[m] = t[1]
      BY <1>1, <2>2, <3>1
    <3>3. g[1] = op(g[0], t[1])
      <4>1. 1 - 1 = 0
        OBVIOUS
      <4> QED
        BY <1>5, <3>1, <4>1
    <3> QED
      BY <1>2, <1>5, <3>2, <3>3
  <2>3. CASE m > k + 1
    <3> DEFINE i == m - k
    <3>1. /\ i \in 1 .. n /\ i - 1 = (m - 1) - k /\ ~(m <= k) /\ ~(m - 1 <= k)
          /\ m - 1 \in 0 .. (k + n) /\ m \in 0 .. (k + n) /\ k + i = m
      BY <1>1, <2>3
    <3>2. run[m] = g[i] /\ run[m - 1] = g[i - 1]
      BY <3>1
    <3>3. (s \o t)[m] = t[i]
      BY <1>1, <3>1
    <3> HIDE DEF i, run
    <3> QED
      BY <1>5, <3>1, <3>2, <3>3
  <2> QED
    BY <1>1, <2>1, <2>2, <2>3
<1>8. run[k + n] = g[n]
  <2>1. CASE n = 0
    BY <1>1, <1>2, <1>5, <2>1
  <2>2. CASE n # 0
    <3>1. ~(k + n <= k) /\ (k + n) - k = n /\ k + n \in 0 .. (k + n)
      BY <1>1, <2>2
    <3> QED
      BY <3>1
  <2> QED
    BY <2>1, <2>2
<1> HIDE DEF run
<1>9. FoldLeft(op, base, s \o t) = run[k + n]
  <2>1. k + n \in Nat
    BY <1>1
  <2>2. IsRun(run, base, s \o t, k + n)
    BY <1>6, <1>7, Zenon DEF IsRun
  <2> QED
    BY <1>1, <2>1, <2>2, FoldLeftIs
<1> QED
  BY <1>0, <1>3, <1>8, <1>9

-----------------------------------------------------------------------------
(* Sums over finite sets, of what a function gives for their elements.     *)

SumOver(w, S) == MapThenSumSet(LAMBDA x : w[x], S)

Chosen(s) == CHOOSE x \in s : TRUE

IsSummation(g, w, D) ==
    g = [s \in D |-> IF s = {} THEN 0 ELSE w[Chosen(s)] + g[s \ {Chosen(s)}]]

LEMMA SumIs ==
  ASSUME NEW w, NEW S
  PROVE  SumOver(w, S) = (CHOOSE g : IsSummation(g, w, SUBSET S))[S]
BY DEF SumOver, MapThenSumSet, MapThenFoldSet, IsSummation, Chosen

(* The sets a summation goes over, by their size.  *)
UpTo(S, n) == {s \in SUBSET S : Cardinality(s) <= n}

LEMMA SubsetSizes ==
  ASSUME NEW S, IsFiniteSet(S)
  PROVE  /\ \A s \in SUBSET S : IsFiniteSet(s) /\ Cardinality(s) \in Nat
         /\ \A s \in SUBSET S : Cardinality(s) = 0 <=> s = {}
         /\ \A s \in SUBSET S : \A x \in s : Cardinality(s \ {x}) = Cardinality(s) - 1
<1>1. \A s \in SUBSET S : IsFiniteSet(s)
  BY FS_Subset
<1>2. \A s \in SUBSET S : Cardinality(s) \in Nat
  BY <1>1, FS_CardinalityType
<1>3. \A s \in SUBSET S : Cardinality(s) = 0 <=> s = {}
  BY <1>1, FS_EmptySet
<1>4. \A s \in SUBSET S : \A x \in s : Cardinality(s \ {x}) = Cardinality(s) - 1
  BY <1>1, FS_RemoveElement
<1> QED
  BY <1>1, <1>2, <1>3, <1>4

LEMMA ChosenIsIn == ASSUME NEW s, s # {} PROVE Chosen(s) \in s
BY DEF Chosen

LEMMA SummationExists ==
  ASSUME NEW w, NEW S, IsFiniteSet(S)
  PROVE  \E g : IsSummation(g, w, SUBSET S)
<1> DEFINE K == {n \in Nat : \E g : IsSummation(g, w, UpTo(S, n))}
<1>1. 0 \in K
  <2> DEFINE g == [s \in UpTo(S, 0) |-> 0]
  <2>1. \A s \in UpTo(S, 0) : s = {}
    BY SubsetSizes DEF UpTo
  <2>2. IsSummation(g, w, UpTo(S, 0))
    BY <2>1 DEF IsSummation
  <2> QED
    BY <2>2
<1>2. ASSUME NEW n \in Nat, n \in K
      PROVE  n + 1 \in K
  <2>1. PICK g : IsSummation(g, w, UpTo(S, n))
    BY <1>2
  <2> DEFINE small == UpTo(S, n)
             more == UpTo(S, n + 1)
             next(f, s) == IF s = {} THEN 0 ELSE w[Chosen(s)] + f[s \ {Chosen(s)}]
             h == [s \in more |-> IF s \in small THEN g[s] ELSE next(g, s)]
  <2>2. \A s \in small : g[s] = next(g, s)
    BY <2>1, Zenon DEF IsSummation
  <2>3. ASSUME NEW s \in more, s # {}
        PROVE  s \ {Chosen(s)} \in small /\ s \ {Chosen(s)} \in more
    <3>1. s \in SUBSET S /\ Cardinality(s) <= n + 1
      BY DEF UpTo
    <3>2. Chosen(s) \in s
      BY <2>3, ChosenIsIn
    <3>3. Cardinality(s \ {Chosen(s)}) = Cardinality(s) - 1 /\ Cardinality(s) \in Nat
      BY <3>1, <3>2, SubsetSizes
    <3>4. Cardinality(s \ {Chosen(s)}) <= n /\ Cardinality(s \ {Chosen(s)}) <= n + 1
      BY <3>1, <3>3
    <3> QED
      BY <3>1, <3>4 DEF UpTo
  <2> HIDE DEF small, more
  <2>4. ASSUME NEW s \in more
        PROVE  h[s] = next(h, s)
    <3>1. CASE s = {}
      BY <2>2, <3>1
    <3>2. CASE s # {}
      <4>1. h[s \ {Chosen(s)}] = g[s \ {Chosen(s)}]
        BY <2>3, <3>2
      <4>2. h[s] = next(g, s)
        BY <2>2
      <4> QED
        BY <4>1, <4>2
    <3> QED
      BY <3>1, <3>2
  <2>5. h = [s \in more |-> next(h, s)]
    BY <2>4, Zenon
  <2>6. IsSummation(h, w, more)
    BY <2>5, Zenon DEF IsSummation
  <2> QED
    BY <2>6 DEF more
<1> HIDE DEF K
<1>3. Cardinality(S) \in K
  <2>1. Cardinality(S) \in Nat
    BY FS_CardinalityType
  <2> QED
    BY <1>1, <1>2, <2>1, NatSetInduction
<1>4. UpTo(S, Cardinality(S)) = SUBSET S
  <2>1. \A s \in SUBSET S : Cardinality(s) <= Cardinality(S)
    BY FS_Subset
  <2> QED
    BY <2>1 DEF UpTo
<1> QED
  BY <1>3, <1>4 DEF K

(* A summation, seen from the sets it is used for.  *)
Sums(g, w, S) ==
    \A s \in SUBSET S : g[s] = IF s = {} THEN 0 ELSE w[Chosen(s)] + g[s \ {Chosen(s)}]

LEMMA SummationSums ==
  ASSUME NEW w, NEW S, NEW A, S \in SUBSET A, NEW g, IsSummation(g, w, SUBSET A)
  PROVE  Sums(g, w, S)
<1>1. SUBSET S \subseteq SUBSET A
  OBVIOUS
<1> QED
  BY <1>1, Zenon DEF IsSummation, Sums

LEMMA EmptySum == ASSUME NEW w, NEW S, NEW g, Sums(g, w, S) PROVE g[{}] = 0
<1>1. {} \in SUBSET S
  OBVIOUS
<1> QED
  BY <1>1, Zenon DEF Sums

LEMMA ChosenFirst ==
  ASSUME NEW w, NEW S, NEW g, Sums(g, w, S), NEW s \in SUBSET S, s # {}
  PROVE  Chosen(s) \in s /\ g[s] = w[Chosen(s)] + g[s \ {Chosen(s)}]
<1>1. Chosen(s) \in s
  BY ChosenIsIn
<1> QED
  BY <1>1, Zenon DEF Sums

IntegersOn(w, S) == \A x \in S : w[x] \in Int

LEMMA SumsAreIntegers ==
  ASSUME NEW w, NEW S, IsFiniteSet(S), IntegersOn(w, S), NEW g, Sums(g, w, S)
  PROVE  \A s \in SUBSET S : g[s] \in Int
<1> DEFINE N == {n \in Nat : \A s \in SUBSET S : Cardinality(s) = n => g[s] \in Int}
<1>1. 0 \in N
  <2>1. \A s \in SUBSET S : Cardinality(s) = 0 => s = {}
    BY SubsetSizes
  <2>2. g[{}] = 0
    BY EmptySum
  <2>3. \A s \in SUBSET S : Cardinality(s) = 0 => g[s] \in Int
    BY <2>1, <2>2
  <2> QED
    BY <2>3
<1>2. ASSUME NEW n \in Nat, n \in N
      PROVE  n + 1 \in N
  <2>1. ASSUME NEW s \in SUBSET S, Cardinality(s) = n + 1
        PROVE  g[s] \in Int
    <3> DEFINE x == Chosen(s)
    <3>1. s # {}
      BY <2>1, SubsetSizes
    <3>2. x \in s /\ g[s] = w[x] + g[s \ {x}]
      BY <3>1, ChosenFirst
    <3> HIDE DEF x
    <3>3. Cardinality(s \ {x}) = n /\ s \ {x} \in SUBSET S /\ x \in S
      BY <2>1, <3>2, SubsetSizes
    <3>4. g[s \ {x}] \in Int /\ w[x] \in Int
      BY <1>2, <3>3 DEF IntegersOn
    <3> QED
      BY <3>2, <3>4
  <2> QED
    BY <2>1
<1> HIDE DEF N
<1>3. \A n \in Nat : n \in N
  BY <1>1, <1>2, NatSetInduction
<1> QED
  BY <1>3, SubsetSizes DEF N

(* A summation takes each element once, whatever is chosen first.          *)
LEMMA SummationAdds ==
  ASSUME NEW w, NEW S, IsFiniteSet(S), IntegersOn(w, S), NEW g, Sums(g, w, S)
  PROVE  \A s \in SUBSET S : \A x \in s : g[s] = w[x] + g[s \ {x}]
<1> DEFINE Adds(s) == \A x \in s : g[s] = w[x] + g[s \ {x}]
           N == {n \in Nat : \A s \in SUBSET S : Cardinality(s) = n => Adds(s)}
<1>1. 0 \in N
  BY SubsetSizes
<1>2. ASSUME NEW n \in Nat, n \in N
      PROVE  n + 1 \in N
  <2>1. ASSUME NEW s \in SUBSET S, Cardinality(s) = n + 1, NEW x \in s
        PROVE  g[s] = w[x] + g[s \ {x}]
    <3> DEFINE y == Chosen(s)
    <3>1. y \in s /\ g[s] = w[y] + g[s \ {y}]
      <4>1. s # {}
        OBVIOUS
      <4> QED
        BY <4>1, ChosenFirst
    <3> HIDE DEF y
    <3>2. CASE x = y
      BY <3>1, <3>2
    <3>3. CASE x # y
      <4>1. /\ s \ {x} \in SUBSET S /\ Cardinality(s \ {x}) = n /\ y \in s \ {x}
            /\ s \ {y} \in SUBSET S /\ Cardinality(s \ {y}) = n /\ x \in s \ {y}
        BY <2>1, <3>1, <3>3, SubsetSizes
      <4>2. /\ g[s \ {y}] = w[x] + g[(s \ {y}) \ {x}]
            /\ g[s \ {x}] = w[y] + g[(s \ {x}) \ {y}]
        BY <1>2, <4>1
      <4>3. (s \ {x}) \ {y} = (s \ {y}) \ {x} /\ (s \ {y}) \ {x} \in SUBSET S
        OBVIOUS
      <4>4. PICK v \in Int : v = g[(s \ {y}) \ {x}]
        BY <4>3, SumsAreIntegers
      <4>5. w[x] \in Int /\ w[y] \in Int
        BY <3>1 DEF IntegersOn
      <4>6. g[s] = w[y] + (w[x] + v) /\ g[s \ {x}] = w[y] + v
        BY <3>1, <4>2, <4>3, <4>4, Zenon
      <4> QED
        BY <4>4, <4>5, <4>6
    <3> QED
      BY <3>2, <3>3
  <2> QED
    BY <2>1
<1> HIDE DEF N
<1>3. \A n \in Nat : n \in N
  BY <1>1, <1>2, NatSetInduction
<1> QED
  BY <1>3, SubsetSizes DEF N

(* Two summations of what is the same on a set agree on the set.           *)
LEMMA SummationsAgree ==
  ASSUME NEW S, IsFiniteSet(S), NEW w, NEW z, \A x \in S : w[x] = z[x],
         NEW f, Sums(f, w, S), NEW g, Sums(g, z, S)
  PROVE  f[S] = g[S]
<1> DEFINE N == {n \in Nat : \A s \in SUBSET S : Cardinality(s) = n => f[s] = g[s]}
<1>1. 0 \in N
  <2>1. \A s \in SUBSET S : Cardinality(s) = 0 => s = {}
    BY SubsetSizes
  <2>2. f[{}] = g[{}]
    BY EmptySum
  <2> QED
    BY <2>1, <2>2
<1>2. ASSUME NEW n \in Nat, n \in N
      PROVE  n + 1 \in N
  <2>1. ASSUME NEW s \in SUBSET S, Cardinality(s) = n + 1
        PROVE  f[s] = g[s]
    <3> DEFINE x == Chosen(s)
    <3>1. s # {}
      BY <2>1, SubsetSizes
    <3>2. x \in s /\ f[s] = w[x] + f[s \ {x}] /\ g[s] = z[x] + g[s \ {x}]
      BY <3>1, ChosenFirst
    <3> HIDE DEF x
    <3>3. Cardinality(s \ {x}) = n /\ s \ {x} \in SUBSET S
      BY <2>1, <3>2, SubsetSizes
    <3>4. f[s \ {x}] = g[s \ {x}] /\ w[x] = z[x]
      BY <1>2, <3>2, <3>3
    <3> QED
      BY <3>2, <3>4, Zenon
  <2> QED
    BY <2>1
<1> HIDE DEF N
<1>3. \A n \in Nat : n \in N
  BY <1>1, <1>2, NatSetInduction
<1> QED
  BY <1>3, SubsetSizes DEF N

LEMMA SumIsSummation ==
  ASSUME NEW w, NEW S, IsFiniteSet(S)
  PROVE  \E g : Sums(g, w, S) /\ SumOver(w, S) = g[S] /\ IsSummation(g, w, SUBSET S)
<1> DEFINE g == CHOOSE g : IsSummation(g, w, SUBSET S)
<1>1. IsSummation(g, w, SUBSET S) /\ SumOver(w, S) = g[S]
  BY SummationExists, SumIs
<1>2. S \in SUBSET S
  OBVIOUS
<1> HIDE DEF g
<1>3. Sums(g, w, S)
  BY <1>1, <1>2, SummationSums
<1> QED
  BY <1>1, <1>3

(* What a sum is, for finite sets and integers.  *)
LEMMA SumOverFiniteSet ==
  ASSUME NEW w, NEW S, IsFiniteSet(S), \A x \in S : w[x] \in Int
  PROVE  /\ SumOver(w, S) \in Int
         /\ S = {} => SumOver(w, S) = 0
         /\ \A x \in S : SumOver(w, S) = w[x] + SumOver(w, S \ {x})
<1>1. PICK g : Sums(g, w, S) /\ SumOver(w, S) = g[S] /\ IsSummation(g, w, SUBSET S)
  BY SumIsSummation
<1>2. g[S] \in Int
  BY <1>1, SumsAreIntegers DEF IntegersOn
<1>3. g[{}] = 0
  BY <1>1, EmptySum
<1>4. ASSUME NEW x \in S
      PROVE  g[S] = w[x] + SumOver(w, S \ {x})
  <2> DEFINE T == S \ {x}
  <2>1. IsFiniteSet(T) /\ T \in SUBSET S /\ S \in SUBSET S
    BY FS_Subset
  <2>2. g[S] = w[x] + g[T]
    BY <1>1, <2>1, SummationAdds DEF IntegersOn
  <2> HIDE DEF T
  <2>3. PICK f : Sums(f, w, T) /\ SumOver(w, T) = f[T]
    BY <2>1, SumIsSummation
  <2>4. Sums(g, w, T)
    BY <1>1, <2>1, SummationSums
  <2>5. f[T] = g[T]
    BY <2>1, <2>3, <2>4, SummationsAgree
  <2> QED
    BY <2>2, <2>3, <2>5 DEF T
<1> QED
  BY <1>1, <1>2, <1>3, <1>4

(* The function counts only where the sum is taken.  *)
LEMMA SumsAgree ==
  ASSUME NEW w, NEW z, NEW S, IsFiniteSet(S), \A x \in S : w[x] = z[x]
  PROVE  SumOver(w, S) = SumOver(z, S)
<1>1. PICK f : Sums(f, w, S) /\ SumOver(w, S) = f[S]
  BY SumIsSummation
<1>2. PICK g : Sums(g, z, S) /\ SumOver(z, S) = g[S]
  BY SumIsSummation
<1> QED
  BY <1>1, <1>2, SummationsAgree
=============================================================================
