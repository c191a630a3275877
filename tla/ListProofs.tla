------------------------------ MODULE ListProofs ------------------------------
(* Facts about the lists of the consoles.  The induction theorems of the        *)
(* library take an operator, which the provers cannot instantiate; the least    *)
(* element of a set of numbers, which follows from their being well founded,    *)
(* gives the same for a set, and with it what a recursion over a list computes. *)
EXTENDS Lists, SequenceTheorems, FiniteSetTheorems, NaturalsInduction, WellFoundedInduction, TLAPS

LEMMA LeastElement == \A T \in SUBSET Nat : T # {} => \E x \in T : \A y \in T : x <= y
<1>1. IsWellFoundedOn(OpToRel(<, Nat), Nat)
    BY NatLessThanWellFounded, Zenon
<1>2. \A x, y \in Nat : <<y, x>> \in OpToRel(<, Nat) <=> y < x
    BY DEF OpToRel
<1>3. \E R : IsWellFoundedOn(R, Nat) /\ \A x, y \in Nat : <<y, x>> \in R <=> y < x
    BY <1>1, <1>2, Zenon
<1> HIDE <1>1, <1>2
<1>4. PICK R : IsWellFoundedOn(R, Nat) /\ \A x, y \in Nat : <<y, x>> \in R <=> y < x
    BY ONLY <1>3
<1>5. \A T : T \subseteq Nat /\ T # {} => \E x \in T : \A y \in T : ~ (<<y, x>> \in R)
    BY ONLY <1>4, WFMin, Zenon
<1> SUFFICES ASSUME NEW T \in SUBSET Nat, T # {} PROVE \E x \in T : \A y \in T : x <= y
    OBVIOUS
<1>6. PICK x \in T : \A y \in T : ~ (<<y, x>> \in R)
    BY ONLY <1>5, T \in SUBSET Nat, T # {}, Zenon
<1>7. \A y \in T : ~ (y < x)
    BY ONLY <1>4, <1>6, T \in SUBSET Nat, Zenon
<1> QED
    BY ONLY <1>7, T \in SUBSET Nat, x \in T

(* Induction up to n, for a set. *)
LEMMA UpTo ==
    ASSUME NEW n \in Nat, NEW P, 0 \in P, \A k \in 0 .. n - 1 : k \in P => k + 1 \in P
    PROVE  \A k \in 0 .. n : k \in P
<1> SUFFICES ASSUME NEW k \in 0 .. n, k \notin P PROVE FALSE
    OBVIOUS
<1> DEFINE T == {j \in 0 .. n : j \notin P}
<1>1. T \in SUBSET Nat /\ T # {}
    OBVIOUS
<1>2. PICK x \in T : \A y \in T : x <= y
    BY <1>1, LeastElement
<1>3. x # 0 /\ x - 1 \in 0 .. n - 1 /\ x - 1 \notin T
    BY <1>2
<1> QED
    BY <1>3

(* A recursion over 0 .. m whose steps stay in a set is defined.                *)
Stays(F, m, V) == \A n \in 1 .. m : \A x \in V : F[n][x] \in V
Recurses(g, F, m, start) == g[0] = start /\ \A n \in 1 .. m : g[n] = F[n][g[n - 1]]

LEMMA Recursion ==
    ASSUME NEW V, NEW start \in V, NEW m \in Nat, NEW F, Stays(F, m, V)
    PROVE  \E g \in [0 .. m -> V] : Recurses(g, F, m, start)
<1> DEFINE P == {k \in 0 .. m : \E g \in [0 .. k -> V] : Recurses(g, F, k, start)}
<1>1. 0 \in P
    <2> DEFINE g == [n \in 0 .. 0 |-> start]
    <2>1. g \in [0 .. 0 -> V] /\ Recurses(g, F, 0, start)
        BY DEF Recurses
    <2>2. 0 \in 0 .. m
        OBVIOUS
    <2> QED
        BY <2>1, <2>2, Zenon
<1>2. ASSUME NEW k \in 0 .. m - 1, k \in P PROVE k + 1 \in P
    <2>1. PICK g \in [0 .. k -> V] : Recurses(g, F, k, start)
        BY <1>2, Zenon
    <2> DEFINE h == [n \in 0 .. k + 1 |-> IF n <= k THEN g[n] ELSE F[k + 1][g[k]]]
    <2>2. k + 1 \in 1 .. m /\ g[k] \in V /\ F[k + 1][g[k]] \in V
        BY <1>2 DEF Stays
    <2>3. h \in [0 .. k + 1 -> V]
        BY <2>2
    <2>4. h[0] = start /\ \A n \in 1 .. k : h[n] = F[n][h[n - 1]]
        BY <2>1 DEF Recurses
    <2>5. h[k + 1] = F[k + 1][h[k]]
        OBVIOUS
    <2>6. Recurses(h, F, k + 1, start)
        <3> HIDE DEF h
        <3>1. \A n \in 1 .. k + 1 : n \in 1 .. k \/ n = k + 1
            OBVIOUS
        <3> QED
            BY <2>4, <2>5, <3>1 DEF Recurses
    <2>7. k + 1 \in 0 .. m
        OBVIOUS
    <2> QED
        BY <2>3, <2>6, <2>7, Zenon
<1>3. m \in P
    <2> HIDE DEF P
    <2>1. \A k \in 0 .. m : k \in P
        BY <1>1, <1>2, UpTo, Zenon
    <2> QED
        BY <2>1
<1> QED
    BY <1>3, Zenon
-----------------------------------------------------------------------------
(* filter *)

(* The recursion of Picked, up to m. *)
PickStep(s, keep, g, m) ==
    [n \in 0 .. m |->
        IF n = 0 THEN << >> ELSE IF n \in keep THEN Append(g[n - 1], s[n]) ELSE g[n - 1]]

LEMMA PickStepExists ==
    ASSUME NEW S, NEW s \in Seq(S), NEW keep
    PROVE  \E g : g = PickStep(s, keep, g, Len(s))
<1> DEFINE m == Len(s)
           F == [n \in 1 .. m |-> [p \in Seq(S) |-> IF n \in keep THEN Append(p, s[n]) ELSE p]]
<1>1. m \in Nat /\ \A n \in 1 .. m : s[n] \in S
    OBVIOUS
<1>2. << >> \in Seq(S)
    BY EmptySeq
<1>3. \A n \in 1 .. m : \A p \in Seq(S) :
          F[n][p] = (IF n \in keep THEN Append(p, s[n]) ELSE p) /\ F[n][p] \in Seq(S)
    BY <1>1, AppendProperties
<1>4. Stays(F, m, Seq(S))
    BY <1>3 DEF Stays
<1> HIDE DEF F, m
<1>5. PICK g \in [0 .. m -> Seq(S)] : Recurses(g, F, m, << >>)
    <2>1. m \in Nat
        BY <1>1
    <2> QED
        BY <1>2, <1>4, <2>1, Recursion, Zenon
<1>6. ASSUME NEW n \in 0 .. m
      PROVE  g[n] = IF n = 0 THEN << >>
                    ELSE IF n \in keep THEN Append(g[n - 1], s[n]) ELSE g[n - 1]
    <2>1. CASE n = 0
        BY <1>5, <2>1 DEF Recurses
    <2>2. CASE n # 0
        <3>1. n \in 1 .. m /\ n - 1 \in 0 .. m
            BY <1>1, <2>2
        <3> QED
            BY <1>3, <1>5, <2>2, <3>1 DEF Recurses
    <2> QED
        BY <2>1, <2>2
<1>7. g = PickStep(s, keep, g, m)
    BY <1>5, <1>6 DEF PickStep
<1> QED
    BY <1>7 DEF m

(* What the recursion of Picked amounts to. *)
LEMMA PickedRecursion ==
    ASSUME NEW S, NEW s \in Seq(S), NEW keep
    PROVE  \E f : /\ Picked(s, keep) = f[Len(s)]
                  /\ f[0] = << >>
                  /\ \A n \in 1 .. Len(s) : f[n] =
                         IF n \in keep THEN Append(f[n - 1], s[n]) ELSE f[n - 1]
<1> DEFINE f == CHOOSE g : g = PickStep(s, keep, g, Len(s))
<1>1. Len(s) \in Nat
    OBVIOUS
<1>2. f = PickStep(s, keep, f, Len(s))
    BY <1>1, PickStepExists, Zenon
<1>3. Picked(s, keep) = f[Len(s)]
    BY Zenon DEF Picked, PickStep
<1> HIDE DEF f
<1>4. f[0] = << >>
    BY <1>1, <1>2 DEF PickStep
<1>5. ASSUME NEW n \in 1 .. Len(s)
      PROVE  f[n] = IF n \in keep THEN Append(f[n - 1], s[n]) ELSE f[n - 1]
    <2>1. PickStep(s, keep, f, Len(s))[n] =
              IF n \in keep THEN Append(f[n - 1], s[n]) ELSE f[n - 1]
        BY <1>1 DEF PickStep
    <2> QED
        BY <1>2, <2>1
<1> QED
    BY <1>3, <1>4, <1>5

(* A filtered list is a list of what has been kept. *)
LEMMA PickedElements ==
    ASSUME NEW S, NEW s \in Seq(S), NEW keep, NEW K,
           \A i \in DOMAIN s : i \in keep => s[i] \in K
    PROVE  Picked(s, keep) \in Seq(K)
<1>1. PICK f : /\ Picked(s, keep) = f[Len(s)]
               /\ f[0] = << >>
               /\ \A n \in 1 .. Len(s) : f[n] =
                      IF n \in keep THEN Append(f[n - 1], s[n]) ELSE f[n - 1]
    BY PickedRecursion
<1>2. Len(s) \in Nat /\ DOMAIN s = 1 .. Len(s)
    OBVIOUS
<1> DEFINE P == {n \in 0 .. Len(s) : f[n] \in Seq(K)}
<1>3. 0 \in P
    <2>1. << >> \in Seq(K)
        BY EmptySeq
    <2>2. f[0] \in Seq(K)
        BY <1>1, <2>1
    <2> QED
        BY <1>2, <2>2
<1>4. ASSUME NEW m \in 0 .. Len(s) - 1, m \in P PROVE m + 1 \in P
    <2>1. m + 1 \in 1 .. Len(s) /\ (m + 1) - 1 = m /\ m + 1 \in 0 .. Len(s)
        BY <1>2
    <2>2. f[m + 1] = IF m + 1 \in keep THEN Append(f[m], s[m + 1]) ELSE f[m]
        BY <1>1, <2>1
    <2>3. f[m] \in Seq(K)
        BY <1>4
    <2>4. CASE m + 1 \in keep
        <3>1. s[m + 1] \in K
            BY <1>2, <2>1, <2>4
        <3>2. Append(f[m], s[m + 1]) \in Seq(K)
            BY <2>3, <3>1, AppendProperties
        <3> QED
            BY <2>1, <2>2, <2>4, <3>2
    <2>5. CASE m + 1 \notin keep
        BY <2>1, <2>2, <2>3, <2>5
    <2> QED
        BY <2>4, <2>5
<1>5. \A k \in 0 .. Len(s) : k \in P
    <2> HIDE DEF P
    <2> QED
        BY <1>2, <1>3, <1>4, UpTo, Zenon
<1>6. f[Len(s)] \in Seq(K)
    BY <1>2, <1>5
<1> QED
    BY <1>1, <1>6

(* Every element at a position that is kept is among them. *)
LEMMA PickedAll ==
    ASSUME NEW S, NEW s \in Seq(S), NEW keep, NEW k \in 1 .. Len(s), k \in keep
    PROVE  \E j \in 1 .. Len(Picked(s, keep)) : Picked(s, keep)[j] = s[k]
<1>1. PICK f : /\ Picked(s, keep) = f[Len(s)]
               /\ f[0] = << >>
               /\ \A n \in 1 .. Len(s) : f[n] =
                      IF n \in keep THEN Append(f[n - 1], s[n]) ELSE f[n - 1]
    BY PickedRecursion
<1>2. Len(s) \in Nat /\ \A n \in 1 .. Len(s) : s[n] \in S
    OBVIOUS
<1> DEFINE Q(n) == f[n] \in Seq(S) /\ (k <= n => \E j \in 1 .. Len(f[n]) : f[n][j] = s[k])
           P == {n \in 0 .. Len(s) : Q(n)}
<1>3. 0 \in P
    <2>1. f[0] \in Seq(S)
        BY <1>1, EmptySeq
    <2> QED
        BY <1>2, <2>1
<1>4. ASSUME NEW m \in 0 .. Len(s) - 1, m \in P PROVE m + 1 \in P
    <2>1. m + 1 \in 1 .. Len(s) /\ m \in 0 .. Len(s) /\ (m + 1) - 1 = m
        BY <1>2
    <2>9. Q(m)
        <3> HIDE DEF Q
        <3> QED
            BY <1>4
    <2>2. f[m] \in Seq(S) /\ (k <= m => \E j \in 1 .. Len(f[m]) : f[m][j] = s[k])
        BY <2>9
    <2>3. f[m + 1] = IF m + 1 \in keep THEN Append(f[m], s[m + 1]) ELSE f[m]
        BY <1>1, <2>1
    <2> DEFINE g == f[m]
               h == f[m + 1]
               e == s[m + 1]
    <2>4. e \in S /\ g \in Seq(S) /\ (h = Append(g, e) \/ h = g) /\ (m + 1 = k => h = Append(g, e))
        BY <1>2, <2>1, <2>2, <2>3
    <2>5. k <= m + 1 => k <= m \/ (m + 1 = k /\ e = s[k])
        BY <2>1
    <2>6. k <= m => \E j \in 1 .. Len(g) : g[j] = s[k]
        BY <2>2
    <2> HIDE DEF g, h, e
    <2>7. h \in Seq(S) /\ (k <= m + 1 => \E j \in 1 .. Len(h) : h[j] = s[k])
        <3>1. CASE h = g /\ m + 1 # k
            BY <2>4, <2>5, <2>6, <3>1
        <3>2. CASE h = Append(g, e)
            <4>1. /\ h \in Seq(S) /\ Len(h) = Len(g) + 1 /\ h[Len(g) + 1] = e /\ Len(g) \in Nat
                  /\ \A j \in 1 .. Len(g) : h[j] = g[j]
                BY <2>4, <3>2
            <4>2. Len(g) + 1 \in 1 .. Len(h) /\ 1 .. Len(g) \subseteq 1 .. Len(h)
                BY <4>1
            <4> QED
                BY <2>5, <2>6, <4>1, <4>2
        <3> QED
            BY <2>4, <3>1, <3>2
    <2> QED
        BY <2>1, <2>7 DEF h
<1>5. Len(s) \in P
    <2> HIDE DEF P
    <2>1. \A n \in 0 .. Len(s) : n \in P
        BY <1>2, <1>3, <1>4, UpTo, Zenon
    <2> QED
        BY <1>2, <2>1
<1>6. Q(Len(s))
    <2> HIDE DEF Q
    <2> QED
        BY <1>5
<1>7. k <= Len(s)
    BY <1>2
<1> QED
    BY <1>1, <1>6, <1>7, Zenon

(* Each of them comes from a position that has been kept, no two from one.      *)
Positions(l, s, at) ==
    /\ \A i, j \in 1 .. Len(l) : at[i] = at[j] => i = j
    /\ \A i \in 1 .. Len(l) : l[i] = s[at[i]]
TakenFrom(l, s, T) == \E at \in [1 .. Len(l) -> T] : Positions(l, s, at)

LEMMA PickedPositions ==
    ASSUME NEW S, NEW s \in Seq(S), NEW keep
    PROVE  TakenFrom(Picked(s, keep), s, keep \cap (1 .. Len(s)))
<1>1. PICK f : /\ Picked(s, keep) = f[Len(s)]
               /\ f[0] = << >>
               /\ \A n \in 1 .. Len(s) : f[n] =
                      IF n \in keep THEN Append(f[n - 1], s[n]) ELSE f[n - 1]
    BY PickedRecursion
<1>2. Len(s) \in Nat /\ \A n \in 1 .. Len(s) : s[n] \in S
    OBVIOUS
<1> DEFINE P == {n \in 0 .. Len(s) : f[n] \in Seq(S) /\ TakenFrom(f[n], s, keep \cap (1 .. n))}
<1>3. 0 \in P
    <2> DEFINE at == [i \in 1 .. Len(f[0]) |-> 0]
    <2>1. f[0] \in Seq(S) /\ Len(f[0]) = 0
        BY <1>1, EmptySeq
    <2>2. at \in [1 .. Len(f[0]) -> keep \cap (1 .. 0)] /\ Positions(f[0], s, at)
        BY <2>1 DEF Positions
    <2>3. 0 \in 0 .. Len(s)
        BY <1>2
    <2>4. TakenFrom(f[0], s, keep \cap (1 .. 0))
        BY <2>2, Zenon DEF TakenFrom
    <2> QED
        BY <2>1, <2>3, <2>4
<1>4. ASSUME NEW m \in 0 .. Len(s) - 1, m \in P PROVE m + 1 \in P
    <2>1. m + 1 \in 1 .. Len(s) /\ (m + 1) - 1 = m /\ m + 1 \in 0 .. Len(s)
              /\ s[m + 1] \in S
        BY <1>2
    <2>2. f[m + 1] = IF m + 1 \in keep THEN Append(f[m], s[m + 1]) ELSE f[m]
        BY <1>1, <2>1
    <2>3. f[m] \in Seq(S)
        BY <1>4
    <2>4. PICK at \in [1 .. Len(f[m]) -> keep \cap (1 .. m)] : Positions(f[m], s, at)
        BY <1>4, Zenon DEF TakenFrom
    <2>5. CASE m + 1 \in keep
        <3> DEFINE l == f[m + 1]
                   n == Len(f[m])
                   to == [i \in 1 .. n + 1 |-> IF i <= n THEN at[i] ELSE m + 1]
        <3>1. /\ l \in Seq(S) /\ Len(l) = n + 1 /\ n \in Nat /\ l[n + 1] = s[m + 1]
              /\ \A i \in 1 .. n : l[i] = f[m][i]
            BY <2>1, <2>2, <2>3, <2>5, AppendProperties
        <3>2. to \in [1 .. n + 1 -> keep \cap (1 .. m + 1)]
            BY <2>4, <2>5, <3>1
        <3>3. \A i \in 1 .. n : to[i] = at[i] /\ to[i] \in 1 .. m
            <4>1. \A i \in 1 .. n : at[i] \in keep \cap (1 .. m)
                BY <2>4
            <4>2. \A i \in 1 .. n : i \in 1 .. n + 1 /\ i <= n
                BY <3>1
            <4> HIDE DEF n, l
            <4> QED
                BY <4>1, <4>2
        <3>4. to[n + 1] = m + 1
            BY <3>1
        <3>5. /\ \A i, j \in 1 .. n : at[i] = at[j] => i = j
              /\ \A i \in 1 .. n : f[m][i] = s[at[i]]
            BY <2>4 DEF Positions
        <3> HIDE DEF to, l, n
        <3>6. \A i \in 1 .. n + 1 : i \in 1 .. n \/ i = n + 1
            BY <3>1
        <3>7. \A i, j \in 1 .. n + 1 : to[i] = to[j] => i = j
            BY <2>1, <3>3, <3>4, <3>5, <3>6
        <3>8. \A i \in 1 .. n + 1 : l[i] = s[to[i]]
            <4>1. \A i \in 1 .. n : l[i] = s[to[i]]
                BY <3>1, <3>3, <3>5
            <4> QED
                BY <3>1, <3>4, <3>6, <4>1
        <3>9. TakenFrom(l, s, keep \cap (1 .. m + 1))
            <4>1. Positions(l, s, to)
                BY <3>1, <3>7, <3>8 DEF Positions
            <4>2. to \in [1 .. Len(l) -> keep \cap (1 .. m + 1)]
                BY <3>1, <3>2
            <4> QED
                BY <4>1, <4>2, Zenon DEF TakenFrom
        <3> QED
            BY <2>1, <3>1, <3>9 DEF l
    <2>6. CASE m + 1 \notin keep
        <3>1. at \in [1 .. Len(f[m]) -> keep \cap (1 .. m + 1)]
            BY <2>4, <2>1
        <3>2. TakenFrom(f[m], s, keep \cap (1 .. m + 1))
            BY <2>4, <3>1, Zenon DEF TakenFrom
        <3> QED
            BY <2>1, <2>2, <2>3, <2>6, <3>2
    <2> QED
        BY <2>5, <2>6
<1>5. \A k \in 0 .. Len(s) : k \in P
    <2> HIDE DEF P
    <2> QED
        BY <1>2, <1>3, <1>4, UpTo, Zenon
<1>6. Len(s) \in P
    <2> HIDE DEF P
    <2> QED
        BY <1>2, <1>5
<1> QED
    BY <1>1, <1>6
-----------------------------------------------------------------------------
(* Sums *)

SumStep(s, g) == [n \in 0 .. Len(s) |-> IF n = 0 THEN 0 ELSE g[n - 1] + s[n]]

LEMMA SumStepExists == ASSUME NEW s \in Seq(Int) PROVE \E g : g = SumStep(s, g)
<1> DEFINE m == Len(s)
           F == [n \in 1 .. m |-> [x \in Int |-> x + s[n]]]
<1>1. m \in Nat /\ \A n \in 1 .. m : s[n] \in Int
    OBVIOUS
<1>2. \A n \in 1 .. m : \A x \in Int : F[n][x] = x + s[n] /\ F[n][x] \in Int
    BY <1>1
<1>3. Stays(F, m, Int)
    BY <1>2 DEF Stays
<1> HIDE DEF F, m
<1>4. PICK g \in [0 .. m -> Int] : Recurses(g, F, m, 0)
    <2>1. m \in Nat /\ 0 \in Int
        BY <1>1
    <2> QED
        BY <1>3, <2>1, Recursion, Zenon
<1>5. ASSUME NEW n \in 0 .. m PROVE g[n] = IF n = 0 THEN 0 ELSE g[n - 1] + s[n]
    <2>1. n # 0 => n \in 1 .. m /\ n - 1 \in 0 .. m
        BY <1>1
    <2> QED
        BY <1>2, <1>4, <2>1 DEF Recurses
<1>6. g = SumStep(s, g)
    BY <1>4, <1>5 DEF SumStep, m
<1> QED
    BY <1>6

LEMMA TotalRecursion ==
    ASSUME NEW s \in Seq(Int)
    PROVE  \E f : /\ Total(s) = f[Len(s)]
                  /\ f[0] = 0
                  /\ \A n \in 1 .. Len(s) : f[n] = f[n - 1] + s[n]
                  /\ \A n \in 0 .. Len(s) : f[n] \in Int
<1> DEFINE f == CHOOSE g : g = SumStep(s, g)
<1>1. Len(s) \in Nat /\ \A n \in 1 .. Len(s) : s[n] \in Int
    OBVIOUS
<1>2. f = SumStep(s, f)
    BY SumStepExists, Zenon
<1>3. Total(s) = f[Len(s)]
    BY Zenon DEF Total, reduce, SumStep
<1> HIDE DEF f
<1>4. f[0] = 0
    BY <1>1, <1>2 DEF SumStep
<1>5. ASSUME NEW n \in 1 .. Len(s) PROVE f[n] = f[n - 1] + s[n]
    <2>1. SumStep(s, f)[n] = f[n - 1] + s[n]
        BY <1>1 DEF SumStep
    <2> QED
        BY <1>2, <2>1
<1>6. \A n \in 0 .. Len(s) : n \in {k \in 0 .. Len(s) : f[k] \in Int}
    <2> DEFINE P == {k \in 0 .. Len(s) : f[k] \in Int}
    <2>1. 0 \in P
        BY <1>1, <1>4
    <2>2. ASSUME NEW k \in 0 .. Len(s) - 1, k \in P PROVE k + 1 \in P
        <3>1. k + 1 \in 1 .. Len(s) /\ k + 1 \in 0 .. Len(s) /\ (k + 1) - 1 = k
            BY <1>1
        <3>2. f[k + 1] = f[k] + s[k + 1] /\ s[k + 1] \in Int /\ f[k] \in Int
            BY <1>1, <1>5, <2>2, <3>1
        <3> QED
            BY <3>1, <3>2
    <2> HIDE DEF P
    <2>3. \A n \in 0 .. Len(s) : n \in P
        BY <1>1, <2>1, <2>2, UpTo, Zenon
    <2> QED
        BY <2>3 DEF P
<1> QED
    BY <1>3, <1>4, <1>5, <1>6

(* A sum of numbers between two bounds. *)
LEMMA TotalBounds ==
    ASSUME NEW s \in Seq(Int), NEW lo \in Int, NEW hi \in Int,
           \A i \in 1 .. Len(s) : lo <= s[i] /\ s[i] <= hi
    PROVE  Total(s) \in Int /\ lo * Len(s) <= Total(s) /\ Total(s) <= hi * Len(s)
<1>1. PICK f : /\ Total(s) = f[Len(s)]
               /\ f[0] = 0
               /\ \A n \in 1 .. Len(s) : f[n] = f[n - 1] + s[n]
               /\ \A n \in 0 .. Len(s) : f[n] \in Int
    BY TotalRecursion
<1>2. Len(s) \in Nat /\ \A n \in 1 .. Len(s) : s[n] \in Int
    OBVIOUS
<1> DEFINE P == {n \in 0 .. Len(s) : lo * n <= f[n] /\ f[n] <= hi * n}
<1>3. 0 \in P
    BY <1>1, <1>2
<1>4. ASSUME NEW m \in 0 .. Len(s) - 1, m \in P PROVE m + 1 \in P
    <2>1. m + 1 \in 1 .. Len(s) /\ m \in 0 .. Len(s) /\ (m + 1) - 1 = m
        BY <1>2
    <2>2. f[m + 1] = f[m] + s[m + 1] /\ f[m] \in Int /\ s[m + 1] \in Int
        BY <1>1, <1>2, <2>1
    <2>3. lo * (m + 1) = lo * m + lo /\ hi * (m + 1) = hi * m + hi
        BY <2>1
    <2>4. lo <= s[m + 1] /\ s[m + 1] <= hi /\ lo * m \in Int /\ hi * m \in Int
        BY <2>1
    <2>5. lo * (m + 1) <= f[m + 1] /\ f[m + 1] <= hi * (m + 1)
        BY <1>4, <2>2, <2>3, <2>4
    <2> QED
        BY <2>1, <2>5
<1>5. Len(s) \in P
    <2> HIDE DEF P
    <2>1. \A n \in 0 .. Len(s) : n \in P
        BY <1>2, <1>3, <1>4, UpTo, Zenon
    <2> QED
        BY <1>2, <2>1
<1> QED
    BY <1>1, <1>2, <1>5
(* One of them above the lower bound lifts the sum above it. *)
LEMMA TotalAbove ==
    ASSUME NEW s \in Seq(Int), NEW lo \in Int, \A i \in 1 .. Len(s) : lo <= s[i],
           NEW k \in 1 .. Len(s), lo < s[k]
    PROVE  lo * Len(s) + 1 <= Total(s)
<1>1. PICK f : /\ Total(s) = f[Len(s)]
               /\ f[0] = 0
               /\ \A n \in 1 .. Len(s) : f[n] = f[n - 1] + s[n]
               /\ \A n \in 0 .. Len(s) : f[n] \in Int
    BY TotalRecursion
<1>2. Len(s) \in Nat /\ \A n \in 1 .. Len(s) : s[n] \in Int
    OBVIOUS
<1> DEFINE Lift(n) == IF n >= k THEN 1 ELSE 0
           P == {n \in 0 .. Len(s) : lo * n + Lift(n) <= f[n]}
<1>3. 0 \in P
    BY <1>1, <1>2
<1>4. ASSUME NEW m \in 0 .. Len(s) - 1, m \in P PROVE m + 1 \in P
    <2>1. m + 1 \in 1 .. Len(s) /\ m \in 0 .. Len(s) /\ (m + 1) - 1 = m
        BY <1>2
    <2>2. f[m + 1] = f[m] + s[m + 1] /\ f[m] \in Int /\ s[m + 1] \in Int
        BY <1>1, <1>2, <2>1
    <2>3. lo * (m + 1) = lo * m + lo /\ lo * m \in Int
        BY <2>1
    <2>4. lo <= s[m + 1] /\ (m + 1 = k => lo < s[m + 1])
        BY <2>1
    <2>5. Lift(m) \in {0, 1} /\ Lift(m + 1) = (IF m + 1 = k THEN 1 ELSE Lift(m))
              /\ (m + 1 = k => Lift(m) = 0)
        BY <1>2
    <2>6. lo * m + Lift(m) <= f[m]
        BY <1>4
    <2> HIDE DEF Lift
    <2>7. lo * (m + 1) + Lift(m + 1) <= f[m + 1]
        BY <2>2, <2>3, <2>4, <2>5, <2>6
    <2> QED
        BY <2>1, <2>7
<1>5. Len(s) \in P
    <2> HIDE DEF P
    <2>1. \A n \in 0 .. Len(s) : n \in P
        BY <1>2, <1>3, <1>4, UpTo, Zenon
    <2> QED
        BY <1>2, <2>1
<1> QED
    BY <1>1, <1>2, <1>5
-----------------------------------------------------------------------------
(* sort *)

LEMMA PositionsCounted ==
    ASSUME NEW n \in Nat, NEW T, T \subseteq 1 .. n
    PROVE  IsFiniteSet(T) /\ Cardinality(T) \in 0 .. n
<1>1. IsFiniteSet(1 .. n) /\ Cardinality(1 .. n) = n
    BY FS_Interval
<1>2. IsFiniteSet(T) /\ Cardinality(T) <= Cardinality(1 .. n)
    BY <1>1, FS_Subset
<1> QED
    BY <1>1, <1>2, FS_CardinalityType

LEMMA InsertAtProperties ==
    ASSUME NEW S, NEW s \in Seq(S), NEW e \in S, NEW k \in 0 .. Len(s)
    PROVE  InsertAt(s, 1 + k, e) \in Seq(S) /\ Len(InsertAt(s, 1 + k, e)) = Len(s) + 1
<1> DEFINE front == SubSeq(s, 1, k)
           back == SubSeq(s, 1 + k, Len(s))
<1>1. /\ front \in Seq(S) /\ Len(front) = k
      /\ back \in Seq(S) /\ Len(back) = Len(s) - k /\ Len(s) \in Nat
    BY SubSeqProperties
<1>2. <<e>> \in Seq(S) /\ Len(<<e>>) = 1
    OBVIOUS
<1> DEFINE longer == front \o <<e>>
<1>3. InsertAt(s, 1 + k, e) = longer \o back
    <2>1. (1 + k) - 1 = k
        OBVIOUS
    <2> QED
        BY <2>1, Zenon DEF InsertAt
<1>4. longer \in Seq(S) /\ Len(longer) = k + 1
    <2> HIDE DEF front, back
    <2> QED
        BY <1>1, <1>2, ConcatProperties
<1> HIDE DEF front, back, longer
<1>5. longer \o back \in Seq(S) /\ Len(longer \o back) = Len(longer) + Len(back)
    BY <1>1, <1>4, ConcatProperties
<1>6. Len(longer) + Len(back) = Len(s) + 1
    BY <1>1, <1>4
<1> QED
    BY <1>3, <1>5, <1>6

Behind(order, numbers, n) == Cardinality({i \in DOMAIN order : numbers[order[i]] >= numbers[n]})
Listing(s) == [i \in DOMAIN s |-> i]
SortStep(numbers, g) ==
    [n \in 0 .. Len(Listing(numbers)) |->
        IF n = 0 THEN << >>
        ELSE InsertAt(g[n - 1], 1 + Behind(g[n - 1], numbers, Listing(numbers)[n]),
                      Listing(numbers)[n])]

LEMMA Placing ==
    ASSUME NEW m \in Nat, NEW order \in Seq(1 .. m), NEW numbers, NEW n \in 1 .. m
    PROVE  /\ InsertAt(order, 1 + Behind(order, numbers, n), n) \in Seq(1 .. m)
           /\ Len(InsertAt(order, 1 + Behind(order, numbers, n), n)) = Len(order) + 1
<1>1. Len(order) \in Nat /\ DOMAIN order = 1 .. Len(order)
    OBVIOUS
<1>2. Behind(order, numbers, n) \in 0 .. Len(order)
    BY <1>1, PositionsCounted DEF Behind
<1> QED
    BY <1>2, InsertAtProperties

LEMMA ListingIs ==
    ASSUME NEW S, NEW s \in Seq(S)
    PROVE  Len(Listing(s)) = Len(s) /\ \A i \in 1 .. Len(s) : Listing(s)[i] = i
<1>1. Len(s) \in Nat /\ DOMAIN s = 1 .. Len(s)
    OBVIOUS
<1>2. Listing(s) \in Seq(1 .. Len(s)) /\ DOMAIN Listing(s) = 1 .. Len(s)
    BY <1>1 DEF Listing
<1> QED
    BY <1>1, <1>2 DEF Listing

LEMMA SortStepExists == ASSUME NEW S, NEW s \in Seq(S) PROVE \E g : g = SortStep(s, g)
<1> DEFINE m == Len(s)
           V == Seq(1 .. m)
           F == [n \in 1 .. m |-> [x \in V |-> InsertAt(x, 1 + Behind(x, s, n), n)]]
<1>1. m \in Nat /\ Len(Listing(s)) = m /\ \A i \in 1 .. m : Listing(s)[i] = i
    BY ListingIs
<1>2. \A n \in 1 .. m : \A x \in V : F[n][x] = InsertAt(x, 1 + Behind(x, s, n), n)
    OBVIOUS
<1>3. << >> \in V
    BY EmptySeq
<1>4. \A n \in 1 .. m : \A x \in V : F[n][x] \in V
    <2> HIDE DEF F, m
    <2> QED
        BY <1>1, <1>2, Placing
<1>5. Stays(F, m, V)
    BY <1>4 DEF Stays
<1> HIDE DEF F, m, V
<1>6. PICK g \in [0 .. m -> V] : Recurses(g, F, m, << >>)
    <2>1. m \in Nat
        BY <1>1
    <2> QED
        BY <1>3, <1>5, <2>1, Recursion, Zenon
<1>7. ASSUME NEW n \in 0 .. m
      PROVE  g[n] = IF n = 0 THEN << >>
                    ELSE InsertAt(g[n - 1], 1 + Behind(g[n - 1], s, Listing(s)[n]), Listing(s)[n])
    <2>1. CASE n = 0
        BY <1>6, <2>1 DEF Recurses
    <2>2. CASE n # 0
        <3>1. n \in 1 .. m /\ n - 1 \in 0 .. m /\ Listing(s)[n] = n
            BY <1>1, <2>2
        <3>2. g[n] = F[n][g[n - 1]] /\ g[n - 1] \in V
            BY <1>6, <3>1 DEF Recurses
        <3> QED
            BY <1>2, <2>2, <3>1, <3>2
    <2> QED
        BY <2>1, <2>2
<1>8. g = SortStep(s, g)
    BY <1>1, <1>6, <1>7 DEF SortStep
<1> QED
    BY <1>8

(* As many positions as there are numbers. *)
LEMMA DescendingPositions ==
    ASSUME NEW S, NEW s \in Seq(S)
    PROVE  Descending(s) \in Seq(1 .. Len(s)) /\ Len(Descending(s)) = Len(s)
<1> DEFINE f == CHOOSE g : g = SortStep(s, g)
           m == Len(s)
<1>1. m \in Nat /\ Len(Listing(s)) = m /\ \A i \in 1 .. m : Listing(s)[i] = i
    BY ListingIs
<1>2. f = SortStep(s, f)
    BY SortStepExists, Zenon
<1>3. Descending(s) = f[Len(Listing(s))]
    BY Zenon DEF Descending, reduce, SortStep, Listing, Behind
<1> HIDE DEF f, m
<1>4. f[0] = << >>
    BY <1>1, <1>2 DEF SortStep
<1>5. ASSUME NEW n \in 1 .. m PROVE f[n] = InsertAt(f[n - 1], 1 + Behind(f[n - 1], s, n), n)
    <2>1. SortStep(s, f)[n] = InsertAt(f[n - 1], 1 + Behind(f[n - 1], s, n), n)
        BY <1>1 DEF SortStep
    <2> QED
        BY <1>2, <2>1
<1> DEFINE P == {n \in 0 .. m : f[n] \in Seq(1 .. m) /\ Len(f[n]) = n}
<1>6. 0 \in P
    <2>1. << >> \in Seq(1 .. m) /\ Len(<< >>) = 0 /\ 0 \in 0 .. m
        BY <1>1, EmptySeq
    <2>2. f[0] \in Seq(1 .. m) /\ Len(f[0]) = 0
        BY <1>4, <2>1
    <2> QED
        BY <2>1, <2>2
<1>7. ASSUME NEW k \in 0 .. m - 1, k \in P PROVE k + 1 \in P
    <2>1. k + 1 \in 1 .. m /\ (k + 1) - 1 = k /\ k + 1 \in 0 .. m
        BY <1>1
    <2>2. f[k + 1] = InsertAt(f[k], 1 + Behind(f[k], s, k + 1), k + 1)
        BY <1>5, <2>1
    <2>3. f[k + 1] \in Seq(1 .. m) /\ Len(f[k + 1]) = k + 1
        BY <1>1, <1>7, <2>1, <2>2, Placing
    <2> QED
        BY <2>1, <2>3
<1>8. m \in P
    <2> HIDE DEF P
    <2>1. \A k \in 0 .. m : k \in P
        BY <1>1, <1>6, <1>7, UpTo, Zenon
    <2> QED
        BY <1>1, <2>1
<1> QED
    BY <1>1, <1>3, <1>8 DEF m

(* Numbers and counting *******************************************************)
LEMMA LargestElement ==
    ASSUME NEW n \in Int, NEW T \in SUBSET Int, T # {}, \A x \in T : x <= n
    PROVE  /\ Max(T) \in T /\ \A x \in T : x <= Max(T)
           /\ \A m \in T : (\A x \in T : x <= m) => Max(T) = m
<1> DEFINE D == {n - x : x \in T}
<1>1. D \in SUBSET Nat /\ D # {}
    <2>1. \A x \in T : n - x \in Nat
        OBVIOUS
    <2> QED
        BY <2>1, Zenon
<1>2. PICK d \in D : \A y \in D : d <= y
    BY <1>1, LeastElement
<1>3. PICK m \in T : d = n - m
    BY <1>2
<1>4. \A x \in T : x <= m
    <2> SUFFICES ASSUME NEW x \in T PROVE x <= m
        OBVIOUS
    <2>1. d <= n - x
        BY <1>2
    <2> QED
        BY <1>3, <2>1
<1>5. \E y \in T : \A x \in T : y >= x
    BY <1>4
<1>6. Max(T) \in T /\ \A x \in T : Max(T) >= x
    BY <1>5, Zenon DEF Max
<1>7. \A x \in T : x <= Max(T)
    BY <1>6
<1>8. ASSUME NEW k \in T, \A x \in T : x <= k PROVE Max(T) = k
    <2>1. Max(T) <= k /\ k <= Max(T)
        BY <1>6, <1>7, <1>8
    <2>2. Max(T) \in Int /\ k \in Int
        BY <1>6
    <2> QED
        BY <2>1, <2>2
<1> QED
    BY <1>6, <1>7, <1>8

LEMMA SmallerOfTwo ==
    ASSUME NEW a \in Int, NEW b \in Int
    PROVE  /\ Min({a, b}) \in Int /\ Min({a, b}) <= a /\ Min({a, b}) <= b
           /\ Min({a, b}) = IF a <= b THEN a ELSE b
<1>1. \E x \in {a, b} : \A y \in {a, b} : x =< y
    OBVIOUS
<1>2. Min({a, b}) \in {a, b} /\ \A y \in {a, b} : Min({a, b}) =< y
    BY <1>1, Zenon DEF Min
<1> HIDE DEF Min
<1> QED
    BY <1>2

LEMMA NoneOrOneMore ==
    ASSUME NEW S, IsFiniteSet(S), NEW x, NEW T, T = S \cup {x}, x \notin S
    PROVE  IsFiniteSet(T) /\ Cardinality(T) = Cardinality(S) + 1
BY FS_AddElement

(* As many elements pass a filter as there are positions it keeps. *)
LEMMA PickedLength ==
    ASSUME NEW S, NEW s \in Seq(S), NEW keep
    PROVE  Len(Picked(s, keep)) = Cardinality(keep \cap (1 .. Len(s)))
<1>1. PICK f : /\ Picked(s, keep) = f[Len(s)]
               /\ f[0] = << >>
               /\ \A n \in 1 .. Len(s) : f[n] =
                      IF n \in keep THEN Append(f[n - 1], s[n]) ELSE f[n - 1]
    BY PickedRecursion
<1>2. Len(s) \in Nat /\ \A n \in 1 .. Len(s) : s[n] \in S
    OBVIOUS
<1> DEFINE P == {n \in 0 .. Len(s) : f[n] \in Seq(S) /\ Len(f[n]) = Cardinality(keep \cap (1 .. n))}
<1>3. 0 \in P
    <2>1. << >> \in Seq(S) /\ Len(<< >>) = 0
        BY EmptySeq
    <2>2. keep \cap (1 .. 0) = {} /\ Cardinality({}) = 0
        BY FS_EmptySet
    <2>3. f[0] \in Seq(S) /\ Len(f[0]) = Cardinality(keep \cap (1 .. 0))
        BY <1>1, <2>1, <2>2
    <2> QED
        BY <1>2, <2>3
<1>4. ASSUME NEW m \in 0 .. Len(s) - 1, m \in P PROVE m + 1 \in P
    <2>1. m + 1 \in 1 .. Len(s) /\ (m + 1) - 1 = m /\ m + 1 \in 0 .. Len(s)
              /\ s[m + 1] \in S /\ m \in Nat
        BY <1>2
    <2>2. f[m + 1] = IF m + 1 \in keep THEN Append(f[m], s[m + 1]) ELSE f[m]
        BY <1>1, <2>1
    <2>3. f[m] \in Seq(S) /\ Len(f[m]) = Cardinality(keep \cap (1 .. m))
        BY <1>4
    <2> DEFINE K(n) == keep \cap (1 .. n)
    <2>4. CASE m + 1 \in keep
        <3>1. K(m + 1) = K(m) \cup {m + 1} /\ m + 1 \notin K(m) /\ K(m) \subseteq 1 .. m
            BY <2>1, <2>4
        <3>2. IsFiniteSet(K(m))
            BY <2>1, <3>1, PositionsCounted
        <3> HIDE DEF K
        <3>3. Cardinality(K(m + 1)) = Cardinality(K(m)) + 1
            BY <3>1, <3>2, NoneOrOneMore
        <3>4. f[m + 1] \in Seq(S) /\ Len(f[m + 1]) = Len(f[m]) + 1
            BY <2>1, <2>2, <2>3, <2>4, AppendProperties
        <3>5. Len(f[m]) = Cardinality(K(m))
            BY <2>3 DEF K
        <3>6. Len(f[m + 1]) = Cardinality(K(m + 1))
            BY <3>3, <3>4, <3>5
        <3> QED
            BY <2>1, <3>4, <3>6 DEF K
    <2>5. CASE m + 1 \notin keep
        <3>1. K(m + 1) = K(m)
            BY <2>1, <2>5
        <3> QED
            BY <2>1, <2>2, <2>3, <2>5, <3>1
    <2> QED
        BY <2>4, <2>5
<1>5. Len(s) \in P
    <2> HIDE DEF P
    <2>1. \A n \in 0 .. Len(s) : n \in P
        BY <1>2, <1>3, <1>4, UpTo, Zenon
    <2> QED
        BY <1>2, <2>1
<1> QED
    BY <1>1, <1>5

LEMMA Division ==
    ASSUME NEW d \in Int, NEW h \in Nat \ {0}
    PROVE  /\ d \div h \in Int /\ d % h \in 0 .. h - 1
           /\ d = h * (d \div h) + (d % h)
OBVIOUS

LEMMA Monotone ==
    ASSUME NEW h \in Nat \ {0}, NEW x \in Int, NEW y \in Int, x <= y
    PROVE  h * x <= h * y
OBVIOUS

(* The numbers of the elements of each class add up to the number of those in   *)
(* a class.                                                                    *)
Classes(s, T, C) == \A c \in 1 .. Len(s) : s[c] = Cardinality({i \in T : C[i] = c})

Classed(s, T, C) == {i \in T : C[i] \in 1 .. Len(s)}

LEMMA CountsAddUp ==
    ASSUME NEW n \in Nat, NEW T \in SUBSET (1 .. n), NEW C \in [T -> Int],
           NEW s \in Seq(Int),
           Classes(s, T, C)
    PROVE  Total(s) = Cardinality(Classed(s, T, C))
<1> DEFINE m == Len(s)
           U(k) == {i \in T : C[i] \in 1 .. k}
<1>1. PICK f : /\ Total(s) = f[Len(s)]
               /\ f[0] = 0
               /\ \A k \in 1 .. Len(s) : f[k] = f[k - 1] + s[k]
               /\ \A k \in 0 .. Len(s) : f[k] \in Int
    BY TotalRecursion
<1>2. m \in Nat
    OBVIOUS
<1> DEFINE P == {k \in 0 .. m : f[k] = Cardinality(U(k))}
<1>3. 0 \in P
    <2>1. U(0) = {}
        OBVIOUS
    <2>2. Cardinality(U(0)) = 0
        BY <2>1, FS_EmptySet
    <2> HIDE DEF U
    <2> QED
        BY <1>1, <1>2, <2>2
<1>4. ASSUME NEW k \in 0 .. m - 1, k \in P PROVE k + 1 \in P
    <2> DEFINE new == {i \in T : C[i] = k + 1}
    <2>1. k + 1 \in 1 .. m /\ (k + 1) - 1 = k /\ k + 1 \in 0 .. m /\ k \in Nat
        BY <1>2
    <2>2. f[k + 1] = Cardinality(U(k)) + Cardinality(new)
        BY <1>1, <1>4, <2>1 DEF Classes
    <2>3. U(k + 1) = U(k) \cup new /\ U(k) \cap new = {} /\ U(k) \subseteq 1 .. n
              /\ new \subseteq 1 .. n
        BY <2>1
    <2>4. IsFiniteSet(U(k)) /\ IsFiniteSet(new) /\ Cardinality(U(k)) \in Nat
              /\ Cardinality(new) \in Nat
        <3> HIDE DEF U, new
        <3>1. IsFiniteSet(U(k)) /\ IsFiniteSet(new)
            BY <2>3, PositionsCounted, Zenon
        <3> QED
            BY <3>1, FS_CardinalityType
    <2>5. Cardinality(U(k) \cup new) = Cardinality(U(k)) + Cardinality(new)
        <3> HIDE DEF U, new
        <3>1. Cardinality(U(k) \cup new) =
                  Cardinality(U(k)) + Cardinality(new) - Cardinality(U(k) \cap new)
            BY <2>4, FS_Union
        <3>2. Cardinality(U(k) \cap new) = 0
            BY <2>3, FS_EmptySet
        <3> QED
            BY <2>4, <3>1, <3>2
    <2> HIDE DEF U, new
    <2> QED
        BY <2>1, <2>2, <2>3, <2>5
<1>5. m \in P
    <2> HIDE DEF P
    <2>1. \A k \in 0 .. m : k \in P
        BY <1>2, <1>3, <1>4, UpTo, Zenon
    <2> QED
        BY <1>2, <2>1
<1> QED
    BY <1>1, <1>5 DEF Classed

LEMMA MeanInRange ==
    ASSUME NEW n \in Nat \ {0}, NEW total \in Int, NEW lo \in Int, NEW hi \in Int,
           lo * n <= total, total <= hi * n
    PROVE  lo <= total \div n /\ total \div n <= hi /\ total \div n \in Int
<1> DEFINE q == total \div n
           r == total % n
<1>1. q \in Int /\ r \in 0 .. n - 1 /\ total = n * q + r
    BY Division
<1> HIDE DEF q, r
<1>2. lo * n = n * lo /\ hi * n = n * hi /\ n * lo \in Int /\ n * hi \in Int
          /\ n * q \in Int
    BY <1>1
<1>3. q + 1 <= lo => n * q + n <= n * lo
    <2>1. q + 1 <= lo => n * (q + 1) <= n * lo
        BY <1>1, Monotone
    <2>2. n * (q + 1) = n * q + n
        BY <1>1
    <2> QED
        BY <2>1, <2>2
<1>4. hi + 1 <= q => n * hi + n <= n * q
    <2>1. hi + 1 <= q => n * (hi + 1) <= n * q
        BY <1>1, Monotone
    <2>2. n * (hi + 1) = n * hi + n
        BY <1>1
    <2> QED
        BY <2>1, <2>2
<1> DEFINE x == n * q
           y == n * lo
           z == n * hi
<1>5. /\ x \in Int /\ y \in Int /\ z \in Int /\ y <= total /\ total <= z /\ total = x + r
      /\ (q + 1 <= lo => x + n <= y) /\ (hi + 1 <= q => z + n <= x)
    BY <1>1, <1>2, <1>3, <1>4
<1> HIDE DEF x, y, z
<1>6. lo <= q /\ q <= hi
    BY <1>1, <1>5
<1> QED
    BY <1>1, <1>6 DEF q

(* The session table *)
LEMMA ListedOnce ==
    ASSUME NEW S, IsFiniteSet(S)
    PROVE  /\ SetToSeq(S) \in Seq(S) /\ Len(SetToSeq(S)) = Cardinality(S)
           /\ \A i, j \in 1 .. Len(SetToSeq(S)) : SetToSeq(S)[i] = SetToSeq(S)[j] => i = j
<1> DEFINE n == Cardinality(S)
<1>1. n \in Nat /\ ExistsBijection(1 .. n, S)
    BY FS_CardinalityType
<1>2. PICK f \in [1 .. n -> S] : IsInjective(f)
    BY <1>1 DEF ExistsBijection, Bijection, Injection
<1> DEFINE g == SetToSeq(S)
<1>3. g \in [1 .. n -> S] /\ IsInjective(g)
    BY <1>2, Zenon DEF SetToSeq
<1>4. \A i, j \in DOMAIN g : g[i] = g[j] => i = j
    BY <1>3, Zenon DEF IsInjective
<1> HIDE DEF g, n
<1>5. g \in Seq(S) /\ Len(g) = n
    BY <1>1, <1>3
<1> QED
    BY <1>3, <1>4, <1>5 DEF g, n

LEMMA ElementIs ==
    ASSUME NEW S, NEW s \in Seq(S), NEW i \in DOMAIN s
    PROVE  s[i] \in S
OBVIOUS

LEMMA TopIs ==
    ASSUME NEW T, NEW top \in Int, T \in SUBSET Int, top \in T, \A x \in T : x <= top
    PROVE  Max(T) = top
<1>1. T # {}
    OBVIOUS
<1> QED
    BY <1>1, LargestElement

LEMMA LargerOfTwo ==
    ASSUME NEW a \in Int, NEW b \in Int, NEW c \in Int
    PROVE  Max({a, b}) > c <=> a > c \/ b > c
<1>1. a <= b => Max({a, b}) = b
    <2>1. a <= b => \A x \in {a, b} : x <= b
        OBVIOUS
    <2> QED
        BY <2>1, TopIs
<1>2. b <= a => Max({a, b}) = a
    <2>1. b <= a => \A x \in {a, b} : x <= a
        OBVIOUS
    <2> QED
        BY <2>1, TopIs
<1> DEFINE m == Max({a, b})
<1> HIDE DEF m
<1>3. (a <= b => m = b) /\ (b <= a => m = a)
    BY <1>1, <1>2 DEF m
<1>4. m > c <=> a > c \/ b > c
    BY <1>3
<1> QED
    BY <1>4 DEF m
=============================================================================
