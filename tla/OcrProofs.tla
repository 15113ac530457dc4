----------------------------- MODULE OcrProofs -----------------------------
(***************************************************************************)
(* Proofs about what the OCR stage extracts (OcrFields), for any document. *)
(*                                                                         *)
(* Most of it is about the name.  Joining two tokens moves no word, so the *)
(* flattened name stays what it was: only one of its prefixes, the one     *)
(* that ends between the two words, gets the second word early.  The folds *)
(* that do the joining are taken apart by induction, which comes down to   *)
(* this: a set of naturals that is not empty has a least element.          *)
(***************************************************************************)
EXTENDS OcrFields, Integers, SequenceTheorems, WellFoundedInduction, TLAPS

-----------------------------------------------------------------------------
(* Induction.                                                              *)

\* There is no smaller pair in the order of the naturals for ever.
LEMMA LeastNatural ==
  ASSUME NEW T, T \subseteq Nat, T # {}
  PROVE  \E n \in T : \A m \in T : n <= m
<1> DEFINE R == OpToRel(<, Nat)
<1>1. IsWellFoundedOn(R, Nat)
  BY NatLessThanWellFounded
<1>2. PICK n \in T : \A m \in T : ~(<<m, n>> \in R)
  <2> HIDE DEF R
  <2> QED BY <1>1, WFMin
<1>3. \A m, k \in Nat : m < k => <<m, k>> \in R
  BY DEF OpToRel
<1>4. ASSUME NEW m \in T PROVE n <= m
  <2>1. ~(<<m, n>> \in R)
    BY <1>2
  <2> HIDE DEF R
  <2>2. ~(m < n)
    BY <1>3, <2>1
  <2>3. QED
    BY <2>2
<1>5. QED
  BY <1>4

\* A set that has 0, and with n also n + 1: if it missed some, then a least one.
LEMMA Induction ==
  ASSUME NEW T, 0 \in T, \A n \in Nat : n \in T => n + 1 \in T
  PROVE  Nat \subseteq T
<1> SUFFICES ASSUME Nat \ T # {} PROVE FALSE
  OBVIOUS
<1>1. PICK n \in Nat \ T : \A m \in Nat \ T : n <= m
  BY LeastNatural
<1>2. n - 1 \in Nat \ T
  BY <1>1
<1>3. QED
  BY <1>1, <1>2

-----------------------------------------------------------------------------
(* Folds.  FoldLeft goes by sets of indices, taking out the highest first. *)

LEMMA MaxIs ==
  ASSUME NEW n \in Nat, NEW s \in SUBSET (1..n), n \in s
  PROVE  Max(s) = n
<1>1. \A y \in s : n >= y
  OBVIOUS
<1>2. \A x \in s : (\A y \in s : x >= y) => x = n
  OBVIOUS
<1>3. Max(s) \in s /\ \A y \in s : Max(s) >= y
  BY <1>1 DEF Max
<1>4. QED
  BY <1>2, <1>3

LEMMA MaxOf ==
  ASSUME NEW n \in Nat, NEW s \in SUBSET (1..n), s # {}
  PROVE  Max(s) \in s
<1> DEFINE T == {m \in Nat : \E x \in s : x = n - m}
<1>1. T # {}
  <2>1. PICK x \in s : TRUE
    OBVIOUS
  <2>2. n - x \in T
    BY <2>1
  <2>3. QED
    BY <2>2
<1>2. PICK m \in T : \A k \in T : m <= k
  <2>1. T \subseteq Nat
    OBVIOUS
  <2> HIDE DEF T
  <2>2. QED
    BY <1>1, <2>1, LeastNatural
<1>3. n - m \in s
  BY <1>2
<1>4. ASSUME NEW y \in s PROVE n - m >= y
  <2>1. n - y \in T
    OBVIOUS
  <2>2. m <= n - y
    BY <1>2, <2>1
  <2>3. QED
    BY <2>2
<1>5. QED
  BY <1>3, <1>4 DEF Max

\* n steps that lead from S to S, the i-th of them h[i].
Steps(S, n, h) == n \in Nat /\ h \in [1..n -> [S -> S]]

\* What the steps of a set make of base, the highest last.
FoldsOver(c, S, base, n, h) ==
  /\ c \in [SUBSET (1..n) -> S]
  /\ c[{}] = base
  /\ \A s \in SUBSET (1..n) : s # {} => c[s] = h[Max(s)][c[s \ {Max(s)}]]

\* What the first steps make of base.
Runs(g, S, base, n, h) ==
  /\ g \in [0..n -> S]
  /\ g[0] = base
  /\ \A i \in 1..n : g[i] = h[i][g[i - 1]]

\* A fold whose steps stay in S is well defined.
LEMMA FoldDefined ==
  ASSUME NEW S, NEW base \in S, NEW n, NEW h, Steps(S, n, h)
  PROVE  \E c : FoldsOver(c, S, base, n, h)
<1> USE DEF Steps
<1> DEFINE Folds(k, c) ==
             /\ c \in [SUBSET (1..k) -> S]
             /\ c[{}] = base
             /\ \A s \in SUBSET (1..k) : s # {} => c[s] = h[Max(s)][c[s \ {Max(s)}]]
           T == {k \in Nat : k <= n => \E c : Folds(k, c)}
<1>1. 0 \in T
  <2>1. Folds(0, [s \in SUBSET (1..0) |-> base])
    <3>1. 1..0 = {} /\ SUBSET {} = {{}}
      OBVIOUS
    <3> DEFINE c == [s \in SUBSET (1..0) |-> base]
    <3>2. c \in [SUBSET (1..0) -> S] /\ c[{}] = base
      OBVIOUS
    <3>3. \A s \in SUBSET (1..0) : s = {}
      BY <3>1
    <3> HIDE DEF c
    <3>4. QED
      BY <3>2, <3>3
  <2> HIDE DEF Folds
  <2>2. QED
    BY <2>1
<1>2. ASSUME NEW k \in Nat, k \in T PROVE k + 1 \in T
  <2> SUFFICES ASSUME k + 1 <= n PROVE \E c : Folds(k + 1, c)
    <3> HIDE DEF Folds
    <3>1. QED
      OBVIOUS
  <2>1. PICK c : Folds(k, c)
    <3> HIDE DEF Folds
    <3>1. k <= n
      OBVIOUS
    <3>2. QED
      BY <1>2, <3>1
  <2> DEFINE d == [s \in SUBSET (1..k + 1) |->
                     IF k + 1 \in s THEN h[k + 1][c[s \ {k + 1}]] ELSE c[s]]
  <2>2. \A s \in SUBSET (1..k + 1) : s \ {k + 1} \in SUBSET (1..k)
    OBVIOUS
  <2>3. ASSUME NEW s \in SUBSET (1..k + 1) PROVE d[s] \in S
    <3>1. CASE k + 1 \in s
      <4>1. c[s \ {k + 1}] \in S
        BY <2>1, <2>2
      <4>2. k + 1 \in 1..n
        OBVIOUS
      <4>3. QED
        BY <3>1, <4>1, <4>2
    <3>2. CASE k + 1 \notin s
      <4>1. s \in SUBSET (1..k)
        BY <3>2
      <4>2. QED
        BY <3>2, <4>1, <2>1
    <3>3. QED
      BY <3>1, <3>2
  <2>4. d[{}] = base
    BY <2>1
  <2>5. ASSUME NEW s \in SUBSET (1..k + 1), s # {} PROVE d[s] = h[Max(s)][d[s \ {Max(s)}]]
    <3>1. CASE k + 1 \in s
      <4>1. Max(s) = k + 1
        BY <3>1, MaxIs
      <4>2. s \ {k + 1} \in SUBSET (1..k + 1) /\ k + 1 \notin s \ {k + 1}
        OBVIOUS
      <4>3. d[s \ {k + 1}] = c[s \ {k + 1}]
        BY <4>2
      <4>4. d[s] = h[k + 1][c[s \ {k + 1}]]
        BY <3>1
      <4>5. QED
        BY <4>1, <4>3, <4>4
    <3>2. CASE k + 1 \notin s
      <4>1. s \in SUBSET (1..k) /\ s # {}
        BY <2>5, <3>2
      <4>2. s \ {Max(s)} \in SUBSET (1..k + 1) /\ k + 1 \notin s \ {Max(s)}
        BY <3>2
      <4>3. d[s] = c[s] /\ d[s \ {Max(s)}] = c[s \ {Max(s)}]
        BY <3>2, <4>2
      <4>4. QED
        BY <2>1, <4>1, <4>3
    <3>3. QED
      BY <3>1, <3>2
  <2>6. d \in [SUBSET (1..k + 1) -> S]
    BY <2>3
  <2>7. Folds(k + 1, d)
    <3> HIDE DEF d
    <3>1. QED
      BY <2>4, <2>5, <2>6
  <2>8. QED
    <3> HIDE DEF Folds, d
    <3>1. \E x : Folds(k + 1, x)
      BY <2>7
    <3>2. QED
      BY <3>1
<1>3. n \in T
  <2> HIDE DEF T
  <2>1. QED
    BY <1>1, <1>2, Induction
<1>4. PICK c : Folds(n, c)
  <2> HIDE DEF Folds
  <2>1. QED
    BY <1>3
<1>5. QED
  BY <1>4 DEF FoldsOver

\* The same of a fold that is only known to go as the steps do inside S.
Follows(c, S, base, n, h) ==
  /\ c[{}] = base
  /\ \A s \in SUBSET (1..n) :
       s # {} /\ c[s \ {Max(s)}] \in S => c[s] = h[Max(s)][c[s \ {Max(s)}]]

\* What such a fold makes of the first indices is what the first steps make.
LEMMA FoldPrefixes ==
  ASSUME NEW S, NEW base \in S, NEW n, NEW h, Steps(S, n, h), NEW c,
         Follows(c, S, base, n, h)
  PROVE  \E g : Runs(g, S, base, n, h) /\ g[n] = c[1..n]
<1> USE DEF Steps, Follows
<1> DEFINE T == {k \in Nat : k <= n => c[1..k] \in S}
<1>1. 0 \in T
  <2>1. 1..0 = {}
    OBVIOUS
  <2>2. QED
    BY <2>1
<1>2. ASSUME NEW i \in 1..n, c[1..i - 1] \in S PROVE c[1..i] = h[i][c[1..i - 1]]
  <2>1. 1..i \in SUBSET (1..n) /\ 1..i # {} /\ i \in 1..i
    <3>1. i \in 1..i /\ \A x \in 1..i : x \in 1..n
      OBVIOUS
    <3>2. QED
      BY <3>1
  <2>2. Max(1..i) = i
    BY <2>1, i \in Nat, MaxIs
  <2>3. (1..i) \ {i} = 1..i - 1
    OBVIOUS
  <2>4. QED
    BY <1>2, <2>1, <2>2, <2>3
<1>3. ASSUME NEW k \in Nat, k \in T PROVE k + 1 \in T
  <2> SUFFICES ASSUME k + 1 <= n PROVE c[1..k + 1] \in S
    OBVIOUS
  <2>1. c[1..k] \in S /\ k + 1 \in 1..n /\ (k + 1) - 1 = k
    BY <1>3
  <2>2. c[1..k + 1] = h[k + 1][c[1..k]]
    BY <1>2, <2>1
  <2>3. QED
    BY <2>1, <2>2
<1>4. \A k \in 0..n : c[1..k] \in S
  <2>1. Nat \subseteq T
    <3> HIDE DEF T
    <3>1. QED
      BY <1>1, <1>3, Induction
  <2>2. QED
    BY <2>1
<1> DEFINE g == [k \in 0..n |-> c[1..k]]
<1>5. g \in [0..n -> S] /\ g[n] = c[1..n]
  BY <1>4
<1>6. g[0] = base
  <2>1. 1..0 = {}
    OBVIOUS
  <2>2. QED
    BY <2>1
<1>7. ASSUME NEW i \in 1..n PROVE g[i] = h[i][g[i - 1]]
  <2>1. i \in 0..n /\ i - 1 \in 0..n
    OBVIOUS
  <2>2. QED
    BY <1>2, <1>4, <2>1
<1>8. QED
  <2> HIDE DEF g
  <2>1. Runs(g, S, base, n, h)
    BY <1>5, <1>6, <1>7 DEF Runs
  <2>2. QED
    BY <1>5, <2>1

LEMMA RunExists ==
  ASSUME NEW S, NEW base \in S, NEW n, NEW h, Steps(S, n, h)
  PROVE  \E g : Runs(g, S, base, n, h)
<1>1. PICK c : FoldsOver(c, S, base, n, h)
  BY FoldDefined
<1>2. Follows(c, S, base, n, h)
  BY <1>1 DEF FoldsOver, Follows
<1>3. QED
  BY <1>2, FoldPrefixes

-----------------------------------------------------------------------------
(* Flattening.                                                             *)

\* g[t] is what the first t elements of s are when flattened.
Flattens(g, s) == g[0] = <<>> /\ \A i \in DOMAIN s : g[i] = g[i - 1] \o s[i]

\* Every sequence of sequences has its prefixes flattened one after the other.
LEMMA FlattenPrefixes ==
  ASSUME NEW W, NEW s \in Seq(Seq(W))
  PROVE  \E g \in [0..Len(s) -> Seq(W)] : Flattens(g, s)
<1> DEFINE n == Len(s)
           S == Seq(W)
           none == <<>>
           h == [i \in 1..n |-> [x \in S |-> x \o s[i]]]
<1>1. Steps(S, n, h) /\ none \in S
  BY DEF Steps
<1>2. PICK g : Runs(g, S, none, n, h)
  <2> HIDE DEF h, n, S, none
  <2>1. QED
    BY <1>1, RunExists
<1>3. g \in [0..n -> S] /\ g[0] = none
  BY <1>2 DEF Runs
<1>4. \A i \in 1..n : g[i] = h[i][g[i - 1]]
  BY <1>2 DEF Runs
<1>5. ASSUME NEW i \in DOMAIN s PROVE g[i] = g[i - 1] \o s[i]
  <2>1. i \in 1..n /\ i - 1 \in 0..n
    OBVIOUS
  <2>2. g[i - 1] \in S
    BY <1>3, <2>1
  <2>3. QED
    BY <1>4, <2>1, <2>2
<1>6. QED
  BY <1>3, <1>5 DEF Flattens

\* FlattenSeq goes by them.
LEMMA FlattenIs ==
  ASSUME NEW W, NEW s \in Seq(Seq(W)), NEW g, Flattens(g, s)
  PROVE  FlattenSeq(s) = g[Len(s)]
<1>1. CASE Len(s) = 0
  BY <1>1 DEF FlattenSeq, Flattens
<1>2. CASE Len(s) # 0
  <2> DEFINE n == Len(s)
             Body(f) == [i \in 1..n |-> IF i = 1 THEN s[i] ELSE f[i - 1] \o s[i]]
             flat == CHOOSE f : f = Body(f)
             known == [i \in 1..n |-> g[i]]
  <2>1. FlattenSeq(s) = flat[n]
    BY <1>2 DEF FlattenSeq
  <2>2. g[1] = s[1]
    <3>1. 1 \in DOMAIN s /\ 1 - 1 = 0 /\ s[1] \in Seq(W)
      BY <1>2
    <3>2. g[1] = <<>> \o s[1]
      BY <3>1 DEF Flattens
    <3>3. QED
      BY <3>1, <3>2
  <2>3. known = Body(known)
    <3>1. ASSUME NEW i \in 1..n PROVE known[i] = Body(known)[i]
      <4>1. CASE i = 1
        BY <2>2, <4>1
      <4>2. CASE i # 1
        <5>1. i - 1 \in 1..n /\ i \in DOMAIN s
          BY <4>2
        <5>2. QED
          BY <4>2, <5>1 DEF Flattens
      <4>3. QED
        BY <4>1, <4>2
    <3>2. QED
      BY <3>1
  <2>4. flat = Body(flat)
    <3> HIDE DEF Body, known
    <3>1. QED
      BY <2>3
  <2> HIDE DEF flat
  <2> DEFINE T == {k \in Nat : k + 1 <= n => flat[k + 1] = g[k + 1]}
  <2>5. 0 \in T
    BY <1>2, <2>2, <2>4
  <2>6. ASSUME NEW k \in Nat, k \in T PROVE k + 1 \in T
    <3> SUFFICES ASSUME k + 2 <= n PROVE flat[k + 2] = g[k + 2]
      OBVIOUS
    <3>1. k + 2 \in 1..n /\ (k + 2) - 1 = k + 1 /\ k + 2 # 1 /\ k + 2 \in DOMAIN s
      OBVIOUS
    <3>2. flat[k + 1] = g[k + 1]
      BY <2>6
    <3>3. flat[k + 2] = flat[k + 1] \o s[k + 2]
      BY <2>4, <3>1
    <3>4. g[k + 2] = g[k + 1] \o s[k + 2]
      BY <3>1 DEF Flattens
    <3>5. QED
      BY <3>2, <3>3, <3>4
  <2>7. n - 1 \in T
    <3>1. Nat \subseteq T
      <4> HIDE DEF T
      <4>1. QED
        BY <2>5, <2>6, Induction
    <3>2. n - 1 \in Nat
      BY <1>2
    <3> HIDE DEF T
    <3>3. QED
      BY <3>1, <3>2
  <2>8. flat[n] = g[n]
    BY <2>7, <1>2
  <2>9. QED
    BY <2>1, <2>8
<1>3. QED
  BY <1>1, <1>2

LEMMA FlattenType ==
  ASSUME NEW W, NEW s \in Seq(Seq(W))
  PROVE  FlattenSeq(s) \in Seq(W)
<1>1. PICK g \in [0..Len(s) -> Seq(W)] : Flattens(g, s)
  BY FlattenPrefixes
<1>2. FlattenSeq(s) = g[Len(s)]
  BY <1>1, FlattenIs
<1>3. Len(s) \in 0..Len(s)
  OBVIOUS
<1>4. QED
  BY <1>2, <1>3

\* So it does up to any point.
LEMMA FlattenStart ==
  ASSUME NEW W, NEW s \in Seq(Seq(W)), NEW g, Flattens(g, s), NEW t \in 0..Len(s)
  PROVE  FlattenSeq(SubSeq(s, 1, t)) = g[t]
<1> DEFINE head == SubSeq(s, 1, t)
<1>1. head \in Seq(Seq(W)) /\ Len(head) = t /\ \A i \in 1..t : head[i] = s[i]
  OBVIOUS
<1>2. Flattens(g, head)
  <2> HIDE DEF head
  <2>1. ASSUME NEW i \in DOMAIN head PROVE g[i] = g[i - 1] \o head[i]
    <3>1. i \in 1..t /\ i \in DOMAIN s
      BY <1>1
    <3>2. QED
      BY <1>1, <3>1 DEF Flattens
  <2>2. QED
    BY <2>1 DEF Flattens
<1> HIDE DEF head
<1>3. FlattenSeq(head) = g[Len(head)]
  BY <1>1, <1>2, FlattenIs
<1>4. QED
  BY <1>1, <1>3 DEF head

LEMMA FlattenAppend ==
  ASSUME NEW W, NEW s \in Seq(Seq(W)), NEW e \in Seq(W)
  PROVE  FlattenSeq(Append(s, e)) = FlattenSeq(s) \o e
<1> DEFINE longer == Append(s, e)
<1>1. /\ longer \in Seq(Seq(W)) /\ Len(longer) = Len(s) + 1 /\ longer[Len(s) + 1] = e
      /\ \A i \in DOMAIN s : longer[i] = s[i]
  OBVIOUS
<1> HIDE DEF longer
<1>2. PICK g \in [0..Len(longer) -> Seq(W)] : Flattens(g, longer)
  BY <1>1, FlattenPrefixes
<1>3. FlattenSeq(longer) = g[Len(s) + 1]
  BY <1>1, <1>2, FlattenIs
<1>4. g[Len(s) + 1] = g[Len(s)] \o e
  <2>1. Len(s) + 1 \in DOMAIN longer /\ (Len(s) + 1) - 1 = Len(s)
    BY <1>1
  <2>2. QED
    BY <1>1, <1>2, <2>1 DEF Flattens
<1>5. Flattens(g, s)
  <2>1. \A i \in DOMAIN s : i \in DOMAIN longer
    BY <1>1
  <2>2. QED
    BY <1>1, <1>2, <2>1 DEF Flattens
<1>6. FlattenSeq(s) = g[Len(s)]
  BY <1>5, FlattenIs
<1>7. QED
  BY <1>3, <1>4, <1>6 DEF longer

\* What is flattened first stays in front.
LEMMA FlattenKeeps ==
  ASSUME NEW W, NEW s \in Seq(Seq(W)), NEW g \in [0..Len(s) -> Seq(W)], Flattens(g, s),
         NEW t \in 0..Len(s)
  PROVE  /\ Len(g[t]) <= Len(g[Len(s)])
         /\ \A p \in 1..Len(g[t]) : g[Len(s)][p] = g[t][p]
<1> DEFINE Keeps(u) == Len(g[t]) <= Len(g[u]) /\ \A p \in 1..Len(g[t]) : g[u][p] = g[t][p]
           T == {k \in Nat : t + k <= Len(s) => Keeps(t + k)}
<1>1. 0 \in T
  OBVIOUS
<1>2. ASSUME NEW k \in Nat, k \in T PROVE k + 1 \in T
  <2> SUFFICES ASSUME t + k + 1 <= Len(s) PROVE Keeps(t + k + 1)
    <3> HIDE DEF Keeps
    <3>1. QED
      OBVIOUS
  <2>1. t + k \in 0..Len(s) /\ t + k + 1 \in DOMAIN s /\ (t + k + 1) - 1 = t + k
    OBVIOUS
  <2>2. Keeps(t + k)
    <3> HIDE DEF Keeps
    <3>1. QED
      BY <1>2, <2>1
  <2>3. g[t + k + 1] = g[t + k] \o s[t + k + 1]
    BY <2>1 DEF Flattens
  <2>4. g[t + k] \in Seq(W) /\ s[t + k + 1] \in Seq(W) /\ g[t] \in Seq(W)
    <3>1. t + k \in 0..Len(s) /\ t \in 0..Len(s)
      BY <2>1
    <3>2. g[t + k] \in Seq(W) /\ g[t] \in Seq(W)
      BY <3>1
    <3>3. s[t + k + 1] \in Seq(W)
      BY <2>1, ElementOfSeq
    <3>4. QED
      BY <3>2, <3>3
  <2>5. \A x, y \in Seq(W) : Len(x) <= Len(x \o y) /\ \A p \in 1..Len(x) : (x \o y)[p] = x[p]
    OBVIOUS
  <2> DEFINE x == g[t + k]
             y == s[t + k + 1]
  <2>6. /\ Len(x) <= Len(x \o y) /\ Len(x) \in Nat /\ Len(x \o y) \in Nat /\ Len(g[t]) \in Nat
        /\ \A p \in 1..Len(x) : (x \o y)[p] = x[p]
    <3>1. x \in Seq(W) /\ y \in Seq(W) /\ Len(g[t]) \in Nat
      BY <2>4
    <3> HIDE DEF x, y
    <3>2. Len(x) \in Nat /\ x \o y \in Seq(W)
      BY <3>1
    <3>3. Len(x \o y) \in Nat
      BY <3>2
    <3>4. QED
      BY <2>5, <3>1, <3>2, <3>3
  <2>7. QED
    <3> DEFINE z == g[t + k + 1]
               w == g[t]
    <3>1. z = x \o y /\ Len(w) <= Len(x) /\ \A p \in 1..Len(w) : x[p] = w[p]
      BY <2>2, <2>3
    <3> HIDE DEF x, y, z, w
    <3>2. Len(w) <= Len(z) /\ \A p \in 1..Len(w) : z[p] = w[p]
      BY <2>6, <3>1 DEF w
    <3>3. QED
      BY <3>2 DEF z, w
<1>3. Len(s) - t \in T
  <2>1. Nat \subseteq T
    <3> HIDE DEF T
    <3>1. QED
      BY <1>1, <1>2, Induction
  <2>2. Len(s) - t \in Nat
    OBVIOUS
  <2> HIDE DEF T
  <2>3. QED
    BY <2>1, <2>2
<1>4. QED
  BY <1>3
-----------------------------------------------------------------------------
(* The folds of RestoreNamePunctuation.                                    *)

\* One step of Join.
JoinedAt(name, i, pair) ==
  IF name[i] = <<pair[1]>> /\ name[i + 1] = <<pair[2]>>
    THEN [name EXCEPT ![i] = pair, ![i + 1] = <<>>] ELSE name

LEMMA FoldStays ==
  ASSUME NEW S, NEW base \in S, NEW n, NEW h, Steps(S, n, h), NEW c,
         Follows(c, S, base, n, h)
  PROVE  c[1..n] \in S
<1>1. PICK g : Runs(g, S, base, n, h) /\ g[n] = c[1..n]
  BY FoldPrefixes
<1>2. n \in 0..n
  BY DEF Steps
<1>3. QED
  BY <1>1, <1>2 DEF Runs

\* What every step of Join keeps, Join keeps.
LEMMA JoinStays ==
  ASSUME NEW S, NEW tokens \in S, NEW pair, Len(tokens) \in Nat \ {0},
         \A name \in S : \A i \in 1..Len(tokens) - 1 : JoinedAt(name, i, pair) \in S
  PROVE  Join(tokens, pair) \in S
<1> DEFINE n == Len(tokens) - 1
           idx == [i \in 1..n |-> i]
           At(c, s) == JoinedAt(c[s \ {Max(s)}], idx[Max(s)], pair)
           Body(c) == [s \in SUBSET (DOMAIN idx) |-> IF s = {} THEN tokens ELSE At(c, s)]
           folded == CHOOSE c : c = Body(c)
           h == [i \in 1..n |-> [name \in S |-> JoinedAt(name, i, pair)]]
<1>1. Join(tokens, pair) = folded[DOMAIN idx]
  BY DEF Join, FoldLeft, MapThenFoldSet, JoinedAt
<1>2. Steps(S, n, h) /\ DOMAIN idx = 1..n
  BY DEF Steps
<1>3. ASSUME NEW c, NEW s \in SUBSET (1..n), s # {}, c[s \ {Max(s)}] \in S
      PROVE  At(c, s) = h[Max(s)][c[s \ {Max(s)}]]
  <2>1. Max(s) \in 1..n
    <3>1. Max(s) \in s
      <4>1. n \in Nat
        OBVIOUS
      <4> HIDE DEF n
      <4>2. QED
        BY <1>3, <4>1, MaxOf
    <3>2. QED
      BY <3>1
  <2>2. QED
    BY <1>3, <2>1
<1>4. folded = Body(folded)
  <2>1. PICK c : FoldsOver(c, S, tokens, n, h)
    <3> HIDE DEF h, n
    <3>1. QED
      BY <1>2, FoldDefined
  <2>2. ASSUME NEW s \in SUBSET (1..n) PROVE c[s] = Body(c)[s]
    <3>1. CASE s = {}
      BY <1>2, <2>1, <3>1 DEF FoldsOver
    <3>2. CASE s # {}
      <4>1. c[s \ {Max(s)}] \in S
        BY <2>1 DEF FoldsOver
      <4>2. c[s] = h[Max(s)][c[s \ {Max(s)}]]
        BY <2>1, <3>2 DEF FoldsOver
      <4>3. At(c, s) = h[Max(s)][c[s \ {Max(s)}]]
        BY <1>3, <3>2, <4>1
      <4> HIDE DEF At, h
      <4>4. QED
        BY <1>2, <3>2, <4>2, <4>3
    <3>3. QED
      BY <3>1, <3>2
  <2>3. c = Body(c)
    <3>1. c = [s \in SUBSET (1..n) |-> c[s]]
      BY <2>1 DEF FoldsOver
    <3> HIDE DEF At, n
    <3>2. QED
      BY <1>2, <2>2, <3>1
  <2> HIDE DEF Body
  <2>4. QED
    BY <2>3
<1> HIDE DEF folded
<1>5. folded[{}] = tokens
  BY <1>4
<1>6. ASSUME NEW s \in SUBSET (1..n), s # {}, folded[s \ {Max(s)}] \in S
      PROVE  folded[s] = h[Max(s)][folded[s \ {Max(s)}]]
  <2>1. At(folded, s) = h[Max(s)][folded[s \ {Max(s)}]]
    BY <1>3, <1>6
  <2>2. folded[s] = At(folded, s)
    <3> HIDE DEF At
    <3>1. QED
      BY <1>2, <1>4, <1>6
  <2>3. QED
    BY <2>1, <2>2
<1>7. folded[1..n] \in S
  <2>1. Follows(folded, S, tokens, n, h)
    <3> HIDE DEF h, n
    <3>1. QED
      BY <1>5, <1>6 DEF Follows
  <2> HIDE DEF h, n
  <2>2. QED
    BY <1>2, <2>1, FoldStays
<1>8. QED
  BY <1>1, <1>2, <1>7

\* What joining any pair keeps, joining them all keeps.
LEMMA JoinsStay ==
  ASSUME NEW S, NEW tokens \in S, NEW P, NEW pairs \in Seq(P),
         \A name \in S : \A pair \in P : Join(name, pair) \in S
  PROVE  FoldLeft(Join, tokens, pairs) \in S
<1> DEFINE n == Len(pairs)
           At(c, s) == Join(c[s \ {Max(s)}], pairs[Max(s)])
           Body(c) == [s \in SUBSET (DOMAIN pairs) |-> IF s = {} THEN tokens ELSE At(c, s)]
           folded == CHOOSE c : c = Body(c)
           h == [i \in 1..n |-> [name \in S |-> Join(name, pairs[i])]]
<1>1. FoldLeft(Join, tokens, pairs) = folded[DOMAIN pairs]
  BY DEF FoldLeft, MapThenFoldSet
<1>2. Steps(S, n, h) /\ DOMAIN pairs = 1..n
  BY DEF Steps
<1>3. ASSUME NEW c, NEW s \in SUBSET (1..n), s # {}, c[s \ {Max(s)}] \in S
      PROVE  At(c, s) = h[Max(s)][c[s \ {Max(s)}]]
  <2>1. Max(s) \in 1..n
    <3>1. Max(s) \in s
      <4>1. n \in Nat
        OBVIOUS
      <4> HIDE DEF n
      <4>2. QED
        BY <1>3, <4>1, MaxOf
    <3>2. QED
      BY <3>1
  <2>2. QED
    BY <1>3, <2>1
<1>4. folded = Body(folded)
  <2>1. PICK c : FoldsOver(c, S, tokens, n, h)
    <3> HIDE DEF h, n
    <3>1. QED
      BY <1>2, FoldDefined
  <2>2. ASSUME NEW s \in SUBSET (1..n) PROVE c[s] = Body(c)[s]
    <3>1. CASE s = {}
      BY <1>2, <2>1, <3>1 DEF FoldsOver
    <3>2. CASE s # {}
      <4>1. c[s \ {Max(s)}] \in S
        BY <2>1 DEF FoldsOver
      <4>2. c[s] = h[Max(s)][c[s \ {Max(s)}]]
        BY <2>1, <3>2 DEF FoldsOver
      <4>3. At(c, s) = h[Max(s)][c[s \ {Max(s)}]]
        BY <1>3, <3>2, <4>1
      <4> HIDE DEF At, h
      <4>4. QED
        BY <1>2, <3>2, <4>2, <4>3
    <3>3. QED
      BY <3>1, <3>2
  <2>3. c = Body(c)
    <3>1. c = [s \in SUBSET (1..n) |-> c[s]]
      BY <2>1 DEF FoldsOver
    <3> HIDE DEF At, n
    <3>2. QED
      BY <1>2, <2>2, <3>1
  <2> HIDE DEF Body
  <2>4. QED
    BY <2>3
<1> HIDE DEF folded
<1>5. folded[{}] = tokens
  BY <1>4
<1>6. ASSUME NEW s \in SUBSET (1..n), s # {}, folded[s \ {Max(s)}] \in S
      PROVE  folded[s] = h[Max(s)][folded[s \ {Max(s)}]]
  <2>1. At(folded, s) = h[Max(s)][folded[s \ {Max(s)}]]
    BY <1>3, <1>6
  <2>2. folded[s] = At(folded, s)
    <3> HIDE DEF At
    <3>1. QED
      BY <1>2, <1>4, <1>6
  <2>3. QED
    BY <2>1, <2>2
<1>7. Follows(folded, S, tokens, n, h)
  <2> HIDE DEF h, n
  <2>1. QED
    BY <1>5, <1>6 DEF Follows
<1>8. folded[1..n] \in S
  <2> HIDE DEF h, n
  <2>1. QED
    BY <1>2, <1>7, FoldStays
<1>9. QED
  BY <1>1, <1>2, <1>8

\* What is kept of the first tokens, token by token.
LEMMA KeptRuns ==
  ASSUME NEW W, NEW name \in Seq(Seq(W))
  PROVE  \E g \in [0..Len(name) -> Seq(Seq(W))] :
           /\ g[0] = <<>>
           /\ \A i \in DOMAIN name : g[i] = Kept(g[i - 1], name[i])
           /\ FoldLeft(Kept, <<>>, name) = g[Len(name)]
<1> DEFINE n == Len(name)
           S == Seq(Seq(W))
           none == <<>>
           At(c, s) == Kept(c[s \ {Max(s)}], name[Max(s)])
           Body(c) == [s \in SUBSET (DOMAIN name) |-> IF s = {} THEN none ELSE At(c, s)]
           folded == CHOOSE c : c = Body(c)
           h == [i \in 1..n |-> [x \in S |-> Kept(x, name[i])]]
<1>1. FoldLeft(Kept, <<>>, name) = folded[DOMAIN name]
  BY DEF FoldLeft, MapThenFoldSet
<1> none \in S
  OBVIOUS
<1>2. Steps(S, n, h) /\ DOMAIN name = 1..n
  BY DEF Steps, Kept
<1>3. ASSUME NEW c, NEW s \in SUBSET (1..n), s # {}, c[s \ {Max(s)}] \in S
      PROVE  At(c, s) = h[Max(s)][c[s \ {Max(s)}]]
  <2>1. Max(s) \in 1..n
    <3>1. Max(s) \in s
      <4>1. n \in Nat
        OBVIOUS
      <4> HIDE DEF n
      <4>2. QED
        BY <1>3, <4>1, MaxOf
    <3>2. QED
      BY <3>1
  <2>2. QED
    BY <1>3, <2>1
<1>4. folded = Body(folded)
  <2>1. PICK c : FoldsOver(c, S, none, n, h)
    <3> HIDE DEF h, n, S, none
    <3>1. QED
      BY <1>2, FoldDefined
  <2>2. ASSUME NEW s \in SUBSET (1..n) PROVE c[s] = Body(c)[s]
    <3>1. CASE s = {}
      BY <1>2, <2>1, <3>1 DEF FoldsOver
    <3>2. CASE s # {}
      <4>1. c[s \ {Max(s)}] \in S
        BY <2>1 DEF FoldsOver
      <4>2. c[s] = h[Max(s)][c[s \ {Max(s)}]]
        BY <2>1, <3>2 DEF FoldsOver
      <4>3. At(c, s) = h[Max(s)][c[s \ {Max(s)}]]
        BY <1>3, <3>2, <4>1
      <4> HIDE DEF At, h
      <4>4. QED
        BY <1>2, <3>2, <4>2, <4>3
    <3>3. QED
      BY <3>1, <3>2
  <2>3. c = Body(c)
    <3>1. c = [s \in SUBSET (1..n) |-> c[s]]
      BY <2>1 DEF FoldsOver
    <3> HIDE DEF At, n
    <3>2. QED
      BY <1>2, <2>2, <3>1
  <2> HIDE DEF Body
  <2>4. QED
    BY <2>3
<1> HIDE DEF folded
<1>5. folded[{}] = none
  BY <1>4
<1>6. ASSUME NEW s \in SUBSET (1..n), s # {}, folded[s \ {Max(s)}] \in S
      PROVE  folded[s] = h[Max(s)][folded[s \ {Max(s)}]]
  <2>1. At(folded, s) = h[Max(s)][folded[s \ {Max(s)}]]
    BY <1>3, <1>6
  <2>2. folded[s] = At(folded, s)
    <3> HIDE DEF At
    <3>1. QED
      BY <1>2, <1>4, <1>6
  <2>3. QED
    BY <2>1, <2>2
<1>7. Follows(folded, S, none, n, h)
  <2> HIDE DEF h, n, S, none
  <2>1. QED
    BY <1>5, <1>6 DEF Follows
<1>8. PICK g : Runs(g, S, none, n, h) /\ g[n] = folded[1..n]
  <2> HIDE DEF h, n, S, none
  <2>1. QED
    BY <1>2, <1>7, FoldPrefixes
<1>9. ASSUME NEW i \in DOMAIN name PROVE g[i] = Kept(g[i - 1], name[i])
  <2>1. i \in 1..n /\ i - 1 \in 0..n
    OBVIOUS
  <2>2. g[i - 1] \in S /\ g[i] = h[i][g[i - 1]]
    <3> HIDE DEF S, h, n
    <3>1. QED
      BY <1>8, <2>1 DEF Runs
  <2>3. QED
    BY <2>1, <2>2
<1>10. QED
  BY <1>1, <1>2, <1>8, <1>9 DEF Runs
-----------------------------------------------------------------------------
(* The hyphens of a name.                                                  *)

\* The x-th word of s has a hyphen after it, inside its t-th token.
HyphenIn(x, g, s, t) == \E i \in 1..Len(s[t]) - 1 : x = Len(g[t - 1]) + i

LEMMA HyphensAre ==
  ASSUME NEW W, NEW s \in Seq(Seq(W)), NEW g, Flattens(g, s)
  PROVE  \A x : x \in Hyphens(s) <=> \E t \in DOMAIN s : HyphenIn(x, g, s, t)
<1> DEFINE start(t) == Len(FlattenSeq(SubSeq(s, 1, t - 1)))
           In(t) == {start(t) + i : i \in 1..Len(s[t]) - 1}
<1>1. Hyphens(s) = UNION {In(t) : t \in DOMAIN s}
  BY DEF Hyphens
<1>2. ASSUME NEW t \in DOMAIN s PROVE start(t) = Len(g[t - 1])
  <2>1. t - 1 \in 0..Len(s)
    OBVIOUS
  <2>2. FlattenSeq(SubSeq(s, 1, t - 1)) = g[t - 1]
    BY <2>1, FlattenStart
  <2>3. QED
    BY <2>2
<1> HIDE DEF start
<1>3. ASSUME NEW x, NEW t \in DOMAIN s PROVE x \in In(t) <=> HyphenIn(x, g, s, t)
  BY <1>2 DEF HyphenIn
<1> HIDE DEF In
<1>4. QED
  BY <1>1, <1>3

\* The words a and b are tokens that stand side by side, and what becomes of them.
Abut(F, i, a, b) == i \in 1..Len(F) - 1 /\ F[i] = <<a>> /\ F[i + 1] = <<b>>

Hyphened(F, i, a, b) == [F EXCEPT ![i] = <<a, b>>, ![i + 1] = <<>>]

\* Joining two tokens keeps the words and adds the hyphen between the two.
LEMMA JoinKeeps ==
  ASSUME NEW W, NEW F \in Seq(Seq(W)), NEW a \in W, NEW b \in W, NEW i, Abut(F, i, a, b),
         NEW J, J = Hyphened(F, i, a, b)
  PROVE  /\ J \in Seq(Seq(W)) /\ Len(J) = Len(F)
         /\ FlattenSeq(J) = FlattenSeq(F)
         /\ Hyphens(F) \subseteq Hyphens(J)
         /\ \A x \in Hyphens(J) \ Hyphens(F) :
              FlattenSeq(F)[x] = a /\ FlattenSeq(F)[x + 1] = b
<1> USE DEF Abut, Hyphened
<1>1. PICK g \in [0..Len(F) -> Seq(W)] : Flattens(g, F)
  BY FlattenPrefixes
<1>2. i \in DOMAIN F /\ i + 1 \in DOMAIN F /\ i \in 0..Len(F) /\ i - 1 \in 0..Len(F)
      /\ i + 1 \in 0..Len(F)
  OBVIOUS
<1>3. g[i - 1] \in Seq(W) /\ g[i] = g[i - 1] \o <<a>> /\ g[i + 1] = g[i] \o <<b>>
  <2>1. (i + 1) - 1 = i
    OBVIOUS
  <2>2. QED
    BY <1>1, <1>2, <2>1 DEF Flattens
<1> DEFINE f == [g EXCEPT ![i] = g[i - 1] \o <<a, b>>]
<1>4. /\ J \in Seq(Seq(W)) /\ Len(J) = Len(F) /\ DOMAIN J = DOMAIN F
      /\ J[i] = <<a, b>> /\ J[i + 1] = <<>>
      /\ \A t \in DOMAIN F : t # i /\ t # i + 1 => J[t] = F[t]
  <2>1. <<a, b>> \in Seq(W) /\ <<>> \in Seq(W)
    OBVIOUS
  <2>2. QED
    BY <1>2, <2>1
<1>5. g[i + 1] = g[i - 1] \o <<a, b>> /\ g[i] \in Seq(W) /\ g[i + 1] \in Seq(W)
  <2>1. \A w \in Seq(W) : (w \o <<a>>) \o <<b>> = w \o <<a, b>>
    <3> SUFFICES ASSUME NEW w \in Seq(W) PROVE (w \o <<a>>) \o <<b>> = w \o <<a, b>>
      OBVIOUS
    <3>1. w \o <<a>> \in Seq(W) /\ Len(w \o <<a>>) = Len(w) + 1
      OBVIOUS
    <3> DEFINE l == (w \o <<a>>) \o <<b>>
               m == w \o <<a, b>>
    <3>2. l \in Seq(W) /\ m \in Seq(W)
      BY <3>1
    <3>3. Len(l) = Len(w) + 2 /\ Len(m) = Len(w) + 2
      BY <3>1
    <3>4. ASSUME NEW p \in 1..Len(w) + 2 PROVE l[p] = m[p]
      BY <3>1
    <3> HIDE DEF l, m
    <3>5. l = m
      BY <3>2, <3>3, <3>4
    <3>6. QED
      BY <3>5 DEF l, m
  <2>2. QED
    BY <1>2, <1>3, <2>1
<1>6. Flattens(f, J)
  <2>1. f[0] = <<>>
    BY <1>1, <1>2 DEF Flattens
  <2>2. ASSUME NEW t \in DOMAIN J PROVE f[t] = f[t - 1] \o J[t]
    <3>0. t \in 0..Len(F) /\ t - 1 \in 0..Len(F)
      BY <1>4
    <3>1. CASE t = i
      <4>1. f[i] = g[i - 1] \o <<a, b>> /\ f[i - 1] = g[i - 1]
        <5>1. i - 1 # i
          OBVIOUS
        <5>2. QED
          BY <1>2, <5>1
      <4> HIDE DEF f
      <4>2. QED
        BY <1>4, <3>1, <4>1
    <3>2. CASE t = i + 1
      <4>0. t - 1 = i /\ i + 1 # i
        BY <3>2
      <4>1. f[t] = g[i + 1] /\ f[t - 1] = g[i - 1] \o <<a, b>>
        <5>1. f[i] = g[i - 1] \o <<a, b>> /\ f[i + 1] = g[i + 1]
          BY <1>2, <4>0
        <5> HIDE DEF f
        <5>2. QED
          BY <3>2, <4>0, <5>1
      <4>2. g[i + 1] \o <<>> = g[i + 1]
        BY <1>5
      <4>3. J[t] = <<>>
        BY <1>4, <3>2
      <4> HIDE DEF f
      <4>4. QED
        BY <1>5, <4>1, <4>2, <4>3
    <3>3. CASE t # i /\ t # i + 1
      <4>1. f[t] = g[t] /\ f[t - 1] = g[t - 1]
        BY <3>0, <3>3
      <4>2. g[t] = g[t - 1] \o F[t]
        BY <1>1, <1>4 DEF Flattens
      <4>3. QED
        BY <1>4, <3>3, <4>1, <4>2
    <3>4. QED
      BY <3>1, <3>2, <3>3
  <2> HIDE DEF f
  <2>3. QED
    BY <2>1, <2>2 DEF Flattens
<1>7. FlattenSeq(F) = g[Len(F)] /\ FlattenSeq(J) = f[Len(F)]
  <2> HIDE DEF f
  <2>1. FlattenSeq(F) = g[Len(F)]
    BY <1>1, FlattenIs
  <2>2. FlattenSeq(J) = f[Len(J)]
    BY <1>4, <1>6, FlattenIs
  <2>3. QED
    BY <1>4, <2>1, <2>2
<1>8. f[Len(F)] = g[Len(F)]
  <2>1. Len(F) \in 0..Len(F) /\ Len(F) # i
    OBVIOUS
  <2>2. QED
    BY <2>1
<1>9. ASSUME NEW x, NEW t \in DOMAIN F, HyphenIn(x, g, F, t) PROVE HyphenIn(x, f, J, t)
  <2>1. t # i /\ t # i + 1
    <3>1. Len(F[i]) = 1 /\ Len(F[i + 1]) = 1
      OBVIOUS
    <3>2. PICK p \in 1..Len(F[t]) - 1 : TRUE
      BY <1>9 DEF HyphenIn
    <3>3. Len(F[t]) # 1
      <4> SUFFICES ASSUME Len(F[t]) = 1 PROVE FALSE
        OBVIOUS
      <4>1. Len(F[t]) - 1 = 0
        OBVIOUS
      <4>2. QED
        BY <3>2, <4>1
    <3>4. QED
      BY <3>1, <3>3
  <2>2. J[t] = F[t] /\ f[t - 1] = g[t - 1]
    <3>1. t - 1 \in 0..Len(F) /\ t - 1 # i
      BY t \in 1..Len(F), <2>1
    <3>2. QED
      BY <1>4, <2>1, <3>1
  <2>3. QED
    BY <1>9, <2>2 DEF HyphenIn
<1>10. ASSUME NEW x, NEW t \in DOMAIN F, HyphenIn(x, f, J, t)
       PROVE  HyphenIn(x, g, F, t) \/ x = Len(g[i - 1]) + 1
  <2>1. CASE t = i
    <3>1. f[t - 1] = g[i - 1] /\ Len(J[t]) = 2
      BY <1>2, <1>4, <2>1
    <3> HIDE DEF f
    <3>2. PICK p \in 1..Len(J[t]) - 1 : x = Len(f[t - 1]) + p
      BY <1>10 DEF HyphenIn
    <3>3. \A q \in 1..2 - 1 : q = 1
      OBVIOUS
    <3>4. p = 1
      BY <3>1, <3>2, <3>3
    <3>5. QED
      BY <3>1, <3>2, <3>4
  <2>2. CASE t = i + 1
    <3>1. Len(J[t]) = 0
      BY <1>4, <2>2
    <3> HIDE DEF f
    <3>2. QED
      BY <1>10, <3>1 DEF HyphenIn
  <2>3. CASE t # i /\ t # i + 1
    <3>1. t - 1 \in 0..Len(F) /\ t - 1 # i
      BY t \in 1..Len(F), <2>3
    <3>2. J[t] = F[t] /\ f[t - 1] = g[t - 1]
      BY <1>4, <2>3, <3>1
    <3> HIDE DEF f
    <3>3. QED
      BY <1>10, <3>2 DEF HyphenIn
  <2>4. QED
    BY <2>1, <2>2, <2>3
<1>11. LET x == Len(g[i - 1]) + 1 IN g[Len(F)][x] = a /\ g[Len(F)][x + 1] = b
  <2> DEFINE w == g[i - 1]
             z == g[i + 1]
  <2>1. /\ Len(w) + 1 \in 1..Len(z) /\ Len(w) + 2 \in 1..Len(z)
        /\ z[Len(w) + 1] = a /\ z[Len(w) + 2] = b
    <3>1. w \in Seq(W) /\ z = w \o <<a, b>>
      BY <1>3, <1>5
    <3> HIDE DEF w, z
    <3>2. QED
      BY <3>1
  <2>2. \A p \in 1..Len(z) : g[Len(F)][p] = z[p]
    <3> DEFINE u == i + 1
    <3>1. u \in 0..Len(F)
      BY <1>2
    <3> HIDE DEF u
    <3>2. \A p \in 1..Len(g[u]) : g[Len(F)][p] = g[u][p]
      BY <1>1, <3>1, FlattenKeeps
    <3>3. QED
      BY <3>2 DEF u
  <2>3. Len(w) \in Nat /\ (Len(w) + 1) + 1 = Len(w) + 2
    BY <1>3
  <2> HIDE DEF w, z
  <2>4. g[Len(F)][Len(w) + 1] = a /\ g[Len(F)][(Len(w) + 1) + 1] = b
    BY <2>1, <2>2, <2>3
  <2>5. QED
    BY <2>4 DEF w
<1>12. \A x : x \in Hyphens(F) <=> \E t \in DOMAIN F : HyphenIn(x, g, F, t)
  BY <1>1, HyphensAre
<1>13. \A x : x \in Hyphens(J) <=> \E t \in DOMAIN F : HyphenIn(x, f, J, t)
  <2> HIDE DEF f
  <2>1. \A x : x \in Hyphens(J) <=> \E t \in DOMAIN J : HyphenIn(x, f, J, t)
    BY <1>4, <1>6, HyphensAre
  <2>2. QED
    BY <1>4, <2>1
<1> HIDE DEF f
<1>14. Hyphens(F) \subseteq Hyphens(J)
  BY <1>9, <1>12, <1>13
<1>15. \A x \in Hyphens(J) \ Hyphens(F) : x = Len(g[i - 1]) + 1
  BY <1>10, <1>12, <1>13
<1>16. QED
  BY <1>4, <1>7, <1>8, <1>11, <1>14, <1>15
-----------------------------------------------------------------------------
(* What RestoreNamePunctuation keeps.                                      *)

\* Two words that are printed with a hyphen between them.
Printed(lines) ==
  {p \in Words \X Words :
     \E l \in DOMAIN lines : \E t \in DOMAIN lines[l].rest.clean :
       LET token == lines[l].rest.clean[t]
       IN \E j \in 1..Len(token) - 1 : <<token[j], token[j + 1]>> = p}

\* The same words with hyphens added that are printed.
Punctuated(name, read, P) ==
  /\ FlattenSeq(name) = FlattenSeq(read)
  /\ Hyphens(read) \subseteq Hyphens(name)
  /\ \A x \in Hyphens(name) \ Hyphens(read) :
       <<FlattenSeq(read)[x], FlattenSeq(read)[x + 1]>> \in P

Versions(read, P) ==
  {name \in Seq(Seq(Words)) : Len(name) = Len(read) /\ Punctuated(name, read, P)}

\* HyphenatedPairs gives pairs that are printed with a hyphen.
LEMMA PairsPrinted ==
  ASSUME NEW lines \in Seq(LineRow)
  PROVE  HyphenatedPairs(lines) \in Seq(Printed(lines))
<1> DEFINE P == Printed(lines)
           Pairs(token) ==
             [i \in 1..Len(token) \div 2 |-> <<token[2 * i - 1], token[2 * i]>>]
           PairsIn(line) ==
             FlattenSeq([t \in DOMAIN line.rest.clean |-> Pairs(line.rest.clean[t])])
<1>1. ASSUME NEW l \in DOMAIN lines PROVE PairsIn(lines[l]) \in Seq(P)
  <2> DEFINE clean == lines[l].rest.clean
             each == [t \in DOMAIN clean |-> Pairs(clean[t])]
  <2>1. clean \in Seq(Token)
    <3>1. lines[l] \in LineRow
      BY ElementOfSeq
    <3>2. QED
      BY <3>1 DEF LineRow, Reading
  <2>2. ASSUME NEW t \in DOMAIN clean PROVE Pairs(clean[t]) \in Seq(P)
    <3> DEFINE token == clean[t]
               n == Len(token) \div 2
    <3>1. token \in Seq(Words) /\ Len(token) \in Nat
      BY <2>1 DEF Token
    <3>2. n \in Nat /\ 2 * n <= Len(token)
      <4>1. \A m \in Nat : m \div 2 \in Nat /\ 2 * (m \div 2) <= m
        OBVIOUS
      <4> HIDE DEF token
      <4>2. QED
        BY <3>1, <4>1
    <3> HIDE DEF n
    <3>3. ASSUME NEW i \in 1..n PROVE <<token[2 * i - 1], token[2 * i]>> \in P
      <4> DEFINE j == 2 * i - 1
      <4>1. j \in 1..Len(token) - 1 /\ j + 1 = 2 * i /\ j \in 1..Len(token)
            /\ j + 1 \in 1..Len(token)
        BY <3>1, <3>2
      <4> HIDE DEF j
      <4>2. token[j] \in Words /\ token[j + 1] \in Words
        BY <3>1, <4>1
      <4>3. <<token[j], token[j + 1]>> \in P
        BY <4>1, <4>2 DEF Printed
      <4>4. QED
        BY <4>1, <4>3 DEF j
    <3> DEFINE seq == [i \in 1..n |-> <<token[2 * i - 1], token[2 * i]>>]
    <3>4. Pairs(clean[t]) = seq
      BY DEF n
    <3> HIDE DEF P, token, Pairs
    <3>5. seq \in Seq(P)
      BY <3>2, <3>3
    <3>6. QED
      BY <3>4, <3>5
  <2>3. each \in Seq(Seq(P))
    <3> HIDE DEF P, Pairs, clean
    <3>1. DOMAIN clean = 1..Len(clean) /\ Len(clean) \in Nat
      BY <2>1
    <3>2. QED
      BY <2>2, <3>1
  <2> HIDE DEF each, P
  <2>4. FlattenSeq(each) \in Seq(P)
    BY <2>3, FlattenType
  <2>5. QED
    BY <2>4 DEF each
<1> DEFINE all == [i \in DOMAIN lines |-> PairsIn(lines[i])]
<1>2. all \in Seq(Seq(P))
  <2> HIDE DEF P, PairsIn
  <2>1. DOMAIN lines = 1..Len(lines) /\ Len(lines) \in Nat
    OBVIOUS
  <2>2. QED
    BY <1>1, <2>1
<1>3. HyphenatedPairs(lines) = FlattenSeq(all)
  BY DEF HyphenatedPairs
<1> HIDE DEF all, P
<1>4. FlattenSeq(all) \in Seq(P)
  BY <1>2, FlattenType
<1>5. QED
  BY <1>3, <1>4 DEF P

\* Joining a printed pair leaves a version of the name that was read.
LEMMA JoinVersion ==
  ASSUME NEW read, NEW P \in SUBSET (Words \X Words), Len(read) \in Nat \ {0},
         NEW name \in Versions(read, P), NEW pair \in P
  PROVE  Join(name, pair) \in Versions(read, P)
<1> DEFINE V == Versions(read, P)
<1>1. PICK a \in Words, b \in Words : pair = <<a, b>>
  OBVIOUS
<1>2. ASSUME NEW F \in V, NEW i \in 1..Len(read) - 1 PROVE JoinedAt(F, i, pair) \in V
  <2>1. F \in Seq(Seq(Words)) /\ Len(F) = Len(read) /\ Punctuated(F, read, P)
    BY DEF Versions
  <2>2. CASE ~(F[i] = <<a>> /\ F[i + 1] = <<b>>)
    BY <1>1, <2>2 DEF JoinedAt
  <2>3. CASE F[i] = <<a>> /\ F[i + 1] = <<b>>
    <3> DEFINE J == Hyphened(F, i, a, b)
    <3>1. JoinedAt(F, i, pair) = J
      BY <1>1, <2>3 DEF JoinedAt, Hyphened
    <3>2. Abut(F, i, a, b)
      BY <2>1, <2>3 DEF Abut
    <3>3. J = Hyphened(F, i, a, b)
      OBVIOUS
    <3> HIDE DEF J
    <3>4. /\ J \in Seq(Seq(Words)) /\ Len(J) = Len(F)
          /\ FlattenSeq(J) = FlattenSeq(F)
          /\ Hyphens(F) \subseteq Hyphens(J)
          /\ \A x \in Hyphens(J) \ Hyphens(F) :
               FlattenSeq(F)[x] = a /\ FlattenSeq(F)[x + 1] = b
      BY <2>1, <3>2, <3>3, JoinKeeps
    <3>5. ASSUME NEW x \in Hyphens(J) \ Hyphens(read)
          PROVE  <<FlattenSeq(read)[x], FlattenSeq(read)[x + 1]>> \in P
      <4>1. CASE x \in Hyphens(F)
        BY <2>1, <4>1 DEF Punctuated
      <4>2. CASE x \notin Hyphens(F)
        <5>1. FlattenSeq(read)[x] = a /\ FlattenSeq(read)[x + 1] = b
          BY <2>1, <3>4, <4>2 DEF Punctuated
        <5>2. QED
          BY <1>1, <5>1
      <4>3. QED
        BY <4>1, <4>2
    <3>6. Punctuated(J, read, P)
      BY <2>1, <3>4, <3>5 DEF Punctuated
    <3>7. QED
      BY <2>1, <3>1, <3>4, <3>6 DEF Versions
  <2>4. QED
    BY <2>2, <2>3
<1>3. Len(name) = Len(read) /\ name \in V
  BY DEF Versions
<1> HIDE DEF V
<1>4. Join(name, pair) \in V
  BY <1>2, <1>3, JoinStays
<1>5. QED
  BY <1>4 DEF V

LEMMA HyphensAppend ==
  ASSUME NEW W, NEW s \in Seq(Seq(W)), NEW e \in Seq(W)
  PROVE  \A x : x \in Hyphens(Append(s, e)) <=>
           \/ x \in Hyphens(s)
           \/ \E i \in 1..Len(e) - 1 : x = Len(FlattenSeq(s)) + i
<1> DEFINE longer == Append(s, e)
<1>1. /\ longer \in Seq(Seq(W)) /\ Len(longer) = Len(s) + 1 /\ longer[Len(s) + 1] = e
      /\ DOMAIN longer = DOMAIN s \cup {Len(s) + 1}
      /\ \A i \in DOMAIN s : longer[i] = s[i]
  OBVIOUS
<1> HIDE DEF longer
<1>2. PICK g \in [0..Len(longer) -> Seq(W)] : Flattens(g, longer)
  BY <1>1, FlattenPrefixes
<1>3. Flattens(g, s)
  BY <1>1, <1>2 DEF Flattens
<1>4. FlattenSeq(s) = g[(Len(s) + 1) - 1]
  <2>1. FlattenSeq(s) = g[Len(s)]
    BY <1>3, FlattenIs
  <2>2. (Len(s) + 1) - 1 = Len(s)
    OBVIOUS
  <2>3. QED
    BY <2>1, <2>2
<1>5. \A x : x \in Hyphens(s) <=> \E t \in DOMAIN s : HyphenIn(x, g, s, t)
  BY <1>3, HyphensAre
<1>6. \A x : x \in Hyphens(longer) <=> \E t \in DOMAIN longer : HyphenIn(x, g, longer, t)
  BY <1>1, <1>2, HyphensAre
<1>7. \A x : \A t \in DOMAIN s : HyphenIn(x, g, longer, t) <=> HyphenIn(x, g, s, t)
  BY <1>1 DEF HyphenIn
<1>8. \A x : HyphenIn(x, g, longer, Len(s) + 1) <=>
               \E i \in 1..Len(e) - 1 : x = Len(FlattenSeq(s)) + i
  BY <1>1, <1>4 DEF HyphenIn
<1>9. QED
  BY <1>1, <1>5, <1>6, <1>7, <1>8 DEF longer

\* Leaving out empty tokens changes neither words nor hyphens.
LEMMA KeptKeeps ==
  ASSUME NEW W, NEW name \in Seq(Seq(W)), NEW kept, kept = FoldLeft(Kept, <<>>, name)
  PROVE  /\ kept \in Seq(Seq(W))
         /\ FlattenSeq(kept) = FlattenSeq(name) /\ Hyphens(kept) = Hyphens(name)
<1>1. PICK k \in [0..Len(name) -> Seq(Seq(W))] :
         /\ k[0] = <<>>
         /\ \A i \in DOMAIN name : k[i] = Kept(k[i - 1], name[i])
         /\ kept = k[Len(name)]
  BY KeptRuns
<1>2. PICK g \in [0..Len(name) -> Seq(W)] : Flattens(g, name)
  BY FlattenPrefixes
<1> DEFINE Agree(t) ==
             /\ FlattenSeq(k[t]) = g[t]
             /\ \A x : x \in Hyphens(k[t]) <=> \E u \in 1..t : HyphenIn(x, g, name, u)
           T == {t \in Nat : t <= Len(name) => Agree(t)}
<1>3. 0 \in T
  <2>1. FlattenSeq(<<>>) = <<>>
    BY DEF FlattenSeq
  <2>2. Hyphens(<<>>) = {}
    BY DEF Hyphens
  <2>3. 1..0 = {} /\ g[0] = <<>>
    BY <1>2 DEF Flattens
  <2>4. Agree(0)
    BY <1>1, <2>1, <2>2, <2>3
  <2> HIDE DEF Agree
  <2>5. QED
    BY <2>4
<1>4. ASSUME NEW t \in Nat, t \in T PROVE t + 1 \in T
  <2> SUFFICES ASSUME t + 1 <= Len(name) PROVE Agree(t + 1)
    <3> HIDE DEF Agree
    <3>1. QED
      OBVIOUS
  <2>1. Agree(t)
    <3> HIDE DEF Agree
    <3>1. t <= Len(name)
      OBVIOUS
    <3>2. QED
      BY <1>4, <3>1
  <2>2. t + 1 \in DOMAIN name /\ (t + 1) - 1 = t /\ t \in 0..Len(name)
    OBVIOUS
  <2> DEFINE e == name[t + 1]
             s == k[t]
  <2>3. e \in Seq(W) /\ s \in Seq(Seq(W))
    <3>1. s \in Seq(Seq(W))
      BY <2>2
    <3>2. e \in Seq(W)
      BY <2>2, ElementOfSeq
    <3>3. QED
      BY <3>1, <3>2
  <2>4. k[t + 1] = Kept(s, e) /\ g[t + 1] = g[t] \o e /\ g[t] \in Seq(W)
    BY <1>1, <1>2, <2>2 DEF Flattens
  <2>5. \A x : HyphenIn(x, g, name, t + 1) <=> \E i \in 1..Len(e) - 1 : x = Len(g[t]) + i
    BY <2>2 DEF HyphenIn
  <2>6. \A x : (\E u \in 1..t + 1 : HyphenIn(x, g, name, u)) <=>
               (\E u \in 1..t : HyphenIn(x, g, name, u)) \/ HyphenIn(x, g, name, t + 1)
    <3>1. 1..t + 1 = 1..t \cup {t + 1}
      OBVIOUS
    <3>2. QED
      BY <3>1
  <2>7. CASE e = <<>>
    <3>1. k[t + 1] = s /\ g[t + 1] = g[t] /\ Len(e) = 0
      <4>1. g[t] \o <<>> = g[t]
        BY <2>4
      <4> HIDE DEF e, s
      <4>2. QED
        BY <2>4, <2>7, <4>1 DEF Kept
    <3>2. \A x : ~HyphenIn(x, g, name, t + 1)
      <4> HIDE DEF e
      <4>1. QED
        BY <2>5, <3>1
    <3> HIDE DEF e
    <3>3. QED
      BY <2>1, <2>6, <3>1, <3>2
  <2>8. CASE e # <<>>
    <3>1. k[t + 1] = Append(s, e)
      BY <2>4, <2>8 DEF Kept
    <3> HIDE DEF e, s
    <3>2. FlattenSeq(k[t + 1]) = FlattenSeq(s) \o e
      BY <2>3, <3>1, FlattenAppend
    <3>3. \A x : x \in Hyphens(k[t + 1]) <=>
             x \in Hyphens(s) \/ \E i \in 1..Len(e) - 1 : x = Len(FlattenSeq(s)) + i
      BY <2>3, <3>1, HyphensAppend
    <3>4. FlattenSeq(s) = g[t]
      BY <2>1 DEF s
    <3>5. \A x : x \in Hyphens(s) <=> \E u \in 1..t : HyphenIn(x, g, name, u)
      BY <2>1 DEF s
    <3>6. \A x : x \in Hyphens(k[t + 1]) <=> \E u \in 1..t + 1 : HyphenIn(x, g, name, u)
      BY <2>5, <2>6, <3>3, <3>4, <3>5
    <3>7. FlattenSeq(k[t + 1]) = g[t + 1]
      BY <2>4, <3>2, <3>4
    <3>8. QED
      BY <3>6, <3>7
  <2>9. QED
    BY <2>7, <2>8
<1>5. Agree(Len(name))
  <2>1. Nat \subseteq T
    <3> HIDE DEF T
    <3>1. QED
      BY <1>3, <1>4, Induction
  <2>2. Len(name) \in Nat
    OBVIOUS
  <2> HIDE DEF Agree
  <2>3. QED
    BY <2>1, <2>2
<1>6. FlattenSeq(name) = g[Len(name)]
  BY <1>2, FlattenIs
<1>7. \A x : x \in Hyphens(name) <=> \E u \in 1..Len(name) : HyphenIn(x, g, name, u)
  <2>1. DOMAIN name = 1..Len(name)
    OBVIOUS
  <2>2. QED
    BY <1>2, <2>1, HyphensAre
<1>8. \A x : x \in Hyphens(kept) <=> x \in Hyphens(name)
  BY <1>1, <1>5, <1>7
<1>9. Hyphens(kept) = Hyphens(name)
  BY <1>8
<1>10. Len(name) \in 0..Len(name)
  OBVIOUS
<1>11. QED
  BY <1>1, <1>5, <1>6, <1>9, <1>10

\* Restoring the punctuation adds printed hyphens and nothing else.
LEMMA NameRestored ==
  ASSUME NEW read \in Seq(Token), read # <<>>, NEW lines \in Seq(LineRow),
         NEW name, name = RestoreNamePunctuation(read, lines)
  PROVE  name # <<>> /\ Punctuated(name, read, Printed(lines))
<1> DEFINE P == Printed(lines)
           V == Versions(read, P)
           pairs == HyphenatedPairs(lines)
           joined == FoldLeft(Join, read, pairs)
<1>1. read \in Seq(Seq(Words)) /\ Len(read) \in Nat \ {0} /\ read[1] \in Seq(Words) \ {<<>>}
  BY DEF Token
<1>2. read \in V
  BY <1>1 DEF Versions, Punctuated
<1>3. P \in SUBSET (Words \X Words) /\ pairs \in Seq(P)
  BY PairsPrinted DEF Printed
<1> HIDE DEF P, pairs
<1>4. \A version \in V : \A pair \in P : Join(version, pair) \in V
  BY <1>1, <1>3, JoinVersion
<1> HIDE DEF V
<1>5. joined \in V
  BY <1>2, <1>3, <1>4, JoinsStay
<1>6. name = FoldLeft(Kept, <<>>, joined)
  BY DEF RestoreNamePunctuation, pairs
<1> HIDE DEF joined
<1>7. joined \in Seq(Seq(Words)) /\ Punctuated(joined, read, P)
  BY <1>5 DEF V, Versions
<1>8. /\ FlattenSeq(name) = FlattenSeq(joined)
      /\ Hyphens(name) = Hyphens(joined)
  BY <1>6, <1>7, KeptKeeps
<1>9. Punctuated(name, read, P)
  BY <1>7, <1>8 DEF Punctuated
<1>10. FlattenSeq(read) # <<>>
  <2>1. PICK g \in [0..Len(read) -> Seq(Words)] : Flattens(g, read)
    BY <1>1, FlattenPrefixes
  <2>2. FlattenSeq(read) = g[Len(read)]
    BY <1>1, <2>1, FlattenIs
  <2>3. g[1] = <<>> \o read[1]
    <3>1. 1 \in DOMAIN read /\ 1 - 1 = 0
      BY <1>1
    <3>2. QED
      BY <2>1, <3>1 DEF Flattens
  <2>4. Len(g[1]) # 0 /\ Len(g[1]) \in Nat
    BY <1>1, <2>3
  <2>5. Len(g[1]) <= Len(g[Len(read)])
    <3>1. 1 \in 0..Len(read)
      BY <1>1
    <3>2. QED
      BY <1>1, <2>1, <3>1, FlattenKeeps
  <2>6. QED
    BY <2>2, <2>4, <2>5
<1>11. name # <<>>
  <2>1. FlattenSeq(<<>>) = <<>>
    BY DEF FlattenSeq
  <2>2. FlattenSeq(name) = FlattenSeq(read)
    BY <1>9 DEF Punctuated
  <2>3. QED
    BY <1>10, <2>1, <2>2
<1>12. QED
  BY <1>9, <1>11 DEF P
-----------------------------------------------------------------------------
(* What is read of a document.                                             *)

\* Fields that all have the confidence c.
Sure(f, c) ==
  /\ DOMAIN f \subseteq Keys
  /\ \A k \in DOMAIN f :
       /\ f[k].value # <<>> /\ f[k].confidence = c
       /\ f[k] = [value |-> f[k].value, confidence |-> f[k].confidence]

LEMMA MinOf ==
  ASSUME NEW T, T \subseteq Nat, T # {}
  PROVE  Min(T) \in T
BY LeastNatural DEF Min

\* SetFields sets what is not missing.
LEMMA FieldsSet ==
  ASSUME NEW value, DOMAIN value \subseteq Keys, NEW c
  PROVE  /\ Sure(SetFields(value, c), c)
         /\ \A k \in DOMAIN value :
              /\ k \in DOMAIN SetFields(value, c) <=> value[k] # <<>>
              /\ k \in DOMAIN SetFields(value, c) => SetFields(value, c)[k].value = value[k]
BY DEF Sure, SetFields

LEMMA ParsedFields ==
  ASSUME NEW lines
  PROVE  /\ Sure(ParseFields(lines), 75)
         /\ "full_name" \in DOMAIN ParseFields(lines) =>
              ParseFields(lines)["full_name"].value =
                UpperValue(lines, "given") \o UpperValue(lines, "surname")
<1> DEFINE value == [full_name      |-> UpperValue(lines, "given") \o UpperValue(lines, "surname"),
                     id_number      |-> CleanValue(lines, "id").clean,
                     date_of_birth  |-> CleanValue(lines, "birth").year,
                     expiry_date    |-> CleanValue(lines, "expiry").year,
                     place_of_birth |-> UpperValue(lines, "place"),
                     occupation     |-> UpperValue(lines, "occupation"),
                     sex            |-> ParseSex(CleanValue(lines, "sex").clean)]
<1>1. ParseFields(lines) = SetFields(value, 75)
  BY DEF ParseFields
<1>2. /\ DOMAIN value \subseteq Keys /\ "full_name" \in DOMAIN value
      /\ value["full_name"] = UpperValue(lines, "given") \o UpperValue(lines, "surname")
  BY DEF Keys
<1> HIDE DEF value
<1>3. QED
  BY <1>1, <1>2, FieldsSet

LEMMA ZoneFields ==
  ASSUME NEW zone
  PROVE  /\ Sure(ReadMrzFields(zone), 98)
         /\ "full_name" \in DOMAIN ReadMrzFields(zone) =>
              ReadMrzFields(zone)["full_name"].value = zone.names \o zone.surname
         /\ "date_of_birth" \in DOMAIN ReadMrzFields(zone) =>
              /\ zone.birthValid /\ zone.birth # <<>>
              /\ ReadMrzFields(zone)["date_of_birth"].value = MrzDate(zone.birth, FALSE)
<1> DEFINE date == IF zone.birthValid THEN MrzDate(zone.birth, FALSE) ELSE <<>>
           value == [full_name     |-> zone.names \o zone.surname,
                     id_number     |->
                       IF zone.optional # <<>> THEN zone.optional ELSE zone.number,
                     date_of_birth |-> date,
                     expiry_date   |->
                       IF zone.expiryValid THEN MrzDate(zone.expiry, TRUE) ELSE <<>>,
                     sex           |-> ParseSex(zone.sex)]
<1>1. CASE zone.score < 50
  <2>1. ReadMrzFields(zone) = <<>> /\ DOMAIN <<>> = {}
    BY <1>1 DEF ReadMrzFields
  <2>2. QED
    BY <2>1 DEF Sure
<1>2. CASE ~(zone.score < 50)
  <2>1. ReadMrzFields(zone) = SetFields(value, 98)
    BY <1>2 DEF ReadMrzFields
  <2>2. /\ DOMAIN value \subseteq Keys /\ "full_name" \in DOMAIN value
        /\ "date_of_birth" \in DOMAIN value
        /\ value["full_name"] = zone.names \o zone.surname /\ value["date_of_birth"] = date
    BY DEF Keys
  <2>3. date # <<>> => zone.birthValid /\ zone.birth # <<>> /\ date = MrzDate(zone.birth, FALSE)
    BY DEF MrzDate
  <2> HIDE DEF value, date
  <2>4. /\ Sure(SetFields(value, 98), 98)
        /\ \A k \in DOMAIN value :
             /\ k \in DOMAIN SetFields(value, 98) <=> value[k] # <<>>
             /\ k \in DOMAIN SetFields(value, 98) => SetFields(value, 98)[k].value = value[k]
    BY <2>2, FieldsSet
  <2>5. QED
    BY <2>1, <2>2, <2>3, <2>4
<1>3. QED
  BY <1>1, <1>2

\* Between two equally sure readings the first stands.
LEMMA FirstWins ==
  ASSUME NEW base, NEW other, Sure(base, 75), Sure(other, 75)
  PROVE  /\ Sure(Prefer(base, other), 75)
         /\ DOMAIN Prefer(base, other) = DOMAIN base \cup DOMAIN other
         /\ \A k \in DOMAIN base : Prefer(base, other)[k] = base[k]
         /\ \A k \in DOMAIN other \ DOMAIN base : Prefer(base, other)[k] = other[k]
BY DEF Sure, Prefer

\* A surer one stands before both.
LEMMA SurerWins ==
  ASSUME NEW base, NEW other, Sure(base, 75), Sure(other, 98)
  PROVE  /\ DOMAIN Prefer(base, other) = DOMAIN base \cup DOMAIN other
         /\ \A k \in DOMAIN base \cup DOMAIN other :
              Prefer(base, other)[k] = IF k \in DOMAIN other THEN other[k] ELSE base[k]
BY DEF Sure, Prefer

\* What is printed on a document, and all that is read of it.
Printings(p) ==
  IF p.type = "NIC" THEN Prefer(ParseFields(p.front), ParseFields(p.back))
  ELSE ParseFields(p.front)

AllRead(p) == Prefer(Printings(p), ReadMrzFields(p.mrz))

\* What is read before the name is restored is the best reading of each field.
LEMMA ReadIsBest ==
  ASSUME NEW k \in Keys
  PROVE  /\ k \in DOMAIN AllRead(paper) <=> BestValue(k) # <<>>
         /\ k \in DOMAIN AllRead(paper) => AllRead(paper)[k].value = BestValue(k)
<1> DEFINE zone == ReadMrzFields(paper.mrz)
           front == ParseFields(paper.front)
           back == ParseFields(paper.back)
<1>1. Sure(front, 75) /\ Sure(back, 75) /\ Sure(zone, 98)
  BY ParsedFields, ZoneFields
<1>2. BestValue(k) =
        CASE k \in DOMAIN zone -> zone[k].value
          [] k \notin DOMAIN zone /\ k \in DOMAIN front -> front[k].value
          [] k \notin DOMAIN zone \cup DOMAIN front
             /\ k \in DOMAIN back /\ paper.type = "NIC" -> back[k].value
          [] OTHER -> <<>>
  BY DEF BestValue
<1> DEFINE printed == Printings(paper)
<1>3. /\ Sure(printed, 75)
      /\ DOMAIN printed = DOMAIN front \cup (IF paper.type = "NIC" THEN DOMAIN back ELSE {})
      /\ \A j \in DOMAIN printed : printed[j] = IF j \in DOMAIN front THEN front[j] ELSE back[j]
  <2> HIDE DEF front, back
  <2>1. printed = IF paper.type = "NIC" THEN Prefer(front, back) ELSE front
    BY DEF Printings, front, back
  <2>2. /\ Sure(Prefer(front, back), 75)
        /\ DOMAIN Prefer(front, back) = DOMAIN front \cup DOMAIN back
        /\ \A j \in DOMAIN front : Prefer(front, back)[j] = front[j]
        /\ \A j \in DOMAIN back \ DOMAIN front : Prefer(front, back)[j] = back[j]
    BY <1>1, FirstWins
  <2> HIDE DEF printed
  <2>3. CASE paper.type = "NIC"
    <3>1. printed = Prefer(front, back)
      BY <2>1, <2>3
    <3>2. QED
      BY <2>2, <2>3, <3>1
  <2>4. CASE paper.type # "NIC"
    BY <1>1, <2>1, <2>4
  <2>5. QED
    BY <2>3, <2>4
<1> HIDE DEF front, back, zone, printed
<1>4. AllRead(paper) = Prefer(printed, zone)
  BY DEF AllRead, printed, zone
<1>5. /\ DOMAIN AllRead(paper) = DOMAIN printed \cup DOMAIN zone
      /\ \A j \in DOMAIN AllRead(paper) :
           AllRead(paper)[j] = IF j \in DOMAIN zone THEN zone[j] ELSE printed[j]
  <2>1. /\ DOMAIN Prefer(printed, zone) = DOMAIN printed \cup DOMAIN zone
        /\ \A j \in DOMAIN printed \cup DOMAIN zone :
             Prefer(printed, zone)[j] = IF j \in DOMAIN zone THEN zone[j] ELSE printed[j]
    BY <1>1, <1>3, SurerWins
  <2>2. QED
    BY <1>4, <2>1
<1>6. /\ k \in DOMAIN zone => zone[k].value # <<>>
      /\ k \in DOMAIN front => front[k].value # <<>>
      /\ k \in DOMAIN back => back[k].value # <<>>
  BY <1>1 DEF Sure
<1>7. CASE k \in DOMAIN zone
  BY <1>2, <1>5, <1>6, <1>7
<1>8. CASE k \notin DOMAIN zone /\ k \in DOMAIN front
  BY <1>2, <1>3, <1>5, <1>6, <1>8
<1>9. CASE k \notin DOMAIN zone \cup DOMAIN front /\ k \in DOMAIN back /\ paper.type = "NIC"
  BY <1>2, <1>3, <1>5, <1>6, <1>9
<1>10. CASE k \notin DOMAIN zone \cup DOMAIN front /\ ~(k \in DOMAIN back /\ paper.type = "NIC")
  BY <1>2, <1>3, <1>5, <1>10
<1>11. QED
  BY <1>7, <1>8, <1>9, <1>10

LEMMA ReadIsSure ==
  /\ DOMAIN AllRead(paper) \subseteq Keys
  /\ \A k \in DOMAIN AllRead(paper) :
       LET read == AllRead(paper)[k]
       IN read = [value |-> read.value, confidence |-> read.confidence]
          /\ read.confidence \in {75, 98}
<1> DEFINE zone == ReadMrzFields(paper.mrz)
           front == ParseFields(paper.front)
           back == ParseFields(paper.back)
           printed == Printings(paper)
<1>1. Sure(front, 75) /\ Sure(back, 75) /\ Sure(zone, 98)
  BY ParsedFields, ZoneFields
<1>2. Sure(printed, 75)
  <2> HIDE DEF front, back
  <2>1. printed = IF paper.type = "NIC" THEN Prefer(front, back) ELSE front
    BY DEF Printings, front, back
  <2> HIDE DEF printed
  <2>2. QED
    BY <1>1, <2>1, FirstWins
<1>3. AllRead(paper) = Prefer(printed, zone)
  BY DEF AllRead
<1> HIDE DEF front, back, zone, printed
<1>4. /\ DOMAIN AllRead(paper) = DOMAIN printed \cup DOMAIN zone
      /\ \A j \in DOMAIN AllRead(paper) :
           AllRead(paper)[j] = IF j \in DOMAIN zone THEN zone[j] ELSE printed[j]
  <2>1. /\ DOMAIN Prefer(printed, zone) = DOMAIN printed \cup DOMAIN zone
        /\ \A j \in DOMAIN printed \cup DOMAIN zone :
             Prefer(printed, zone)[j] = IF j \in DOMAIN zone THEN zone[j] ELSE printed[j]
    BY <1>1, <1>2, SurerWins
  <2>2. QED
    BY <1>3, <2>1
<1>5. QED
  BY <1>1, <1>2, <1>4 DEF Sure

LEMMA UpperType ==
  ASSUME NEW lines \in Seq(LineRow), NEW label
  PROVE  UpperValue(lines, label) \in Seq(Token)
<1> DEFINE HasUpper(item) == item.upper # <<>>
           labelled == {i \in DOMAIN lines : lines[i].label \in Bearing(label)}
           first == Min(labelled)
           value == CASE labelled = {} -> Blank
                      [] labelled # {} /\ HasUpper(Behind(lines[first], label)) ->
                           Behind(lines[first], label)
                      [] labelled # {} /\ ~HasUpper(Behind(lines[first], label)) ->
                           IF first < Len(lines) THEN WholeLine(lines[first + 1]) ELSE Blank
<1>1. UpperValue(lines, label) = value.upper
  BY DEF UpperValue, ValueAfter
<1>2. Blank.upper \in Seq(Token)
  BY DEF Blank
<1>3. ASSUME NEW i \in DOMAIN lines
      PROVE  /\ Behind(lines[i], label).upper \in Seq(Token)
             /\ WholeLine(lines[i]).upper \in Seq(Token)
  <2>1. lines[i] \in LineRow
    BY ElementOfSeq
  <2>2. lines[i].rest.upper \in Seq(Token)
    BY <2>1 DEF LineRow, Reading
  <2>3. Caption \in Seq(Token)
    <3>1. <<"caption">> \in Token
      BY OcrAssumption DEF Token
    <3>2. QED
      BY <3>1 DEF Caption
  <2>4. QED
    BY <2>2, <2>3 DEF WholeLine, Behind
<1>4. labelled # {} => first \in DOMAIN lines
  <2>1. labelled \subseteq Nat
    OBVIOUS
  <2>2. labelled # {} => first \in labelled
    <3> HIDE DEF labelled
    <3>1. QED
      BY <2>1, MinOf
  <2>3. QED
    BY <2>2
<1>5. labelled # {} /\ first < Len(lines) => first + 1 \in DOMAIN lines
  <2> HIDE DEF first, labelled
  <2>1. QED
    BY <1>4
<1> HIDE DEF first, labelled
<1>6. value.upper \in Seq(Token)
  BY <1>2, <1>3, <1>4, <1>5
<1>7. QED
  BY <1>1, <1>6

\* A name that was read is made of tokens.
LEMMA NameType ==
  ASSUME paper \in DocumentRow, "full_name" \in DOMAIN AllRead(paper)
  PROVE  BestValue("full_name") \in Seq(Token)
<1> DEFINE k == "full_name"
           zone == ReadMrzFields(paper.mrz)
           front == ParseFields(paper.front)
           back == ParseFields(paper.back)
<1>1. k \in Keys
  BY DEF Keys
<1>2. /\ paper.front \in Seq(LineRow) /\ paper.back \in Seq(LineRow)
      /\ paper.mrz.names \in Seq(Token) /\ paper.mrz.surname \in Seq(Token)
  BY DEF DocumentRow, ZoneRow
<1>3. \A lines \in Seq(LineRow) :
        k \in DOMAIN ParseFields(lines) => ParseFields(lines)[k].value \in Seq(Token)
  <2> SUFFICES ASSUME NEW lines \in Seq(LineRow), k \in DOMAIN ParseFields(lines)
               PROVE  ParseFields(lines)[k].value \in Seq(Token)
    OBVIOUS
  <2>1. UpperValue(lines, "given") \in Seq(Token) /\ UpperValue(lines, "surname") \in Seq(Token)
    BY UpperType
  <2>2. UpperValue(lines, "given") \o UpperValue(lines, "surname") \in Seq(Token)
    BY <2>1
  <2>3. QED
    BY <2>2, ParsedFields
<1>4. k \in DOMAIN zone => zone[k].value \in Seq(Token)
  <2>1. paper.mrz.names \o paper.mrz.surname \in Seq(Token)
    BY <1>2
  <2>2. QED
    BY <2>1, ZoneFields
<1>5. BestValue(k) # <<>>
  BY <1>1, ReadIsBest
<1>6. BestValue(k) =
        CASE k \in DOMAIN zone -> zone[k].value
          [] k \notin DOMAIN zone /\ k \in DOMAIN front -> front[k].value
          [] k \notin DOMAIN zone \cup DOMAIN front
             /\ k \in DOMAIN back /\ paper.type = "NIC" -> back[k].value
          [] OTHER -> <<>>
  BY DEF BestValue
<1>7. (k \in DOMAIN front => front[k].value \in Seq(Token))
      /\ (k \in DOMAIN back => back[k].value \in Seq(Token))
  BY <1>2, <1>3
<1> HIDE DEF zone, front, back
<1>8. QED
  BY <1>4, <1>5, <1>6, <1>7
-----------------------------------------------------------------------------
(* The specification.                                                      *)

\* What the fields are at each step, and what becomes of the name.
Restored(p, f) ==
  IF "full_name" \notin DOMAIN f THEN f
  ELSE [f EXCEPT !["full_name"].value = RestoreNamePunctuation(@, p.front)]

Result(f) ==
  [success |-> RequiredFields \subseteq DOMAIN f,
   value   |-> [k \in Keys |-> IF k \in DOMAIN f THEN f[k].value ELSE <<>>]]

OcrInv ==
  /\ paper \in Documents
  /\ \/ ocrStep = "none" /\ fields = <<>>
     \/ ocrStep = "front" /\ fields = ParseFields(paper.front)
     \/ /\ ocrStep = "back" /\ paper.type = "NIC"
        /\ fields = Prefer(ParseFields(paper.front), ParseFields(paper.back))
     \/ ocrStep = "zone" /\ fields = AllRead(paper)
     \/ ocrStep \in {"restored", "done"} /\ fields = Restored(paper, AllRead(paper))
  /\ extracted = IF ocrStep = "done" THEN Result(fields) ELSE NoResult

\* Each stage adds to what the stages before it have read.
LEMMA OcrStep == OcrInv /\ [OcrNext]_ocrVars => OcrInv'
<1> SUFFICES ASSUME OcrInv, [OcrNext]_ocrVars PROVE OcrInv'
  OBVIOUS
<1>1. CASE ReadFront
  BY <1>1 DEF OcrInv, ReadFront
<1>2. CASE ReadBack
  BY <1>2 DEF OcrInv, ReadBack
<1>3. CASE ReadZone
  <2>1. /\ paper' = paper /\ extracted' = extracted /\ ocrStep' = "zone"
        /\ ocrStep = (IF paper.type = "NIC" THEN "back" ELSE "front")
        /\ fields' = Prefer(fields, ReadMrzFields(paper.mrz))
    BY <1>3 DEF ReadZone
  <2>2. fields = Printings(paper)
    BY <2>1 DEF OcrInv, Printings
  <2>3. fields' = AllRead(paper')
    BY <2>1, <2>2 DEF AllRead
  <2>4. QED
    BY <2>1, <2>3 DEF OcrInv
<1>4. CASE RestoreName
  <2>1. /\ paper' = paper /\ extracted' = extracted
        /\ ocrStep = "zone" /\ ocrStep' = "restored"
    BY <1>4 DEF RestoreName
  <2>2. fields' = Restored(paper, fields)
    BY <1>4 DEF RestoreName, Restored
  <2>3. fields = AllRead(paper)
    BY <2>1 DEF OcrInv
  <2>4. fields' = Restored(paper', AllRead(paper'))
    BY <2>1, <2>2, <2>3
  <2>5. QED
    BY <2>1, <2>4 DEF OcrInv
<1>5. CASE BuildResult
  <2>1. /\ paper' = paper /\ fields' = fields
        /\ ocrStep = "restored" /\ ocrStep' = "done"
        /\ extracted' = Result(fields)
    BY <1>5 DEF BuildResult, Result
  <2>2. QED
    BY <2>1 DEF OcrInv
<1>6. CASE UNCHANGED ocrVars
  BY <1>6 DEF OcrInv, ocrVars
<1>7. QED
  BY <1>1, <1>2, <1>3, <1>4, <1>5, <1>6 DEF OcrNext

LEMMA OcrStart == OcrInit => OcrInv
BY DEF OcrInit, OcrInv

\* The fields once the name has been restored.
LEMMA RestoredFields ==
  ASSUME paper \in DocumentRow, NEW f, f = Restored(paper, AllRead(paper))
  PROVE  /\ DOMAIN f = DOMAIN AllRead(paper)
         /\ \A k \in DOMAIN f :
              f[k].value # <<>> /\ f[k].confidence = AllRead(paper)[k].confidence
         /\ \A k \in DOMAIN f \ {"full_name"} : f[k].value = BestValue(k)
         /\ "full_name" \in DOMAIN f =>
              Punctuated(f["full_name"].value, BestValue("full_name"), Printed(paper.front))
<1> DEFINE read == AllRead(paper)
           n == "full_name"
<1>1. /\ DOMAIN read \subseteq Keys
      /\ n \in DOMAIN read =>
           read[n] = [value |-> read[n].value, confidence |-> read[n].confidence]
  BY ReadIsSure
<1>2. \A k \in DOMAIN read : read[k].value = BestValue(k) /\ BestValue(k) # <<>>
  BY <1>1, ReadIsBest
<1> HIDE DEF read
<1>3. CASE n \notin DOMAIN read
  <2>1. f = read
    BY <1>3 DEF Restored, read
  <2>2. QED
    BY <1>2, <1>3, <2>1 DEF read
<1>4. CASE n \in DOMAIN read
  <2> DEFINE name == RestoreNamePunctuation(BestValue(n), paper.front)
  <2>1. f = [read EXCEPT ![n].value = RestoreNamePunctuation(@, paper.front)]
    BY <1>4 DEF Restored, read
  <2>2. read[n].value = BestValue(n)
    BY <1>2, <1>4
  <2>3. f = [read EXCEPT ![n] = [read[n] EXCEPT !.value = name]]
    BY <2>1, <2>2
  <2>4. name # <<>> /\ Punctuated(name, BestValue(n), Printed(paper.front))
    <3>1. BestValue(n) \in Seq(Token) /\ BestValue(n) # <<>>
      BY <1>2, <1>4, NameType DEF read
    <3>2. paper.front \in Seq(LineRow)
      BY DEF DocumentRow
    <3>3. QED
      BY <3>1, <3>2, NameRestored
  <2> HIDE DEF name
  <2>5. f[n].value = name /\ f[n].confidence = read[n].confidence
    <3> DEFINE old == read[n]
               new == [old EXCEPT !.value = name]
    <3>1. new.value = name /\ new.confidence = old.confidence
      BY <1>1, <1>4
    <3>2. f[n] = new
      BY <1>4, <2>3
    <3> HIDE DEF new
    <3>3. QED
      BY <3>1, <3>2
  <2>6. QED
    BY <1>2, <1>4, <2>3, <2>4, <2>5 DEF read
<1>5. QED
  BY <1>3, <1>4

\* A year that is given in two digits is read as one that has begun.
LEMMA ReadByThisYear ==
  ASSUME paper \in DocumentRow, "date_of_birth" \in DOMAIN ReadMrzFields(paper.mrz)
  PROVE  BestValue("date_of_birth")[1] <= ThisYear
<1> DEFINE k == "date_of_birth"
           zone == ReadMrzFields(paper.mrz)
           d == paper.mrz.birth[1]
<1>1. paper.mrz.birth # <<>> /\ zone[k].value = MrzDate(paper.mrz.birth, FALSE)
  BY ZoneFields
<1>2. d \in 0..99
  <2>1. paper.mrz.birth \in Seq(0..99)
    BY DEF DocumentRow, ZoneRow
  <2>2. 1 \in 1..Len(paper.mrz.birth)
    BY <1>1, <2>1
  <2>3. QED
    BY <2>1, <2>2, ElementOfSeq
<1>3. BestValue(k) = zone[k].value
  BY DEF BestValue
<1>4. BestValue(k)[1] = (IF d <= ThisYear % 100 THEN 2000 ELSE 1900) + d
  BY <1>1, <1>3 DEF MrzDate
<1>5. ThisYear \in 2000..2099 /\ ThisYear % 100 = ThisYear - 2000
  BY OcrAssumption
<1>6. QED
  BY <1>2, <1>4, <1>5

\* No field is set to an empty value, whatever the document, and each has one
\* of the two confidences, the printed text's or the zone's.
THEOREM OcrTypeCorrect == OcrSpec => []OcrTypeOK
<1>1. OcrInit => OcrInv
  BY OcrStart
<1>2. OcrInv /\ [OcrNext]_ocrVars => OcrInv'
  BY OcrStep
<1>3. OcrInv => OcrTypeOK
  <2> SUFFICES ASSUME OcrInv PROVE OcrTypeOK
    OBVIOUS
  <2>1. paper \in DocumentRow /\ paper.type \in {"NIC", "PASSPORT"}
    BY OcrAssumption DEF OcrInv, DocumentRow
  <2>2. Sure(ParseFields(paper.front), 75) /\ Sure(ParseFields(paper.back), 75)
    BY ParsedFields
  <2> DEFINE Shape(f) == /\ DOMAIN f \subseteq Keys
                         /\ \A k \in DOMAIN f : f[k].value # <<>> /\ f[k].confidence \in {75, 98}
  <2>3. Shape(ParseFields(paper.front))
    BY <2>2 DEF Sure
  <2>4. Shape(Prefer(ParseFields(paper.front), ParseFields(paper.back)))
    <3>1. Sure(Prefer(ParseFields(paper.front), ParseFields(paper.back)), 75)
      BY <2>2, FirstWins
    <3>2. QED
      BY <3>1 DEF Sure
  <2>5. Shape(AllRead(paper))
    <3>1. DOMAIN AllRead(paper) \subseteq Keys
      BY ReadIsSure
    <3>2. ASSUME NEW k \in DOMAIN AllRead(paper)
          PROVE  AllRead(paper)[k].value # <<>> /\ AllRead(paper)[k].confidence \in {75, 98}
      BY <3>1, ReadIsSure, ReadIsBest
    <3>3. QED
      BY <3>1, <3>2
  <2>6. Shape(Restored(paper, AllRead(paper)))
    <3> DEFINE f == Restored(paper, AllRead(paper))
    <3>1. /\ DOMAIN f = DOMAIN AllRead(paper)
          /\ \A k \in DOMAIN f :
               f[k].value # <<>> /\ f[k].confidence = AllRead(paper)[k].confidence
      <4> HIDE DEF f
      <4>1. f = Restored(paper, AllRead(paper))
        BY DEF f
      <4>2. QED
        BY <2>1, <4>1, RestoredFields
    <3> HIDE DEF f
    <3>2. Shape(f)
      BY <2>5, <3>1
    <3>3. QED
      BY <3>2 DEF f
  <2>7. Shape(fields)
    <3>1. Shape(<<>>)
      OBVIOUS
    <3> HIDE DEF Shape
    <3>2. QED
      BY <2>3, <2>4, <2>5, <2>6, <3>1 DEF OcrInv
  <2>8. extracted.success \in BOOLEAN /\ DOMAIN extracted.value = Keys
    BY DEF OcrInv, Result, NoResult
  <2>9. ocrStep \in {"none", "front", "back", "zone", "restored", "done"}
    BY DEF OcrInv
  <2>10. QED
    BY <2>1, <2>7, <2>8, <2>9 DEF OcrTypeOK
<1>4. QED
  BY <1>1, <1>2, <1>3, PTL DEF OcrSpec

\* The extraction keeps each field's most trusted reading; the name may only
\* gain hyphens that are printed on the front, and no birth is in the future.
THEOREM BestKept == OcrSpec => []FieldsRight
<1>1. OcrInit => OcrInv
  BY OcrStart
<1>2. OcrInv /\ [OcrNext]_ocrVars => OcrInv'
  BY OcrStep
<1>3. OcrInv => FieldsRight
  <2> SUFFICES ASSUME OcrInv, ocrStep = "done" PROVE FieldsRight
    BY DEF FieldsRight, BestFieldKept, BornBefore
  <2>1. paper \in DocumentRow
    BY OcrAssumption DEF OcrInv
  <2>2. fields = Restored(paper, AllRead(paper)) /\ extracted = Result(fields)
    BY DEF OcrInv
  <2>3. /\ DOMAIN fields = DOMAIN AllRead(paper)
        /\ \A k \in DOMAIN fields \ {"full_name"} : fields[k].value = BestValue(k)
        /\ "full_name" \in DOMAIN fields =>
              Punctuated(fields["full_name"].value, BestValue("full_name"), Printed(paper.front))
    BY <2>1, <2>2, RestoredFields
  <2>4. \A k \in Keys : k \in DOMAIN fields <=> BestValue(k) # <<>>
    BY <2>3, ReadIsBest
  <2>5. \A k \in Keys \ {"full_name"} : extracted.value[k] = BestValue(k)
    BY <2>2, <2>3, <2>4 DEF Result
  <2>6. extracted.success <=> \A k \in RequiredFields : BestValue(k) # <<>>
    <3>1. RequiredFields \subseteq Keys
      BY DEF RequiredFields, Keys
    <3>2. QED
      BY <2>2, <2>4, <3>1 DEF Result
  <2> DEFINE name == extracted.value["full_name"]
             read == BestValue("full_name")
  <2>7. Punctuated(name, read, Printed(paper.front))
    <3>1. "full_name" \in Keys
      BY DEF Keys
    <3>2. CASE "full_name" \in DOMAIN fields
      BY <2>2, <2>3, <3>1, <3>2 DEF Result
    <3>3. CASE "full_name" \notin DOMAIN fields
      <4>1. name = <<>> /\ read = <<>>
        BY <2>2, <2>4, <3>1, <3>3 DEF Result
      <4> HIDE DEF name, read
      <4>2. QED
        BY <4>1 DEF Punctuated
    <3>4. QED
      BY <3>2, <3>3
  <2>8. BestFieldKept
    <3> DEFINE words == FlattenSeq(name)
    <3>1. words = FlattenSeq(read) /\ Hyphens(read) \subseteq Hyphens(name)
      BY <2>7 DEF Punctuated
    <3>2. ASSUME NEW i \in Hyphens(name) \ Hyphens(read)
          PROVE  \E l \in DOMAIN paper.front : \E t \in DOMAIN paper.front[l].rest.clean :
                   LET token == paper.front[l].rest.clean[t]
                   IN \E j \in 1..Len(token) - 1 :
                        <<token[j], token[j + 1]>> = <<words[i], words[i + 1]>>
      <4>1. <<words[i], words[i + 1]>> \in Printed(paper.front)
        BY <2>7, <3>1, <3>2 DEF Punctuated
      <4> HIDE DEF name, read, words
      <4>2. QED
        BY <4>1 DEF Printed
    <3> HIDE DEF words
    <3>3. QED
      BY <2>5, <2>6, <3>1, <3>2 DEF BestFieldKept, words
  <2>9. BornBefore
    <3> SUFFICES ASSUME "date_of_birth" \in DOMAIN ReadMrzFields(paper.mrz)
                 PROVE  extracted.value["date_of_birth"][1] <= ThisYear
      BY DEF BornBefore
    <3>1. "date_of_birth" \in Keys \ {"full_name"}
      BY DEF Keys
    <3>2. QED
      BY <2>1, <2>5, <3>1, ReadByThisYear
  <2>10. QED
    BY <2>8, <2>9 DEF FieldsRight
<1>4. QED
  BY <1>1, <1>2, <1>3, PTL DEF OcrSpec
=============================================================================
