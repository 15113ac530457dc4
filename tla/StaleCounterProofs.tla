------------------------- MODULE StaleCounterProofs -------------------------
(***************************************************************************)
(* Lemmas about counters that are counted from old copies (StaleCounter).  *)
(*                                                                         *)
(* A user has seen its copy of the counter if that is behind, and the      *)
(* counter itself otherwise.  An increment counted from k takes one user   *)
(* away from those who have seen k or less and adds none, so the profile   *)
(* of what they have seen moves strictly down in the order that compares   *)
(* the lowest value first.  Nothing but a new count moves it up: until     *)
(* then each profile is visited at most once.                              *)
(***************************************************************************)
EXTENDS StaleCounter, FiniteSetTheorems, WellFoundedInduction, TLAPS

Having(S, seen, k) == {q \in S : seen[q] = k}

\* u has fewer than v at the lowest value where they differ.
Precedes(n, u, v) ==
  \E k \in 0..n : u[k] < v[k] /\ \A j \in 0..n : j < k => u[j] = v[j]

Below(S, n, v) == {u \in Profiles(S, n) : Precedes(n, u, v)}

\* The increments so far and the profiles still ahead.
Paid(S, n, counted, seen) ==
  counted + Cardinality(Below(S, n, Profile(S, n, seen))) < Cardinality(Profiles(S, n))

\* A set of numbers has a least one.
LEMMA LeastNatural ==
  ASSUME NEW T, T \subseteq Nat, T # {}
  PROVE  \E n \in T : \A m \in T : n <= m
<1> DEFINE R == OpToRel(<, Nat)
<1>1. IsWellFoundedOn(R, Nat)
  BY NatLessThanWellFounded
<1>2. PICK n \in T : \A m \in T : ~(<<m, n>> \in R)
  <2> HIDE DEF R
  <2> QED BY <1>1, WFMin
<1>3. \A m, k \in Nat : m < k => <<m, k>> \in R
  BY DEF OpToRel
<1>4. ASSUME NEW m \in T PROVE n <= m
  <2>1. ~(<<m, n>> \in R)
    BY <1>2
  <2> HIDE DEF R
  <2>2. ~(m < n)
    BY <1>3, <2>1
  <2>3. QED
    BY <2>2
<1>5. QED
  BY <1>4

\* A profile counts the users by what they have seen.
LEMMA ProfileType ==
  ASSUME NEW S, IsFiniteSet(S), NEW n \in Nat, NEW seen \in [S -> 0..n]
  PROVE  /\ Profile(S, n, seen) \in Profiles(S, n)
         /\ Profile(S, n, seen) \in [0..n -> Nat]
         /\ \A k \in 0..n : IsFiniteSet(Having(S, seen, k))
         /\ \A k \in 0..n : Profile(S, n, seen)[k] = Cardinality(Having(S, seen, k))
<1>1. Profile(S, n, seen) = [k \in 0..n |-> Cardinality(Having(S, seen, k))]
  BY DEF Profile, Having
<1>2. \A k \in 0..n : IsFiniteSet(Having(S, seen, k)) /\ Cardinality(Having(S, seen, k)) \in Nat
  <2>1. TAKE k \in 0..n
  <2>2. Having(S, seen, k) \in SUBSET S /\ IsFiniteSet(S)
    BY DEF Having
  <2>3. IsFiniteSet(Having(S, seen, k))
    BY <2>2, FS_Subset
  <2>4. QED
    BY <2>3, FS_CardinalityType
<1>3. Profile(S, n, seen) \in Profiles(S, n)
  BY DEF Profiles
<1>4. QED
  BY <1>1, <1>2, <1>3

\* There are finitely many profiles: a function is the set of its pairs.
LEMMA ProfilesFinite ==
  ASSUME NEW S, IsFiniteSet(S), NEW n \in Nat
  PROVE  IsFiniteSet(Profiles(S, n))
<1> DEFINE all == [S -> 0..n]
           pairs(seen) == {p \in S \X (0..n) : p[2] = seen[p[1]]}
           graph == [seen \in all |-> pairs(seen)]
           profile == [seen \in all |-> Profile(S, n, seen)]
<1>1. IsFiniteSet(SUBSET (S \X (0..n)))
  <2>1. IsFiniteSet(S) /\ IsFiniteSet(0..n)
    BY FS_Interval
  <2>2. QED
    BY <2>1, FS_Product, FS_SUBSET
<1>2. \A s, t \in all : pairs(s) = pairs(t) => s = t
  <2>1. SUFFICES ASSUME NEW s \in all, NEW t \in all, pairs(s) = pairs(t)
                 PROVE  s = t
    OBVIOUS
  <2>2. ASSUME NEW r \in S PROVE s[r] = t[r]
    <3>1. <<r, s[r]>> \in pairs(s)
      BY <2>2
    <3>2. <<r, s[r]>> \in pairs(t)
      BY <2>1, <3>1
    <3>3. QED
      BY <3>2
  <2>3. QED
    BY <2>2
<1>3. graph \in Injection(all, SUBSET (S \X (0..n)))
  <2>1. graph \in [all -> SUBSET (S \X (0..n))]
    OBVIOUS
  <2>2. \A s, t \in all : graph[s] = graph[t] => s = t
    BY <1>2
  <2> HIDE DEF graph
  <2>3. QED
    BY <2>1, <2>2 DEF Injection, IsInjective
<1>4. IsFiniteSet(all)
  <2> HIDE DEF all, graph
  <2>1. QED
    BY <1>1, <1>3, FS_Injection
<1>5. profile \in Surjection(all, Profiles(S, n))
  BY DEF Surjection, Profiles
<1>6. QED
  <2> HIDE DEF all, profile
  <2>1. QED
    BY <1>4, <1>5, FS_Surjection

LEMMA BelowFinite ==
  ASSUME NEW S, IsFiniteSet(S), NEW n \in Nat, NEW v
  PROVE  /\ IsFiniteSet(Below(S, n, v)) /\ Cardinality(Below(S, n, v)) \in Nat
         /\ Cardinality(Profiles(S, n)) \in Nat
         /\ v \in Profiles(S, n) /\ (\A k \in 0..n : v[k] \in Nat) =>
              Cardinality(Below(S, n, v)) < Cardinality(Profiles(S, n))
<1>1. IsFiniteSet(Profiles(S, n)) /\ Below(S, n, v) \in SUBSET Profiles(S, n)
  BY ProfilesFinite DEF Below
<1>2. IsFiniteSet(Below(S, n, v)) /\ Cardinality(Below(S, n, v)) <= Cardinality(Profiles(S, n))
      /\ (Cardinality(Profiles(S, n)) = Cardinality(Below(S, n, v)) =>
            Profiles(S, n) = Below(S, n, v))
  BY <1>1, FS_Subset
<1>3. Cardinality(Below(S, n, v)) \in Nat /\ Cardinality(Profiles(S, n)) \in Nat
  BY <1>1, <1>2, FS_CardinalityType
<1>4. ASSUME v \in Profiles(S, n), \A k \in 0..n : v[k] \in Nat
      PROVE  Cardinality(Below(S, n, v)) < Cardinality(Profiles(S, n))
  <2>1. v \notin Below(S, n, v)
    BY <1>4 DEF Below, Precedes
  <2>2. QED
    BY <1>2, <1>3, <1>4, <2>1
<1>5. QED
  BY <1>2, <1>3, <1>4

\* A step down leaves fewer profiles ahead.
LEMMA FewerBelow ==
  ASSUME NEW S, IsFiniteSet(S), NEW n \in Nat,
         NEW u \in Profiles(S, n), NEW v \in Profiles(S, n), Precedes(n, u, v),
         u \in [0..n -> Nat], v \in [0..n -> Nat]
  PROVE  Cardinality(Below(S, n, u)) + 1 <= Cardinality(Below(S, n, v))
<1>1. ASSUME NEW w \in Profiles(S, n), Precedes(n, w, u) PROVE Precedes(n, w, v)
  <2>1. w \in [0..n -> Nat]
    <3>1. PICK seen \in [S -> 0..n] : w = Profile(S, n, seen)
      BY DEF Profiles
    <3>2. QED
      BY <3>1, ProfileType
  <2>2. PICK i \in 0..n : w[i] < u[i] /\ \A j \in 0..n : j < i => w[j] = u[j]
    BY <1>1 DEF Precedes
  <2>3. PICK k \in 0..n : u[k] < v[k] /\ \A j \in 0..n : j < k => u[j] = v[j]
    BY DEF Precedes
  <2>4. i \in Int /\ k \in Int
    OBVIOUS
  <2>5. CASE i < k
    <3>1. w[i] < v[i] /\ \A j \in 0..n : j < i => w[j] = v[j]
      <4>1. \A j \in 0..n : j < i => j < k
        BY <2>4, <2>5
      <4>2. QED
        BY <2>2, <2>3, <2>5, <4>1
    <3>2. QED
      BY <3>1 DEF Precedes
  <2>6. CASE k <= i
    <3>1. w[k] < v[k]
      <4>1. w[k] \in Nat /\ u[k] \in Nat /\ v[k] \in Nat
        BY <2>1
      <4>2. w[k] <= u[k]
        <5>1. CASE k = i
          BY <4>1, <2>2, <5>1
        <5>2. CASE k < i
          BY <4>1, <2>2, <5>2
        <5>3. QED
          BY <2>4, <2>6, <5>1, <5>2
      <4>3. QED
        BY <4>1, <4>2, <2>3
    <3>2. \A j \in 0..n : j < k => w[j] = v[j]
      <4>1. \A j \in 0..n : j < k => j < i
        BY <2>4, <2>6
      <4>2. QED
        BY <2>2, <2>3, <4>1
    <3>3. QED
      BY <3>1, <3>2 DEF Precedes
  <2>7. QED
    BY <2>4, <2>5, <2>6
<1>2. Below(S, n, u) \subseteq Below(S, n, v) /\ u \in Below(S, n, v) /\ u \notin Below(S, n, u)
  <2>1. u \notin Below(S, n, u)
    BY DEF Below, Precedes
  <2>2. QED
    BY <1>1, <2>1 DEF Below
<1>3. IsFiniteSet(Below(S, n, v)) /\ IsFiniteSet(Below(S, n, u))
      /\ Cardinality(Below(S, n, v)) \in Nat /\ Cardinality(Below(S, n, u)) \in Nat
  BY BelowFinite
<1>4. Cardinality(Below(S, n, u)) <= Cardinality(Below(S, n, v))
      /\ (Cardinality(Below(S, n, v)) = Cardinality(Below(S, n, u)) =>
            Below(S, n, v) = Below(S, n, u))
  <2>1. Below(S, n, u) \in SUBSET Below(S, n, v)
    BY <1>2
  <2>2. QED
    BY <1>3, <2>1, FS_Subset
<1>5. QED
  BY <1>2, <1>3, <1>4

\* A user leaves a value for a higher one, and who has seen that value or less is
\* otherwise as it was.
LEMMA StepDown ==
  ASSUME NEW S, IsFiniteSet(S), NEW n \in Nat,
         NEW e \in [S -> 0..n], NEW f \in [S -> 0..n],
         NEW r \in S, e[r] < f[r],
         \A q \in S : e[q] < e[r] \/ f[q] <= e[r] => f[q] = e[q]
  PROVE  Precedes(n, Profile(S, n, f), Profile(S, n, e))
<1> DEFINE k == e[r]
<1>1. k \in 0..n /\ k \in Int
  OBVIOUS
<1>2. \A q \in S : e[q] \in Int /\ f[q] \in Int
  OBVIOUS
<1>3. ASSUME NEW j \in 0..n, j < k PROVE Having(S, f, j) = Having(S, e, j)
  <2>1. j \in Int
    OBVIOUS
  <2>2. \A q \in S : f[q] = j <=> e[q] = j
    BY <1>1, <1>2, <1>3, <2>1
  <2>3. QED
    BY <2>2 DEF Having
<1>4. Having(S, f, k) \subseteq Having(S, e, k) /\ r \in Having(S, e, k) /\ r \notin Having(S, f, k)
  <2>1. \A q \in S : f[q] = k => e[q] = k
    BY <1>1, <1>2
  <2>2. f[r] # k
    BY <1>1, <1>2
  <2>3. QED
    BY <2>1, <2>2 DEF Having
<1> HIDE DEF k
<1>5. Cardinality(Having(S, f, k)) < Cardinality(Having(S, e, k))
  <2>1. IsFiniteSet(Having(S, e, k)) /\ IsFiniteSet(Having(S, f, k))
    BY <1>1, ProfileType
  <2>2. Having(S, f, k) \in SUBSET Having(S, e, k)
    BY <1>4
  <2>3. /\ Cardinality(Having(S, f, k)) <= Cardinality(Having(S, e, k))
        /\ Cardinality(Having(S, e, k)) = Cardinality(Having(S, f, k)) =>
             Having(S, e, k) = Having(S, f, k)
    BY <2>1, <2>2, FS_Subset
  <2>4. Cardinality(Having(S, e, k)) \in Nat /\ Cardinality(Having(S, f, k)) \in Nat
    BY <2>1, FS_CardinalityType
  <2>5. QED
    BY <1>4, <2>3, <2>4
<1>6. /\ \A j \in 0..n : Profile(S, n, f)[j] = Cardinality(Having(S, f, j))
      /\ \A j \in 0..n : Profile(S, n, e)[j] = Cardinality(Having(S, e, j))
  BY ProfileType
<1>7. /\ Profile(S, n, f)[k] < Profile(S, n, e)[k]
      /\ \A j \in 0..n : j < k => Profile(S, n, f)[j] = Profile(S, n, e)[j]
  BY <1>1, <1>3, <1>5, <1>6
<1>8. QED
  BY <1>1, <1>7 DEF Precedes

\* A step down pays for one more increment.
LEMMA DownPays ==
  ASSUME NEW S, IsFiniteSet(S), NEW n \in Nat, NEW counted \in Nat,
         NEW e \in [S -> 0..n], NEW f \in [S -> 0..n],
         Paid(S, n, counted, e), Precedes(n, Profile(S, n, f), Profile(S, n, e))
  PROVE  Paid(S, n, counted + 1, f)
<1> DEFINE u == Profile(S, n, f)
           v == Profile(S, n, e)
<1>1. /\ u \in Profiles(S, n) /\ v \in Profiles(S, n)
      /\ u \in [0..n -> Nat] /\ v \in [0..n -> Nat] /\ Precedes(n, u, v)
  BY ProfileType
<1>2. counted + Cardinality(Below(S, n, v)) < Cardinality(Profiles(S, n))
  BY DEF Paid
<1> HIDE DEF u, v
<1>3. Cardinality(Below(S, n, u)) + 1 <= Cardinality(Below(S, n, v))
  BY <1>1, FewerBelow
<1>4. /\ Cardinality(Below(S, n, u)) \in Nat /\ Cardinality(Below(S, n, v)) \in Nat
      /\ Cardinality(Profiles(S, n)) \in Nat
  BY BelowFinite
<1>5. counted + 1 + Cardinality(Below(S, n, u)) < Cardinality(Profiles(S, n))
  BY <1>2, <1>3, <1>4
<1>6. QED
  BY <1>5 DEF Paid, u

\* A counter that starts anew has paid for nothing yet.
LEMMA NothingToPay ==
  ASSUME NEW S, IsFiniteSet(S), NEW n \in Nat, NEW f \in [S -> 0..n]
  PROVE  Paid(S, n, 0, f)
<1> DEFINE v == Profile(S, n, f)
<1>1. v \in Profiles(S, n) /\ \A k \in 0..n : v[k] \in Nat
  BY ProfileType
<1> HIDE DEF v
<1>2. /\ Cardinality(Below(S, n, v)) < Cardinality(Profiles(S, n))
      /\ Cardinality(Below(S, n, v)) \in Nat
  BY <1>1, BelowFinite
<1>3. QED
  BY <1>2 DEF Paid, v

\* An increment counted from e[r], and users who have seen that much or less stay
\* as they are.
LEMMA IncrementPays ==
  ASSUME NEW S, IsFiniteSet(S), NEW n \in Nat, NEW counted \in Nat,
         NEW e \in [S -> 0..n], NEW f \in [S -> 0..n], Paid(S, n, counted, e),
         NEW r \in S, e[r] < f[r],
         \A q \in S : e[q] < e[r] \/ f[q] <= e[r] => f[q] = e[q]
  PROVE  Paid(S, n, counted + 1, f)
BY StepDown, DownPays

\* Users who drop their copies see the counter, which is not behind them.
LEMMA RaisedPays ==
  ASSUME NEW S, IsFiniteSet(S), NEW n \in Nat, NEW counted \in Nat,
         NEW e \in [S -> 0..n], NEW f \in [S -> 0..n], Paid(S, n, counted, e),
         \A q \in S : e[q] <= f[q]
  PROVE  Paid(S, n, counted, f)
<1> DEFINE raised == {q \in S : e[q] < f[q]}
           values == {e[q] : q \in raised}
<1>1. CASE raised = {}
  <2>1. \A q \in S : e[q] = f[q]
    BY <1>1
  <2>2. e = f
    BY <2>1
  <2>3. QED
    BY <2>2
<1>2. CASE raised # {}
  <2>1. values \subseteq Nat /\ values # {}
    BY <1>2
  <2>2. PICK least \in values : \A m \in values : least <= m
    <3> HIDE DEF values
    <3>1. QED
      BY <2>1, LeastNatural
  <2>3. PICK r \in raised : e[r] = least
    BY <2>2
  <2>4. \A q \in raised : e[r] <= e[q]
    BY <2>2, <2>3
  <2>5. /\ r \in S /\ e[r] < f[r]
        /\ \A q \in S : e[q] < e[r] \/ f[q] <= e[r] => f[q] = e[q]
    BY <2>3, <2>4
  <2>6. Paid(S, n, counted + 1, f)
    BY <2>5, IncrementPays
  <2>7. Cardinality(Below(S, n, Profile(S, n, f))) \in Nat /\ Cardinality(Profiles(S, n)) \in Nat
    BY BelowFinite
  <2>8. QED
    BY <2>6, <2>7 DEF Paid
<1>3. QED
  BY <1>1, <1>2

\* So there are fewer increments than profiles.
LEMMA FewerThanProfiles ==
  ASSUME NEW S, IsFiniteSet(S), NEW n \in Nat, NEW counted \in Nat, NEW seen,
         Paid(S, n, counted, seen)
  PROVE  counted < Cardinality(Profiles(S, n))
<1>1. /\ Cardinality(Below(S, n, Profile(S, n, seen))) \in Nat
      /\ Cardinality(Profiles(S, n)) \in Nat
  BY BelowFinite
<1>2. QED
  BY <1>1 DEF Paid

=============================================================================
