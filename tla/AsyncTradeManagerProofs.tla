----------------------- MODULE AsyncTradeManagerProofs -----------------------
(***************************************************************************)
(* Theorems about the asynchronous trade manager, for any number of orders *)
(* and of retries, any volume and any limit of pending requests.           *)
(***************************************************************************)
EXTENDS AsyncTradeManager, FiniteSetTheorems, WellFoundedInduction, TLAPS

(* Numbers and totals                                                        *)

LEMMA LeastNumber ==
    \A T \in SUBSET Nat : T # {} => \E n \in T : \A k \in T : n <= k
<1> SUFFICES ASSUME NEW T \in SUBSET Nat, T # {}
             PROVE  \E n \in T : \A k \in T : n <= k
  OBVIOUS
<1> DEFINE R == OpToRel(<, Nat)
<1>1. \A k, n \in T : <<k, n>> \in R <=> k < n
  BY Zenon DEF OpToRel
<1>2. IsWellFoundedOn(R, Nat)
  BY NatLessThanWellFounded
<1> HIDE DEF R
<1>3. PICK n \in T : \A k \in T : ~(<<k, n>> \in R)
  BY <1>2, WFMin
<1>4. \A k \in T : ~(k < n)
  BY <1>1, <1>3
<1>5. \A k \in T : n <= k
  BY <1>4
<1> QED BY <1>5

\* A set of numbers with 0 and the successor of each of its members has them all.
LEMMA Induction ==
    \A T \in SUBSET Nat : 0 \in T /\ (\A n \in T : n + 1 \in T) => T = Nat
<1> SUFFICES ASSUME NEW T \in SUBSET Nat, 0 \in T, \A n \in T : n + 1 \in T, T # Nat
             PROVE  FALSE
  OBVIOUS
<1>1. PICK n \in Nat \ T : \A k \in Nat \ T : n <= k
  BY LeastNumber
<1>2. n # 0 /\ n - 1 \in Nat
  BY <1>1
<1>3. n - 1 \in T
  BY <1>1, <1>2
<1> QED BY <1>1, <1>2, <1>3

\* A set of subsets of S with each that it has all but one of, whichever is left out.
LEMMA SubsetInduction ==
    ASSUME NEW S, IsFiniteSet(S), NEW C, {} \in C,
           \A s \in SUBSET S : s # {} /\ (\A x \in s : s \ {x} \in C) => s \in C
    PROVE  S \in C
<1> DEFINE T == {n \in Nat : \A s \in SUBSET S : Cardinality(s) <= n => s \in C}
<1>1. \A s \in SUBSET S : IsFiniteSet(s) /\ Cardinality(s) \in Nat
  BY FS_Subset, FS_CardinalityType
<1>2. 0 \in T
  <2>1. \A s \in SUBSET S : Cardinality(s) <= 0 => s = {}
    BY <1>1, FS_EmptySet
  <2> QED BY <2>1
<1>3. ASSUME NEW n \in T PROVE n + 1 \in T
  <2> SUFFICES ASSUME NEW s \in SUBSET S, Cardinality(s) <= n + 1, s # {}
               PROVE  s \in C
    OBVIOUS
  <2>1. ASSUME NEW x \in s PROVE s \ {x} \in C
    <3>1. s \ {x} \in SUBSET S /\ Cardinality(s \ {x}) = Cardinality(s) - 1
      BY <1>1, FS_RemoveElement
    <3>2. Cardinality(s \ {x}) <= n
      BY <1>1, <3>1
    <3> QED BY <3>1, <3>2
  <2> QED BY <2>1
<1>4. T = Nat
  <2>1. T \in SUBSET Nat
    OBVIOUS
  <2> HIDE DEF T
  <2> QED BY <1>2, <1>3, <2>1, Induction
<1> QED BY <1>1, <1>4

Pick(s) == CHOOSE x \in s : TRUE

\* g maps every subset of S to the total of f over it.
IsTotal(g, f, S) ==
    g = [s \in SUBSET S |-> IF s = {} THEN 0 ELSE f[Pick(s)] + g[s \ {Pick(s)}]]

Total(f, S) == (CHOOSE g : IsTotal(g, f, S))[S]

LEMMA Picked ==
    ASSUME NEW s, IsFiniteSet(s), s # {}
    PROVE  /\ Pick(s) \in s
           /\ IsFiniteSet(s \ {Pick(s)})
           /\ Cardinality(s) \in Nat /\ Cardinality(s) # 0
           /\ Cardinality(s \ {Pick(s)}) = Cardinality(s) - 1
  BY FS_RemoveElement, FS_CardinalityType, FS_EmptySet DEF Pick

LEMMA TotalExists ==
    ASSUME NEW S, IsFiniteSet(S), NEW f, \A x \in S : f[x] \in Int
    PROVE  \E g \in [SUBSET S -> Int] : IsTotal(g, f, S)
<1> DEFINE Sum(g, s) == IF s = {} THEN 0 ELSE f[Pick(s)] + g[s \ {Pick(s)}]
           UpTo(n) == \E g \in [SUBSET S -> Int] :
                          \A s \in SUBSET S : Cardinality(s) <= n => g[s] = Sum(g, s)
           T == {n \in Nat : UpTo(n)}
<1>1. \A s \in SUBSET S : IsFiniteSet(s) /\ Cardinality(s) \in Nat
  BY FS_Subset, FS_CardinalityType
<1>2. UpTo(0)
  <2> DEFINE g == [s \in SUBSET S |-> 0]
  <2>1. \A s \in SUBSET S : Cardinality(s) <= 0 => s = {}
    BY <1>1, FS_EmptySet
  <2>2. g \in [SUBSET S -> Int]
    OBVIOUS
  <2>3. \A s \in SUBSET S : Cardinality(s) <= 0 => g[s] = Sum(g, s)
    BY <2>1
  <2> QED BY <2>2, <2>3
<1>3. ASSUME NEW n \in Nat, UpTo(n) PROVE UpTo(n + 1)
  <2>1. PICK g \in [SUBSET S -> Int] :
               \A s \in SUBSET S : Cardinality(s) <= n => g[s] = Sum(g, s)
    BY <1>3
  <2> DEFINE h == [s \in SUBSET S |-> IF Cardinality(s) <= n THEN g[s] ELSE Sum(g, s)]
  <2>2. ASSUME NEW s \in SUBSET S PROVE Sum(g, s) \in Int
    <3>1. s # {} => Pick(s) \in S /\ s \ {Pick(s)} \in SUBSET S
      BY <1>1, Picked
    <3> QED BY <3>1
  <2>3. h \in [SUBSET S -> Int]
    BY <2>2
  <2>4. ASSUME NEW s \in SUBSET S, Cardinality(s) <= n + 1
        PROVE  h[s] = Sum(h, s)
    <3>1. h[s] = Sum(g, s)
      BY <2>1
    <3>2. s # {} => h[s \ {Pick(s)}] = g[s \ {Pick(s)}]
      BY <1>1, <2>4, Picked
    <3> QED BY <3>1, <3>2
  <2> QED BY <2>3, <2>4
<1>4. T = Nat
  <2> HIDE DEF UpTo
  <2>1. 0 \in T /\ \A n \in T : n + 1 \in T
    BY <1>2, <1>3
  <2>2. T \in SUBSET Nat
    OBVIOUS
  <2> HIDE DEF T
  <2> QED BY <2>1, <2>2, Induction
<1>5. PICK g \in [SUBSET S -> Int] :
             \A s \in SUBSET S : Cardinality(s) <= Cardinality(S) => g[s] = Sum(g, s)
  BY <1>1, <1>4
<1>6. \A s \in SUBSET S : Cardinality(s) <= Cardinality(S)
  BY FS_Subset
<1>7. g = [s \in SUBSET S |-> Sum(g, s)]
  BY <1>5, <1>6
<1> QED BY <1>7 DEF IsTotal

\* Two totals agree where the functions do.
LEMMA TotalsAgree ==
    ASSUME NEW S, NEW R, NEW f, NEW g, NEW a, NEW b, IsTotal(g, f, S), IsTotal(b, a, R),
           NEW s, s \subseteq S, s \subseteq R, IsFiniteSet(s), \A x \in s : f[x] = a[x]
    PROVE  g[s] = b[s]
<1> DEFINE C == {t \in SUBSET s : g[t] = b[t]}
<1>1. ASSUME NEW t \in SUBSET s
      PROVE  /\ g[t] = IF t = {} THEN 0 ELSE f[Pick(t)] + g[t \ {Pick(t)}]
             /\ b[t] = IF t = {} THEN 0 ELSE a[Pick(t)] + b[t \ {Pick(t)}]
  BY Zenon DEF IsTotal
<1>2. {} \in C
  BY <1>1
<1>3. ASSUME NEW t \in SUBSET s, t # {}, \A x \in t : t \ {x} \in C
      PROVE  t \in C
  <2>1. Pick(t) \in t
    BY <1>3 DEF Pick
  <2> QED BY <1>1, <1>3, <2>1
<1> HIDE DEF C
<1>4. s \in C
  BY <1>2, <1>3, SubsetInduction
<1> QED BY <1>4 DEF C

\* What Total returns is what its recursion says.
LEMMA TotalIs ==
    ASSUME NEW S, IsFiniteSet(S), NEW f, \A x \in S : f[x] \in Int,
           NEW g, IsTotal(g, f, S), NEW s \in SUBSET S
    PROVE  Total(f, s) = g[s] /\ g[s] \in Int
<1>1. PICK h \in [SUBSET S -> Int] : IsTotal(h, f, S)
  BY TotalExists
<1>2. IsFiniteSet(s) /\ \A x \in s : f[x] \in Int
  BY FS_Subset
<1>3. \E b : IsTotal(b, f, s)
  BY <1>2, TotalExists
<1>4. IsTotal(CHOOSE b : IsTotal(b, f, s), f, s)
  BY <1>3
<1>5. (CHOOSE b : IsTotal(b, f, s))[s] = g[s] /\ h[s] = g[s]
  BY <1>1, <1>2, <1>4, TotalsAgree
<1> QED BY <1>1, <1>5 DEF Total

LEMMA TotalEmpty == ASSUME NEW f PROVE Total(f, {}) = 0
<1>1. IsFiniteSet({})
  BY FS_EmptySet
<1>2. PICK g : IsTotal(g, f, {})
  BY <1>1, TotalExists
<1>3. Total(f, {}) = g[{}]
  BY <1>1, <1>2, TotalIs
<1>4. g[{}] = 0
  BY <1>2, Zenon DEF IsTotal
<1> QED BY <1>3, <1>4

LEMMA TotalSame ==
    ASSUME NEW S, IsFiniteSet(S), NEW f, NEW a, \A x \in S : f[x] \in Int /\ f[x] = a[x]
    PROVE  Total(f, S) = Total(a, S) /\ Total(f, S) \in Int
<1>1. PICK g : IsTotal(g, f, S)
  BY TotalExists
<1>2. PICK b : IsTotal(b, a, S)
  BY TotalExists
<1> QED BY <1>1, <1>2, TotalIs, TotalsAgree

\* Any element can be added last.
LEMMA TotalSplit ==
    ASSUME NEW S, IsFiniteSet(S), NEW f, \A x \in S : f[x] \in Int, NEW y \in S
    PROVE  Total(f, S) = f[y] + Total(f, S \ {y})
<1>1. PICK g \in [SUBSET S -> Int] : IsTotal(g, f, S)
  BY TotalExists
<1> DEFINE C == {s \in SUBSET S : \A x \in s : g[s] = f[x] + g[s \ {x}]}
<1>2. {} \in C
  OBVIOUS
<1>3. ASSUME NEW s \in SUBSET S, s # {}, \A x \in s : s \ {x} \in C
      PROVE  s \in C
  <2> SUFFICES ASSUME NEW x \in s, x # Pick(s)
               PROVE  g[s] = f[x] + g[s \ {x}]
    <3>1. g[s] = f[Pick(s)] + g[s \ {Pick(s)}]
      BY <1>1, <1>3, Zenon DEF IsTotal
    <3> QED BY <3>1
  <2>1. Pick(s) \in s /\ g[s] = f[Pick(s)] + g[s \ {Pick(s)}]
    BY <1>1, <1>3, Zenon DEF IsTotal, Pick
  <2> DEFINE r == (s \ {x}) \ {Pick(s)}
  <2>2. r = (s \ {Pick(s)}) \ {x} /\ r \in SUBSET S
    OBVIOUS
  <2>3. g[s \ {Pick(s)}] = f[x] + g[r] /\ g[s \ {x}] = f[Pick(s)] + g[r]
    BY <1>3, <2>1, <2>2
  <2>4. f[x] \in Int /\ f[Pick(s)] \in Int /\ g[r] \in Int
    BY <1>1, <2>1, <2>2
  <2> HIDE DEF r
  <2> QED BY <2>1, <2>2, <2>3, <2>4
<1> HIDE DEF C
<1>4. S \in C
  BY <1>2, <1>3, SubsetInduction
<1>5. g[S] = f[y] + g[S \ {y}]
  BY <1>4 DEF C
<1>6. Total(f, S) = g[S] /\ Total(f, S \ {y}) = g[S \ {y}]
  BY <1>1, TotalIs
<1> QED BY <1>5, <1>6

\* A total is at most the sum of two others when each of its terms is.
LEMMA TotalBound ==
    ASSUME NEW S, IsFiniteSet(S), NEW f, NEW a, NEW b,
           \A x \in S : {f[x], a[x], b[x]} \subseteq Int /\ f[x] <= a[x] + b[x]
    PROVE  Total(f, S) <= Total(a, S) + Total(b, S)
<1> DEFINE C == {s \in SUBSET S : Total(f, s) <= Total(a, s) + Total(b, s)}
<1>1. {} \in C
  BY TotalEmpty
<1>2. ASSUME NEW s \in SUBSET S, s # {}, \A x \in s : s \ {x} \in C
      PROVE  s \in C
  <2>1. PICK x \in s : TRUE
    BY <1>2
  <2>2. IsFiniteSet(s) /\ IsFiniteSet(s \ {x})
    BY FS_Subset
  <2>3. /\ Total(f, s) = f[x] + Total(f, s \ {x})
        /\ Total(a, s) = a[x] + Total(a, s \ {x})
        /\ Total(b, s) = b[x] + Total(b, s \ {x})
    BY <2>2, TotalSplit
  <2>4. {Total(f, s \ {x}), Total(a, s \ {x}), Total(b, s \ {x})} \subseteq Int
    BY <2>2, TotalSame
  <2>5. Total(f, s \ {x}) <= Total(a, s \ {x}) + Total(b, s \ {x})
    BY <1>2, <2>1
  <2>6. {f[x], a[x], b[x]} \subseteq Int /\ f[x] <= a[x] + b[x]
    BY <2>1
  <2> QED BY <2>3, <2>4, <2>5, <2>6
<1> HIDE DEF C
<1>3. S \in C
  BY <1>1, <1>2, SubsetInduction
<1> QED BY <1>3 DEF C

LEMMA TotalLeq ==
    ASSUME NEW S, IsFiniteSet(S), NEW f, NEW a,
           \A x \in S : {f[x], a[x]} \subseteq Int /\ f[x] <= a[x]
    PROVE  Total(f, S) <= Total(a, S)
<1> DEFINE zero == [x \in S |-> 0]
           C == {s \in SUBSET S : Total(zero, s) = 0}
<1>1. {} \in C
  BY TotalEmpty
<1>2. ASSUME NEW s \in SUBSET S, s # {}, \A x \in s : s \ {x} \in C
      PROVE  s \in C
  <2>1. PICK x \in s : TRUE
    BY <1>2
  <2>2. Total(zero, s) = zero[x] + Total(zero, s \ {x})
    BY <2>1, FS_Subset, TotalSplit
  <2> QED BY <1>2, <2>1, <2>2
<1> HIDE DEF C
<1>3. S \in C
  BY <1>1, <1>2, SubsetInduction
<1>4. Total(zero, S) = 0
  BY <1>3 DEF C
<1>5. \A x \in S : {f[x], a[x], zero[x]} \subseteq Int /\ f[x] <= a[x] + zero[x]
  OBVIOUS
<1> HIDE DEF zero
<1>6. Total(f, S) <= Total(a, S) + Total(zero, S)
  BY <1>5, TotalBound
<1> QED BY <1>4, <1>6, TotalSame

-----------------------------------------------------------------------------
(* What the manager and the broker agree on                                  *)

EntriesOf(n, o) ==
    [id : 1..n, order : 1..o, volume : {Volume}, filled : 0..Volume,
     age : 0..StaleAge + 1, retry : 0..MaxRetries]

RequestsOf(o) ==
    [order : 1..o, ask : 1..Volume, done : 0..Volume, left : 0..Volume, open : BOOLEAN]

SentFor(q, c) == {r \in DOMAIN q : q[r].order = c}

\* What each request takes of its order, the volume left working by the broker apart.
Use(q) ==
    [r \in DOMAIN q |-> IF q[r].left > 0 THEN q[r].ask - q[r].left
                        ELSE IF q[r].open THEN q[r].ask ELSE q[r].done]

Sound(q) ==
    \A r \in DOMAIN q : /\ q[r].done <= q[r].ask
                        /\ q[r].left <= q[r].ask
                        /\ q[r].open => q[r].left = 0

\* The entry asks for what the requests before it have not taken of its order, and counts
\* them.
Fits(e, q) ==
    /\ q[e.id].order = e.order
    /\ q[e.id].ask = Volume - e.filled
    /\ Cardinality(SentFor(q, e.order)) = 1 + e.retry
    /\ Total(Use(q), SentFor(q, e.order) \ {e.id}) <= e.filled

Within(q, c) ==
    /\ Cardinality(SentFor(q, c)) <= 1 + MaxRetries
    /\ Total(Use(q), SentFor(q, c)) <= Volume

\* Entries p and requests q of o orders.
Steady(p, q, o) ==
    /\ p \in Seq(EntriesOf(Len(q), o))
    /\ q \in Seq(RequestsOf(o))
    /\ o \in 0..MaxOrders
    /\ Sound(q)
    /\ \A i \in DOMAIN p : Fits(p[i], q)
    /\ \A i, j \in DOMAIN p : p[i].order = p[j].order => i = j
    /\ \A c \in 1..o : Within(q, c)

Tallied(p, s) ==
    /\ s \in [DOMAIN ZeroStats -> Nat]
    /\ s.sent = Len(p) + s.reconciled + s.rejected + s.stale

LEMMA VolumeType == Volume \in Nat \ {0} /\ {MaxRetries, StaleAge, MaxOrders} \subseteq Nat
  BY AsyncConstants

LEMMA RequestTypes ==
    ASSUME NEW o, NEW q \in Seq(RequestsOf(o)), NEW r \in DOMAIN q
    PROVE  /\ q[r].order \in 1..o /\ q[r].ask \in 1..Volume
           /\ q[r].done \in 0..Volume /\ q[r].left \in 0..Volume /\ q[r].open \in BOOLEAN
<1>1. q[r] \in RequestsOf(o)
  OBVIOUS
<1> QED BY <1>1 DEF RequestsOf

LEMMA EntryTypes ==
    ASSUME NEW n, NEW o, NEW p \in Seq(EntriesOf(n, o)), NEW i \in DOMAIN p
    PROVE  /\ p[i].id \in 1..n /\ p[i].order \in 1..o /\ p[i].volume = Volume
           /\ p[i].filled \in 0..Volume /\ p[i].age \in 0..StaleAge + 1
           /\ p[i].retry \in 0..MaxRetries
<1>1. p[i] \in EntriesOf(n, o)
  OBVIOUS
<1> QED BY <1>1 DEF EntriesOf

\* The requests of an order are finitely many, and each takes a number of lots.
LEMMA UseType ==
    ASSUME NEW o \in Nat, NEW q \in Seq(RequestsOf(o)), Sound(q)
    PROVE  /\ DOMAIN q = 1..Len(q) /\ Len(q) \in Nat
           /\ \A r \in DOMAIN q : q[r] \in RequestsOf(o)
           /\ \A r \in DOMAIN q : Use(q)[r] \in Int /\ Use(q)[r] \in 0..q[r].ask
           /\ \A r \in DOMAIN q : q[r].done <= Use(q)[r] + q[r].left
           /\ \A S : S \subseteq DOMAIN q => IsFiniteSet(S) /\ Total(Use(q), S) \in Int
<1>1. DOMAIN q = 1..Len(q) /\ Len(q) \in Nat /\ \A r \in DOMAIN q : q[r] \in RequestsOf(o)
  OBVIOUS
<1>2. ASSUME NEW r \in DOMAIN q
      PROVE  Use(q)[r] \in Int /\ Use(q)[r] \in 0..q[r].ask /\ q[r].done <= Use(q)[r] + q[r].left
  <2>1. /\ q[r].ask \in 1..Volume /\ q[r].done \in 0..Volume /\ q[r].left \in 0..Volume
        /\ q[r].done <= q[r].ask /\ q[r].left <= q[r].ask
        /\ q[r].open \in BOOLEAN
    BY <1>1 DEF RequestsOf, Sound
  <2>2. Use(q)[r] = IF q[r].left > 0 THEN q[r].ask - q[r].left
                    ELSE IF q[r].open THEN q[r].ask ELSE q[r].done
    BY DEF Use
  <2> QED BY <2>1, <2>2, VolumeType
<1>3. ASSUME NEW S, S \subseteq DOMAIN q
      PROVE  IsFiniteSet(S) /\ Total(Use(q), S) \in Int
  <2>1. IsFiniteSet(S)
    <3>1. IsFiniteSet(1..Len(q))
      BY <1>1, FS_Interval
    <3> QED BY <1>1, <1>3, <3>1, FS_Subset
  <2>2. \A x \in S : Use(q)[x] \in Int
    BY <1>2, <1>3
  <2> QED BY <2>1, <2>2, TotalSame
<1> QED BY <1>1, <1>2, <1>3

\* Removal: the entries but one, each in one place.
LEMMA RemovedIs ==
    ASSUME NEW E, NEW p \in Seq(E), NEW i \in 1..Len(p)
    PROVE  /\ Removed(p, i) \in Seq(E)
           /\ Len(Removed(p, i)) = Len(p) - 1
           /\ DOMAIN Removed(p, i) = 1..(Len(p) - 1)
           /\ \A k \in 1..(Len(p) - 1) :
                  Removed(p, i)[k] = p[IF k = i THEN Len(p) ELSE k]
<1> DEFINE u == [p EXCEPT ![i] = Last(p)]
<1>1. Len(p) \in Nat /\ i <= Len(p) /\ Last(p) = p[Len(p)] /\ p[Len(p)] \in E
  BY DEF Last
<1>2. u \in Seq(E) /\ Len(u) = Len(p)
  BY <1>1
<1>3. \A k \in 1..Len(p) : u[k] = p[IF k = i THEN Len(p) ELSE k]
  BY <1>1
<1> HIDE DEF u
<1>4. Removed(p, i) = SubSeq(u, 1, Len(u) - 1)
  BY Zenon DEF Removed, Front, u
<1>5. /\ SubSeq(u, 1, Len(u) - 1) \in Seq(E)
      /\ Len(SubSeq(u, 1, Len(u) - 1)) = Len(u) - 1
      /\ \A k \in 1..(Len(u) - 1) : SubSeq(u, 1, Len(u) - 1)[k] = u[k]
  BY <1>1, <1>2
<1> QED BY <1>1, <1>2, <1>3, <1>4, <1>5

\* One entry less: nothing else is disturbed, and its order has none left.
LEMMA RemovedSteady ==
    ASSUME NEW p, NEW q, NEW o, Steady(p, q, o), NEW i \in DOMAIN p
    PROVE  /\ Steady(Removed(p, i), q, o)
           /\ Len(Removed(p, i)) = Len(p) - 1
           /\ \A k \in DOMAIN Removed(p, i) : Removed(p, i)[k].order # p[i].order
           /\ \A j \in DOMAIN p : j # i => \E k \in DOMAIN Removed(p, i) : Removed(p, i)[k] = p[j]
<1> DEFINE r == Removed(p, i)
           At(k) == IF k = i THEN Len(p) ELSE k
<1>1. p \in Seq(EntriesOf(Len(q), o)) /\ i \in 1..Len(p) /\ DOMAIN p = 1..Len(p) /\ Len(p) \in Nat
  BY DEF Steady
<1>2. /\ r \in Seq(EntriesOf(Len(q), o)) /\ Len(r) = Len(p) - 1
      /\ DOMAIN r = 1..(Len(p) - 1)
      /\ \A k \in 1..(Len(p) - 1) : r[k] = p[At(k)]
  BY <1>1, RemovedIs
<1> HIDE DEF r
<1>3. \A k \in DOMAIN r : At(k) \in DOMAIN p /\ At(k) # i /\ r[k] = p[At(k)]
  BY <1>1, <1>2
<1>4. \A k, l \in DOMAIN r : At(k) = At(l) => k = l
  BY <1>1, <1>2
<1>5. \A j \in DOMAIN p : j # i => \E k \in DOMAIN r : At(k) = j
  <2> SUFFICES ASSUME NEW j \in DOMAIN p, j # i PROVE \E k \in DOMAIN r : At(k) = j
    OBVIOUS
  <2>1. CASE j = Len(p)
    BY <1>1, <1>2, <2>1
  <2>2. CASE j # Len(p)
    BY <1>1, <1>2, <2>2
  <2> QED BY <2>1, <2>2
<1> HIDE DEF At
<1>6. \A k \in DOMAIN r : Fits(r[k], q)
  BY <1>3 DEF Steady
<1>7. \A k, l \in DOMAIN r : r[k].order = r[l].order => k = l
  BY <1>3, <1>4 DEF Steady
<1>8. \A k \in DOMAIN r : r[k].order # p[i].order
  BY <1>3 DEF Steady
<1>9. Steady(r, q, o)
  BY <1>2, <1>6, <1>7 DEF Steady
<1> QED BY <1>2, <1>3, <1>5, <1>8, <1>9 DEF r

\* One request more, of order c.
LEMMA RequestAdded ==
    ASSUME NEW o \in Nat, NEW q \in Seq(RequestsOf(o)), Sound(q),
           NEW c \in Nat \ {0}, NEW v \in 1..Volume
    PROVE  LET n == Len(q) + 1
               w == Append(q, Asked(c, v))
           IN  /\ Len(w) = n /\ DOMAIN w = DOMAIN q \union {n} /\ n \notin DOMAIN q
               /\ \A k \in Nat : o <= k /\ c <= k => w \in Seq(RequestsOf(k))
               /\ Sound(w)
               /\ w[n] = Asked(c, v) /\ \A r \in DOMAIN q : w[r] = q[r]
               /\ Use(w)[n] = v
               /\ SentFor(w, c) = SentFor(q, c) \union {n}
               /\ \A d : d # c => SentFor(w, d) = SentFor(q, d)
               /\ \A S : S \subseteq DOMAIN q => Total(Use(w), S) = Total(Use(q), S)
<1> DEFINE n == Len(q) + 1
           x == Asked(c, v)
           w == Append(q, x)
<1>1. /\ x.order = c /\ x.ask = v /\ x.done = 0 /\ x.left = 0 /\ x.open = TRUE
      /\ \A k \in Nat : c <= k => x \in RequestsOf(k)
  BY VolumeType DEF Asked, RequestsOf
<1>2. \A k \in Nat : o <= k => q \in Seq(RequestsOf(k))
  <2> SUFFICES ASSUME NEW k \in Nat, o <= k PROVE q \in Seq(RequestsOf(k))
    OBVIOUS
  <2>1. RequestsOf(o) \subseteq RequestsOf(k)
    BY DEF RequestsOf
  <2> QED BY <2>1
<1> HIDE DEF x
<1>3. \A k \in Nat : o <= k /\ c <= k => w \in Seq(RequestsOf(k))
  BY <1>1, <1>2
<1>4. /\ Len(q) \in Nat /\ DOMAIN q = 1..Len(q)
      /\ Len(w) = n /\ DOMAIN w = 1..n
      /\ w[n] = x /\ \A r \in 1..Len(q) : w[r] = q[r]
  OBVIOUS
<1> HIDE DEF w
<1>5. DOMAIN w = DOMAIN q \union {n} /\ n \notin DOMAIN q /\ \A r \in DOMAIN q : w[r] = q[r]
  BY <1>4
<1>6. Sound(w)
  BY <1>1, <1>4, <1>5, VolumeType DEF Sound
<1>7. /\ SentFor(w, c) = SentFor(q, c) \union {n}
      /\ \A d : d # c => SentFor(w, d) = SentFor(q, d)
  BY <1>1, <1>4, <1>5 DEF SentFor
<1>8. Use(w)[n] = v /\ \A r \in DOMAIN q : Use(w)[r] = Use(q)[r]
  BY <1>1, <1>4, <1>5, VolumeType DEF Use
<1>9. ASSUME NEW S, S \subseteq DOMAIN q PROVE Total(Use(w), S) = Total(Use(q), S)
  <2>1. IsFiniteSet(S)
    BY <1>9, UseType
  <2>2. \A r \in S : Use(q)[r] \in Int /\ Use(q)[r] = Use(w)[r]
    BY <1>8, <1>9, UseType
  <2> QED BY <2>1, <2>2, TotalSame
<1> QED BY <1>3, <1>4, <1>5, <1>6, <1>7, <1>8, <1>9 DEF w, x

\* OrderSendAsync accepts a new order.
LEMMA SentSteady ==
    ASSUME NEW p, NEW q, NEW o, Steady(p, q, o), o < MaxOrders
    PROVE  LET e == [id |-> Len(q) + 1, order |-> o + 1, volume |-> Volume,
                     filled |-> 0, age |-> 0, retry |-> 0]
           IN  Steady(Append(p, e), Append(q, Asked(o + 1, Volume)), o + 1)
<1> DEFINE n == Len(q) + 1
           c == o + 1
           e == [id |-> n, order |-> c, volume |-> Volume, filled |-> 0, age |-> 0,
                 retry |-> 0]
           w == Append(q, Asked(c, Volume))
           r == Append(p, e)
<1>1. /\ o \in Nat /\ q \in Seq(RequestsOf(o)) /\ Sound(q) /\ c \in Nat \ {0}
      /\ p \in Seq(EntriesOf(Len(q), o)) /\ Len(q) \in Nat
      /\ c \in 0..MaxOrders
  BY VolumeType DEF Steady
<1>2. /\ Len(w) = n /\ DOMAIN w = DOMAIN q \union {n} /\ n \notin DOMAIN q
      /\ w \in Seq(RequestsOf(c)) /\ Sound(w)
      /\ w[n] = Asked(c, Volume) /\ \A x \in DOMAIN q : w[x] = q[x]
      /\ SentFor(w, c) = SentFor(q, c) \union {n}
      /\ \A d : d # c => SentFor(w, d) = SentFor(q, d)
      /\ Use(w)[n] = Volume
      /\ \A S : S \subseteq DOMAIN q => Total(Use(w), S) = Total(Use(q), S)
  BY <1>1, RequestAdded, VolumeType
<1>3. SentFor(q, c) = {}
  <2>1. \A x \in DOMAIN q : q[x].order \in 1..o
    BY <1>1, RequestTypes
  <2> QED BY <1>1, <2>1 DEF SentFor
<1>4. /\ e.id = n /\ e.order = c /\ e.filled = 0 /\ e.retry = 0
      /\ e \in EntriesOf(n, c)
  BY <1>1, VolumeType DEF EntriesOf
<1> HIDE DEF w, e
<1>5. /\ Cardinality(SentFor(w, c)) = 1
      /\ Total(Use(w), SentFor(w, c) \ {n}) = 0
      /\ Total(Use(w), SentFor(w, c)) = Volume
  <2>1. SentFor(w, c) = {n} /\ {n} \ {n} = {} /\ IsFiniteSet({n}) /\ Cardinality({n}) = 1
    BY <1>2, <1>3, FS_Singleton
  <2>2. Total(Use(w), {n} \ {n}) = 0
    BY <2>1, TotalEmpty
  <2>3. Total(Use(w), {n}) = Use(w)[n] + Total(Use(w), {n} \ {n})
    BY <1>2, <2>1, VolumeType, TotalSplit
  <2>4. Total(Use(w), {n}) = Volume
    BY <1>2, <2>2, <2>3, VolumeType
  <2> QED BY <2>1, <2>2, <2>4
<1>6. Fits(e, w)
  BY <1>2, <1>4, <1>5, VolumeType DEF Fits, Asked
<1>7. ASSUME NEW i \in DOMAIN p PROVE Fits(p[i], w) /\ p[i].order # c
  <2>1. p[i].order \in 1..o /\ p[i].id \in DOMAIN q /\ Fits(p[i], q)
    BY <1>1, EntryTypes DEF Steady
  <2>2. p[i].order # c /\ SentFor(q, p[i].order) \subseteq DOMAIN q
    BY <1>1, <2>1 DEF SentFor
  <2> QED BY <1>2, <2>1, <2>2 DEF Fits
<1>8. ASSUME NEW d \in 1..c PROVE Within(w, d)
  <2>1. CASE d = c
    BY <1>5, <2>1, VolumeType DEF Within
  <2>2. CASE d # c
    <3>1. d \in 1..o /\ SentFor(q, d) \subseteq DOMAIN q
      BY <1>1, <2>2 DEF SentFor
    <3>2. Within(q, d)
      BY <3>1 DEF Steady
    <3> QED BY <1>2, <2>2, <3>1, <3>2 DEF Within
  <2> QED BY <2>1, <2>2
<1>9. p \in Seq(EntriesOf(n, c))
  <2>1. EntriesOf(Len(q), o) \subseteq EntriesOf(n, c)
    BY <1>1 DEF EntriesOf
  <2> QED BY <1>1, <2>1
<1>10. /\ r \in Seq(EntriesOf(n, c)) /\ Len(p) \in Nat
       /\ DOMAIN p = 1..Len(p) /\ DOMAIN r = 1..(Len(p) + 1)
       /\ r[Len(p) + 1] = e /\ \A i \in 1..Len(p) : r[i] = p[i]
  BY <1>4, <1>9
<1> HIDE DEF r
<1>11. \A i \in DOMAIN r : Fits(r[i], w)
  BY <1>6, <1>7, <1>10
<1>12. \A i, j \in DOMAIN r : r[i].order = r[j].order => i = j
  <2>1. \A i, j \in 1..Len(p) : r[i].order = r[j].order => i = j
    BY <1>10 DEF Steady
  <2>2. \A i \in 1..Len(p) : r[i].order # r[Len(p) + 1].order
    BY <1>4, <1>7, <1>10
  <2> QED BY <1>10, <2>1, <2>2
<1> HIDE DEF n, c
<1>13. Steady(r, w, c)
  BY <1>1, <1>2, <1>8, <1>10, <1>11, <1>12 DEF Steady
<1> QED BY <1>13 DEF r, w, e, n, c

\* An entry under the number of another request, one retry later.
LEMMA Renewed ==
    ASSUME NEW n, NEW o, NEW e \in EntriesOf(n, o), NEW k
    PROVE  [e EXCEPT !.id = k, !.age = 0, !.retry = @ + 1] =
               [id |-> k, order |-> e.order, volume |-> Volume, filled |-> e.filled,
                age |-> 0, retry |-> e.retry + 1]
<1> DEFINE a == [e EXCEPT !.id = k]
           b == [a EXCEPT !.age = 0]
<1>1. [e EXCEPT !.id = k, !.age = 0, !.retry = @ + 1] = [b EXCEPT !.retry = e.retry + 1]
  BY DEF EntriesOf
<1>2. a = [id |-> k, order |-> e.order, volume |-> Volume, filled |-> e.filled,
           age |-> e.age, retry |-> e.retry]
  BY DEF EntriesOf
<1> HIDE DEF a
<1>3. b = [id |-> k, order |-> e.order, volume |-> Volume, filled |-> e.filled,
           age |-> 0, retry |-> e.retry]
  BY <1>2
<1> HIDE DEF b
<1> QED BY <1>1, <1>3

\* _retry sends an entry that was removed again.
LEMMA ResentSteady ==
    ASSUME NEW p, NEW q, NEW o, Steady(p, q, o), NEW e \in EntriesOf(Len(q), o),
           \A i \in DOMAIN p : p[i].order # e.order,
           e.retry < MaxRetries, e.filled < Volume,
           Cardinality(SentFor(q, e.order)) = 1 + e.retry,
           Total(Use(q), SentFor(q, e.order)) <= e.filled
    PROVE  LET n == Len(q) + 1
           IN  Steady(Append(p, [e EXCEPT !.id = n, !.age = 0, !.retry = @ + 1]),
                      Append(q, Asked(e.order, e.volume - e.filled)), o)
<1> DEFINE n == Len(q) + 1
           c == e.order
           v == Volume - e.filled
           S == SentFor(q, c)
           f == [e EXCEPT !.id = n, !.age = 0, !.retry = @ + 1]
           w == Append(q, Asked(c, v))
           r == Append(p, f)
<1>1. /\ o \in Nat /\ q \in Seq(RequestsOf(o)) /\ Sound(q) /\ Len(q) \in Nat
      /\ p \in Seq(EntriesOf(Len(q), o))
      /\ c \in 1..o /\ e.volume = Volume /\ e.filled \in 0..Volume /\ e.retry \in 0..MaxRetries
  BY VolumeType DEF Steady, EntriesOf
<1>2. v \in 1..Volume /\ c \in Nat \ {0} /\ c <= o
  BY <1>1, VolumeType
<1>3. /\ f.id = n /\ f.order = c /\ f.filled = e.filled /\ f.retry = e.retry + 1
      /\ f \in EntriesOf(n, o)
  <2>1. f = [id |-> n, order |-> c, volume |-> Volume, filled |-> e.filled, age |-> 0,
             retry |-> e.retry + 1]
    <3> HIDE DEF n, c
    <3>1. f = [id |-> n, order |-> e.order, volume |-> Volume, filled |-> e.filled,
               age |-> 0, retry |-> e.retry + 1]
      BY Renewed, Zenon
    <3> QED BY <3>1 DEF c
  <2>2. e.retry + 1 \in 0..MaxRetries /\ n \in 1..n /\ 0 \in 0..StaleAge + 1
    BY <1>1, VolumeType
  <2> HIDE DEF f, n, c
  <2> QED BY <1>1, <2>1, <2>2 DEF EntriesOf
<1>4. /\ Len(w) = n /\ DOMAIN w = DOMAIN q \union {n} /\ n \notin DOMAIN q
      /\ w \in Seq(RequestsOf(o)) /\ Sound(w)
      /\ w[n] = Asked(c, v) /\ \A x \in DOMAIN q : w[x] = q[x]
      /\ SentFor(w, c) = S \union {n}
      /\ \A d : d # c => SentFor(w, d) = SentFor(q, d)
      /\ Use(w)[n] = v
      /\ \A R : R \subseteq DOMAIN q => Total(Use(w), R) = Total(Use(q), R)
  BY <1>1, <1>2, RequestAdded
<1>5. S \subseteq DOMAIN q /\ IsFiniteSet(S) /\ n \notin S /\ Total(Use(q), S) \in Int
  <2>1. S \subseteq DOMAIN q
    BY DEF SentFor
  <2> HIDE DEF S
  <2> QED BY <1>1, <1>4, <2>1, UseType
<1>6. Cardinality(S) = 1 + e.retry /\ Total(Use(q), S) <= e.filled
  OBVIOUS
<1> HIDE DEF w, f, S
<1>7. /\ Cardinality(S \union {n}) = 2 + e.retry
      /\ (S \union {n}) \ {n} = S
      /\ Total(Use(w), S) = Total(Use(q), S)
      /\ Total(Use(w), S \union {n}) = v + Total(Use(q), S)
  <2>1. (S \union {n}) \ {n} = S
    BY <1>5
  <2>2. Cardinality(S \union {n}) = 2 + e.retry /\ IsFiniteSet(S \union {n})
    <3>1. Cardinality(S \union {n}) = Cardinality(S) + 1 /\ IsFiniteSet(S \union {n})
      BY <1>5, FS_AddElement
    <3> QED BY <1>1, <1>6, <3>1
  <2>3. \A x \in S \union {n} : Use(w)[x] \in Int
    BY <1>1, <1>4, <1>5, UseType
  <2>4. Total(Use(w), S \union {n}) = Use(w)[n] + Total(Use(w), (S \union {n}) \ {n})
    BY <2>2, <2>3, TotalSplit
  <2> QED BY <1>4, <1>5, <2>1, <2>2, <2>4
<1>8. Fits(f, w)
  <2>1. w[n].order = c /\ w[n].ask = v
    BY <1>4 DEF Asked
  <2>2. Cardinality(SentFor(w, c)) = 1 + (e.retry + 1)
    BY <1>1, <1>4, <1>7
  <2>3. Total(Use(w), SentFor(w, c) \ {n}) <= e.filled
    BY <1>4, <1>6, <1>7
  <2> HIDE DEF n, c, v
  <2>4. w[n].ask = Volume - e.filled
    BY <2>1 DEF v
  <2> QED BY <1>3, <2>1, <2>2, <2>3, <2>4 DEF Fits
<1>9. Within(w, c)
  <2>1. Cardinality(SentFor(w, c)) <= 1 + MaxRetries
    BY <1>1, <1>4, <1>7, VolumeType
  <2>2. v + Total(Use(q), S) <= Volume
    BY <1>1, <1>5, <1>6, VolumeType
  <2> HIDE DEF v
  <2>3. Total(Use(w), SentFor(w, c)) <= Volume
    BY <1>4, <1>7, <2>2
  <2> QED BY <2>1, <2>3 DEF Within
<1>10. ASSUME NEW d \in 1..o PROVE Within(w, d)
  <2>1. CASE d = c
    BY <1>9, <2>1
  <2>2. CASE d # c
    <3>1. SentFor(q, d) \subseteq DOMAIN q /\ Within(q, d)
      BY DEF SentFor, Steady
    <3> QED BY <1>4, <2>2, <3>1 DEF Within
  <2> QED BY <2>1, <2>2
<1>11. ASSUME NEW i \in DOMAIN p PROVE Fits(p[i], w) /\ p[i].order # c
  <2>1. p[i].id \in DOMAIN q /\ Fits(p[i], q) /\ p[i].order # c
    BY <1>1, EntryTypes DEF Steady
  <2>2. SentFor(q, p[i].order) \subseteq DOMAIN q
    BY DEF SentFor
  <2> QED BY <1>4, <2>1, <2>2 DEF Fits
<1>12. p \in Seq(EntriesOf(n, o))
  <2>1. EntriesOf(Len(q), o) \subseteq EntriesOf(n, o)
    BY <1>1 DEF EntriesOf
  <2> QED BY <1>1, <2>1
<1>13. /\ r \in Seq(EntriesOf(n, o)) /\ Len(p) \in Nat
       /\ DOMAIN p = 1..Len(p) /\ DOMAIN r = 1..(Len(p) + 1)
       /\ r[Len(p) + 1] = f /\ \A i \in 1..Len(p) : r[i] = p[i]
  BY <1>3, <1>12
<1> HIDE DEF r
<1>14. \A i \in DOMAIN r : Fits(r[i], w)
  BY <1>8, <1>11, <1>13
<1>15. \A i, j \in DOMAIN r : r[i].order = r[j].order => i = j
  <2>1. \A i, j \in 1..Len(p) : r[i].order = r[j].order => i = j
    BY <1>13 DEF Steady
  <2>2. \A i \in 1..Len(p) : r[i].order # r[Len(p) + 1].order
    BY <1>3, <1>11, <1>13
  <2> QED BY <1>13, <2>1, <2>2
<1> HIDE DEF n, c
<1>16. Steady(r, w, o)
  BY <1>4, <1>10, <1>13, <1>14, <1>15 DEF Steady
<1> QED BY <1>1, <1>16 DEF r, w, f, n, c

\* The broker changes what it knows of a request, which takes no more of its order.
LEMMA RequestSteady ==
    ASSUME NEW p, NEW q, NEW o, Steady(p, q, o), NEW w \in Seq(RequestsOf(o)),
           Len(w) = Len(q), Sound(w),
           \A r \in DOMAIN q : /\ w[r].order = q[r].order /\ w[r].ask = q[r].ask
                               /\ Use(w)[r] <= Use(q)[r]
    PROVE  Steady(p, w, o)
<1>1. /\ o \in Nat /\ q \in Seq(RequestsOf(o)) /\ Sound(q)
      /\ p \in Seq(EntriesOf(Len(q), o)) /\ DOMAIN w = DOMAIN q
      /\ DOMAIN q = 1..Len(q)
  BY VolumeType DEF Steady
<1>2. \A d : SentFor(w, d) = SentFor(q, d)
  BY <1>1 DEF SentFor
<1>3. ASSUME NEW S, S \subseteq DOMAIN q
      PROVE  /\ Total(Use(w), S) <= Total(Use(q), S)
             /\ Total(Use(w), S) \in Int /\ Total(Use(q), S) \in Int
  <2>1. /\ IsFiniteSet(S) /\ Total(Use(w), S) \in Int /\ Total(Use(q), S) \in Int
        /\ \A x \in S : Use(w)[x] \in Int /\ Use(q)[x] \in Int
    BY <1>1, <1>3, UseType
  <2> QED BY <1>3, <2>1, TotalLeq
<1>4. ASSUME NEW d \in 1..o PROVE Within(w, d)
  <2>1. SentFor(q, d) \subseteq DOMAIN q /\ Within(q, d)
    BY DEF SentFor, Steady
  <2>2. Total(Use(w), SentFor(q, d)) <= Volume
    BY <1>3, <2>1, VolumeType DEF Within
  <2> QED BY <1>2, <2>1, <2>2 DEF Within
<1>5. ASSUME NEW i \in DOMAIN p PROVE Fits(p[i], w)
  <2> DEFINE S == SentFor(q, p[i].order) \ {p[i].id}
  <2>1. p[i].id \in DOMAIN q /\ Fits(p[i], q) /\ p[i].filled \in Int
    BY <1>1, EntryTypes DEF Steady
  <2>2. S \subseteq DOMAIN q
    BY DEF SentFor
  <2>3. Total(Use(q), S) <= p[i].filled
    BY <2>1 DEF Fits
  <2> HIDE DEF S
  <2>4. Total(Use(w), S) <= p[i].filled
    BY <1>3, <2>1, <2>2, <2>3
  <2> QED BY <1>2, <2>1, <2>4 DEF Fits, S
<1> QED BY <1>1, <1>4, <1>5 DEF Steady

-----------------------------------------------------------------------------
(* The two handlers that walk: CleanupStale over the entries, CloseAllAsync  *)
(* over the positions.                                                       *)

SweepStep(n, i) ==
    IF Stale(n.pending[i])
    THEN [n EXCEPT !.pending = Removed(@, i), !.stats.stale = @ + 1]
    ELSE n

Step(walk, n, i) == IF walk = "sweep" THEN SweepStep(n, i) ELSE Sent(n)

\* g maps every set of steps to the state after them.
IsWalk(g, walk, m, path) ==
    g = [s \in SUBSET DOMAIN path |->
            IF s = {} THEN m ELSE Step(walk, g[s \ {Max(s)}], path[Max(s)])]

After(walk, m, path) == (CHOOSE g : IsWalk(g, walk, m, path))[DOMAIN path]

LEMMA SweptIs == \A m : Swept(m) = After("sweep", m, Downwards(m.pending))
  BY DEF Swept, FoldLeft, MapThenFoldSet, After, IsWalk, Step, SweepStep

LEMMA ClosedIs ==
    \A m, path : FoldLeft(LAMBDA n, k : Sent(n), m, path) = After("close", m, path)
  BY DEF FoldLeft, MapThenFoldSet, After, IsWalk, Step

LEMMA GreatestNumber ==
    ASSUME NEW n \in Nat, NEW s \in SUBSET (1..n), s # {}
    PROVE  Max(s) \in s /\ \A k \in s : k <= Max(s)
<1> DEFINE T == {n - k : k \in s}
<1>1. T \in SUBSET Nat /\ T # {}
  <2>1. PICK k \in s : TRUE
    OBVIOUS
  <2>2. n - k \in T
    BY <2>1
  <2> QED BY <2>2
<1>2. PICK d \in T : \A e \in T : d <= e
  BY <1>1, LeastNumber
<1>3. PICK k \in s : d = n - k
  BY <1>2
<1>4. \A j \in s : k >= j
  <2> SUFFICES ASSUME NEW j \in s PROVE k >= j
    OBVIOUS
  <2>1. n - j \in T
    OBVIOUS
  <2>2. n - k <= n - j
    BY <1>2, <1>3, <2>1
  <2> QED BY <2>2
<1>5. Max(s) \in s /\ \A j \in s : Max(s) >= j
  BY <1>3, <1>4, Zenon DEF Max
<1> QED BY <1>5

\* The states between n steps.
Passes(t, walk, m, n, path) ==
    /\ t[0] = m
    /\ \A k \in 1..n : t[k] = Step(walk, t[k - 1], path[k])
    /\ t[n] = After(walk, m, path)

\* A walk takes its steps one after the other.
LEMMA Walked ==
    ASSUME NEW walk, NEW m, NEW n \in Nat, NEW path, DOMAIN path = 1..n
    PROVE  \E t : Passes(t, walk, m, n, path)
<1> DEFINE Rule(g, s) == IF s = {} THEN m ELSE Step(walk, g[s \ {Max(s)}], path[Max(s)])
           UpTo(k) == \E g : \A s \in SUBSET (1..n) : s \subseteq 1..k => g[s] = Rule(g, s)
           T == {k \in Nat : UpTo(k)}
<1>1. UpTo(0)
  <2> DEFINE g == [s \in SUBSET (1..n) |-> m]
  <2>1. \A s \in SUBSET (1..n) : s \subseteq 1..0 => s = {} /\ g[s] = m
    OBVIOUS
  <2> QED BY <2>1
<1>2. ASSUME NEW k \in Nat, UpTo(k) PROVE UpTo(k + 1)
  <2>1. PICK g : \A s \in SUBSET (1..n) : s \subseteq 1..k => g[s] = Rule(g, s)
    BY <1>2
  <2> DEFINE h == [s \in SUBSET (1..n) |-> IF s \subseteq 1..k THEN g[s] ELSE Rule(g, s)]
  <2>2. ASSUME NEW s \in SUBSET (1..n), s \subseteq 1..(k + 1) PROVE h[s] = Rule(h, s)
    <3>1. h[s] = Rule(g, s)
      BY <2>1
    <3>2. s # {} => h[s \ {Max(s)}] = g[s \ {Max(s)}]
      <4> SUFFICES ASSUME s # {} PROVE s \ {Max(s)} \subseteq 1..k
        OBVIOUS
      <4>1. Max(s) \in s /\ \A j \in s : j <= Max(s)
        BY GreatestNumber
      <4> SUFFICES ASSUME NEW j \in s, j # Max(s) PROVE j \in 1..k
        OBVIOUS
      <4>2. j \in 1..(k + 1) /\ Max(s) \in 1..(k + 1) /\ j <= Max(s)
        BY <2>2, <4>1
      <4> QED BY <4>2
    <3> QED BY <3>1, <3>2
  <2> QED BY <2>2
<1>3. T = Nat
  <2> HIDE DEF UpTo
  <2>1. 0 \in T /\ \A k \in T : k + 1 \in T
    BY <1>1, <1>2
  <2>2. T \in SUBSET Nat
    OBVIOUS
  <2> HIDE DEF T
  <2> QED BY <2>1, <2>2, Induction
<1>4. PICK h : \A s \in SUBSET (1..n) : s \subseteq 1..n => h[s] = Rule(h, s)
  BY <1>3
<1>5. \E g : IsWalk(g, walk, m, path)
  <2> DEFINE g == [s \in SUBSET (1..n) |-> h[s]]
  <2>1. ASSUME NEW s \in SUBSET (1..n) PROVE g[s] = Rule(g, s)
    BY <1>4
  <2>2. g = [s \in SUBSET (1..n) |-> Rule(g, s)]
    BY <2>1
  <2> HIDE DEF g
  <2> QED BY <2>2 DEF IsWalk
<1> DEFINE g == CHOOSE g : IsWalk(g, walk, m, path)
           t == [k \in 0..n |-> g[1..k]]
<1>6. IsWalk(g, walk, m, path)
  BY <1>5
<1> HIDE DEF g
<1>7. \A s \in SUBSET (1..n) : g[s] = Rule(g, s)
  BY <1>6, Zenon DEF IsWalk
<1>8. t[0] = m
  <2>1. 1..0 = {} /\ {} \in SUBSET (1..n) /\ t[0] = g[1..0]
    OBVIOUS
  <2> QED BY <1>7, <2>1
<1>9. ASSUME NEW k \in 1..n PROVE t[k] = Step(walk, t[k - 1], path[k])
  <2>1. /\ k \in Nat /\ 1..k \in SUBSET (1..n) /\ 1..k # {} /\ k \in 1..k
        /\ (1..k) \ {k} = 1..(k - 1)
    OBVIOUS
  <2>2. Max(1..k) \in 1..k /\ k <= Max(1..k)
    BY <2>1, GreatestNumber
  <2>3. Max(1..k) = k
    BY <2>2
  <2>4. t[k] = g[1..k] /\ t[k - 1] = g[1..(k - 1)]
    OBVIOUS
  <2> HIDE DEF t
  <2> QED BY <1>7, <2>1, <2>3, <2>4
<1>10. t[n] = After(walk, m, path)
  BY DEF After, g
<1> HIDE DEF t
<1>11. Passes(t, walk, m, n, path)
  BY <1>8, <1>9, <1>10, Zenon DEF Passes
<1> QED BY <1>11

-----------------------------------------------------------------------------
(* The handlers, as they change the state of the manager                     *)

Managed(m) ==
    /\ m = [pending |-> m.pending, stats |-> m.stats, req |-> m.req, orders |-> m.orders]
    /\ Steady(m.pending, m.req, m.orders)
    /\ Tallied(m.pending, m.stats)

\* Requests are only added.
Longer(q, w) == Len(q) <= Len(w) /\ \A r \in DOMAIN q : r \in DOMAIN w /\ w[r] = q[r]

LEMMA StatCounted ==
    ASSUME NEW s \in [DOMAIN ZeroStats -> Nat], NEW f \in DOMAIN ZeroStats,
           NEW t, t = [s EXCEPT ![f] = @ + 1]
    PROVE  /\ t \in [DOMAIN ZeroStats -> Nat]
           /\ t[f] = s[f] + 1 /\ \A g \in DOMAIN ZeroStats : g # f => t[g] = s[g]
  OBVIOUS

LEMMA StatNames == DOMAIN ZeroStats = {"sent", "reconciled", "rejected", "partial", "stale",
                                       "retried"}
  BY DEF ZeroStats

\* The places that CleanupStale has left behind it hold no stale entry.
CleanAbove(i, p) == \A j \in DOMAIN p : j > i => ~Stale(p[j])

LEMMA RemovedClean ==
    ASSUME NEW E, NEW p \in Seq(E), NEW i \in 1..Len(p)
    PROVE  /\ \A j \in DOMAIN Removed(p, i) : \E k \in DOMAIN p : Removed(p, i)[j] = p[k]
           /\ CleanAbove(i, p) => CleanAbove(i - 1, Removed(p, i))
<1> DEFINE r == Removed(p, i)
<1>1. /\ DOMAIN p = 1..Len(p) /\ Len(p) \in Nat /\ DOMAIN r = 1..(Len(p) - 1)
      /\ \A k \in 1..(Len(p) - 1) : r[k] = p[IF k = i THEN Len(p) ELSE k]
  BY RemovedIs
<1> HIDE DEF r
<1> QED BY <1>1 DEF CleanAbove, r

\* One place of CleanupStale: a stale entry is counted and removed, the entries that are
\* not stale stay, and no other entry comes.  Nor does a stale one come into its place,
\* as it is the last entry that moves there.
LEMMA SweepStepManaged ==
    ASSUME NEW m, Managed(m), NEW i \in 1..Len(m.pending)
    PROVE  LET n == SweepStep(m, i)
           IN  /\ Managed(n) /\ n.req = m.req /\ n.orders = m.orders
               /\ Len(n.pending) >= Len(m.pending) - 1
               /\ \A j \in DOMAIN m.pending :
                      ~Stale(m.pending[j]) =>
                          \E k \in DOMAIN n.pending : n.pending[k] = m.pending[j]
               /\ \A j \in DOMAIN n.pending :
                      \E k \in DOMAIN m.pending : n.pending[j] = m.pending[k]
               /\ CleanAbove(i, m.pending) => CleanAbove(i - 1, n.pending)
<1> DEFINE n == SweepStep(m, i)
           p == m.pending
<1>1. p \in Seq(EntriesOf(Len(m.req), m.orders)) /\ DOMAIN p = 1..Len(p) /\ Len(p) \in Nat
  BY DEF Managed, Steady
<1>2. CASE ~Stale(p[i])
  <2>1. n = m
    BY <1>2 DEF SweepStep
  <2>2. CleanAbove(i, p) => CleanAbove(i - 1, p)
    BY <1>1, <1>2 DEF CleanAbove
  <2> QED BY <1>1, <2>1, <2>2
<1>3. CASE Stale(p[i])
  <2> DEFINE s == [m.stats EXCEPT !.stale = @ + 1]
             r == Removed(p, i)
  <2>1. n = [m EXCEPT !.pending = r, !.stats = s]
    BY <1>3, Zenon DEF SweepStep
  <2>2. /\ s \in [DOMAIN ZeroStats -> Nat] /\ s.stale = m.stats.stale + 1
        /\ s.sent = m.stats.sent /\ s.reconciled = m.stats.reconciled
        /\ s.rejected = m.stats.rejected
    BY StatCounted, StatNames DEF Managed, Tallied
  <2>3. /\ Steady(r, m.req, m.orders) /\ Len(r) = Len(p) - 1
        /\ \A j \in DOMAIN p : j # i => \E k \in DOMAIN r : r[k] = p[j]
    BY <1>1, RemovedSteady DEF Managed
  <2> HIDE DEF n, r, s
  <2>4. n = [pending |-> r, stats |-> s, req |-> m.req, orders |-> m.orders]
    BY <2>1 DEF Managed
  <2>5. Tallied(r, s)
    BY <1>1, <2>2, <2>3, StatNames DEF Managed, Tallied
  <2>6. Managed(n)
    BY <2>3, <2>4, <2>5 DEF Managed
  <2>7. \A j \in DOMAIN p : ~Stale(p[j]) => \E k \in DOMAIN r : r[k] = p[j]
    BY <1>3, <2>3
  <2>8. /\ \A j \in DOMAIN r : \E k \in DOMAIN p : r[j] = p[k]
        /\ CleanAbove(i, p) => CleanAbove(i - 1, r)
    BY <1>1, RemovedClean DEF r
  <2> QED BY <1>1, <2>3, <2>4, <2>6, <2>7, <2>8 DEF n
<1> QED BY <1>2, <1>3

\* CleanupStale visits no place that a removal has emptied, and removes all stale entries
\* and no others.
LEMMA SweptManaged ==
    ASSUME NEW m, Managed(m)
    PROVE  /\ Managed(Swept(m)) /\ Swept(m).req = m.req /\ Swept(m).orders = m.orders
           /\ \A j \in DOMAIN m.pending :
                  ~Stale(m.pending[j]) =>
                      \E k \in DOMAIN Swept(m).pending : Swept(m).pending[k] = m.pending[j]
           /\ \A j \in DOMAIN Swept(m).pending :
                  /\ \E k \in DOMAIN m.pending : Swept(m).pending[j] = m.pending[k]
                  /\ ~Stale(Swept(m).pending[j])
<1> DEFINE p == m.pending
           l == Len(p)
           path == Downwards(p)
<1>1. l \in Nat /\ DOMAIN p = 1..l
  BY DEF Managed, Steady
<1>2. DOMAIN path = 1..l /\ \A k \in 1..l : path[k] = l + 1 - k
  BY <1>1 DEF Downwards
<1> HIDE DEF path, l
<1>3. PICK t : Passes(t, "sweep", m, l, path)
  BY <1>1, <1>2, Walked
<1> DEFINE Ok(k) == /\ Managed(t[k]) /\ t[k].req = m.req /\ t[k].orders = m.orders
                    /\ Len(t[k].pending) >= l - k
                    /\ \A j \in DOMAIN p :
                           ~Stale(p[j]) => \E i \in DOMAIN t[k].pending : t[k].pending[i] = p[j]
                    /\ \A j \in DOMAIN t[k].pending : \E i \in DOMAIN p : t[k].pending[j] = p[i]
                    /\ CleanAbove(l - k, t[k].pending)
           T == {k \in Nat : k <= l => Ok(k)}
<1>4. Ok(0)
  <2>1. t[0] = m
    BY <1>3 DEF Passes
  <2>2. CleanAbove(l - 0, p)
    BY <1>1 DEF CleanAbove
  <2> QED BY <1>1, <2>1, <2>2 DEF l
<1>5. ASSUME NEW k \in Nat, k + 1 <= l, Ok(k) PROVE Ok(k + 1)
  <2> DEFINE i == l - k
             n == t[k]
  <2>1. t[k + 1] = SweepStep(n, i)
    <3>1. k + 1 \in 1..l /\ (k + 1) - 1 = k /\ path[k + 1] = i
      BY <1>1, <1>2, <1>5
    <3> QED BY <1>3, <3>1 DEF Step, Passes
  <2>2. Managed(n) /\ Len(n.pending) \in Nat /\ i \in 1..Len(n.pending)
    BY <1>1, <1>5 DEF Managed, Steady
  <2> HIDE DEF n, i
  <2>3. /\ Managed(t[k + 1]) /\ t[k + 1].req = n.req /\ t[k + 1].orders = n.orders
        /\ Len(t[k + 1].pending) >= Len(n.pending) - 1
        /\ \A j \in DOMAIN n.pending :
               ~Stale(n.pending[j]) =>
                   \E x \in DOMAIN t[k + 1].pending : t[k + 1].pending[x] = n.pending[j]
        /\ \A j \in DOMAIN t[k + 1].pending :
               \E x \in DOMAIN n.pending : t[k + 1].pending[j] = n.pending[x]
        /\ CleanAbove(i, n.pending) => CleanAbove(i - 1, t[k + 1].pending)
    BY <2>1, <2>2, SweepStepManaged
  <2>4. Len(t[k + 1].pending) >= l - (k + 1)
    <3>1. Len(t[k + 1].pending) \in Nat
      BY <2>3 DEF Managed, Steady
    <3>2. Len(n.pending) >= l - k
      BY <1>5 DEF n
    <3> QED BY <1>1, <2>2, <2>3, <3>1, <3>2
  <2>5. ASSUME NEW j \in DOMAIN p, ~Stale(p[j])
        PROVE  \E x \in DOMAIN t[k + 1].pending : t[k + 1].pending[x] = p[j]
    <3>1. PICK x \in DOMAIN n.pending : n.pending[x] = p[j]
      BY <1>5, <2>5 DEF n
    <3> QED BY <2>3, <2>5, <3>1
  <2>6. ASSUME NEW j \in DOMAIN t[k + 1].pending
        PROVE  \E x \in DOMAIN p : t[k + 1].pending[j] = p[x]
    <3>1. PICK x \in DOMAIN n.pending : t[k + 1].pending[j] = n.pending[x]
      BY <2>3
    <3> QED BY <1>5, <3>1 DEF n
  <2>7. CleanAbove(l - (k + 1), t[k + 1].pending)
    <3>1. i - 1 = l - (k + 1)
      BY <1>1 DEF i
    <3>2. CleanAbove(i, n.pending)
      BY <1>5 DEF n, i
    <3> QED BY <2>3, <3>1, <3>2
  <2> QED BY <1>5, <2>3, <2>4, <2>5, <2>6, <2>7 DEF n
<1> HIDE DEF Ok
<1>6. T = Nat
  <2>1. 0 \in T /\ \A k \in T : k + 1 \in T
    BY <1>1, <1>4, <1>5
  <2>2. T \in SUBSET Nat
    OBVIOUS
  <2> HIDE DEF T
  <2> QED BY <2>1, <2>2, Induction
<1>7. Ok(l)
  BY <1>1, <1>6
<1>8. Swept(m) = t[l]
  BY <1>3, SweptIs, Zenon DEF path, Passes
<1>9. \A j \in DOMAIN t[l].pending : ~Stale(t[l].pending[j])
  <2>1. CleanAbove(l - l, t[l].pending) /\ DOMAIN t[l].pending = 1..Len(t[l].pending)
    BY <1>7 DEF Ok, Managed, Steady
  <2> QED BY <1>1, <2>1 DEF CleanAbove
<1> QED BY <1>7, <1>8, <1>9 DEF Ok

\* A new order.
LEMMA SentManaged ==
    ASSUME NEW m, Managed(m), m.orders < MaxOrders
    PROVE  /\ Managed(Sent(m)) /\ Sent(m).orders = m.orders + 1 /\ Longer(m.req, Sent(m).req)
           /\ \A j \in DOMAIN m.pending :
                  j \in DOMAIN Sent(m).pending /\ Sent(m).pending[j] = m.pending[j]
<1> DEFINE e == [id |-> Len(m.req) + 1, order |-> m.orders + 1, volume |-> Volume,
                 filled |-> 0, age |-> 0, retry |-> 0]
           r == Append(m.pending, e)
           q == Append(m.req, Asked(m.orders + 1, Volume))
           s == [m.stats EXCEPT !.sent = @ + 1]
<1>1. Sent(m) = [pending |-> r, stats |-> s, req |-> q, orders |-> m.orders + 1]
  BY Zenon DEF Sent
<1>2. Steady(r, q, m.orders + 1)
  BY SentSteady DEF Managed
<1>3. /\ s \in [DOMAIN ZeroStats -> Nat] /\ s.sent = m.stats.sent + 1
      /\ s.stale = m.stats.stale /\ s.reconciled = m.stats.reconciled
      /\ s.rejected = m.stats.rejected
  BY StatCounted, StatNames DEF Managed, Tallied
<1>4. /\ m.pending \in Seq(EntriesOf(Len(m.req), m.orders)) /\ Len(m.pending) \in Nat
      /\ Len(r) = Len(m.pending) + 1
      /\ \A j \in DOMAIN m.pending : j \in DOMAIN r /\ r[j] = m.pending[j]
  BY DEF Managed, Steady
<1>5. Longer(m.req, q)
  <2>1. m.req \in Seq(RequestsOf(m.orders))
    BY DEF Managed, Steady
  <2> QED BY <2>1 DEF Longer
<1> HIDE DEF r, q, s
<1>6. Tallied(r, s)
  BY <1>3, <1>4, StatNames DEF Managed, Tallied
<1> QED BY <1>1, <1>2, <1>4, <1>5, <1>6 DEF Managed

\* CloseAllAsync: as many orders more as positions are closed.
LEMMA ClosedManaged ==
    ASSUME NEW m, Managed(m), NEW n \in Nat, m.orders + n <= MaxOrders,
           NEW u, u = After("close", m, [k \in 1..n |-> k])
    PROVE  /\ Managed(u) /\ Longer(m.req, u.req)
           /\ \A j \in DOMAIN m.pending :
                  j \in DOMAIN u.pending /\ u.pending[j] = m.pending[j]
<1> DEFINE path == [k \in 1..n |-> k]
<1>0. DOMAIN path = 1..n /\ u = After("close", m, path)
  OBVIOUS
<1> HIDE DEF path
<1>1. m.orders \in Nat
  BY VolumeType DEF Managed, Steady
<1>2. PICK t : Passes(t, "close", m, n, path)
  BY <1>0, Walked
<1> DEFINE Ok(k) == /\ Managed(t[k]) /\ t[k].orders = m.orders + k /\ Longer(m.req, t[k].req)
                    /\ \A j \in DOMAIN m.pending :
                           j \in DOMAIN t[k].pending /\ t[k].pending[j] = m.pending[j]
           T == {k \in Nat : k <= n => Ok(k)}
<1>3. Ok(0)
  <2>1. m.req \in Seq(RequestsOf(m.orders)) /\ Longer(m.req, m.req)
    BY DEF Managed, Steady, Longer
  <2> QED BY <1>1, <1>2, <2>1 DEF Passes
<1>4. ASSUME NEW k \in Nat, k + 1 <= n, Ok(k) PROVE Ok(k + 1)
  <2>1. t[k + 1] = Sent(t[k])
    <3>1. k + 1 \in 1..n /\ (k + 1) - 1 = k
      BY <1>4
    <3> QED BY <1>2, <3>1 DEF Step, Passes
  <2>2. t[k].orders < MaxOrders
    BY <1>1, <1>4, VolumeType
  <2>3. /\ Managed(t[k + 1]) /\ t[k + 1].orders = t[k].orders + 1
        /\ Longer(t[k].req, t[k + 1].req)
        /\ \A j \in DOMAIN t[k].pending :
               j \in DOMAIN t[k + 1].pending /\ t[k + 1].pending[j] = t[k].pending[j]
    BY <1>4, <2>1, <2>2, SentManaged
  <2>4. Longer(m.req, t[k + 1].req)
    <3>1. {Len(m.req), Len(t[k].req), Len(t[k + 1].req)} \subseteq Nat
      BY <1>4, <2>3 DEF Managed, Steady
    <3> QED BY <1>4, <2>3, <3>1 DEF Longer
  <2> QED BY <1>1, <1>4, <2>3, <2>4
<1> HIDE DEF Ok
<1>5. T = Nat
  <2>1. 0 \in T /\ \A k \in T : k + 1 \in T
    BY <1>3, <1>4
  <2>2. T \in SUBSET Nat
    OBVIOUS
  <2> HIDE DEF T
  <2> QED BY <2>1, <2>2, Induction
<1>6. Ok(n)
  BY <1>5
<1>7. u = t[n]
  BY <1>0, <1>2 DEF Passes
<1> QED BY <1>6, <1>7 DEF Ok

\* An order that is neither pending nor counted, and the entry it had.
Owed(p, s) ==
    /\ s \in [DOMAIN ZeroStats -> Nat]
    /\ s.sent = Len(p) + 1 + s.reconciled + s.rejected + s.stale

Released(e, p, q, o) ==
    /\ e \in EntriesOf(Len(q), o)
    /\ \A i \in DOMAIN p : p[i].order # e.order
    /\ e.filled < Volume
    /\ Cardinality(SentFor(q, e.order)) = 1 + e.retry
    /\ Total(Use(q), SentFor(q, e.order)) <= e.filled

\* It is counted as given up.
LEMMA GivenUpTallied ==
    ASSUME NEW p, Len(p) \in Nat, NEW s, Owed(p, s)
    PROVE  Tallied(p, [s EXCEPT !.rejected = @ + 1])
<1> DEFINE z == [s EXCEPT !.rejected = @ + 1]
           l == Len(p)
           a == s.sent
           b == s.reconciled
           c == s.rejected
           d == s.stale
<1>1. /\ z \in [DOMAIN ZeroStats -> Nat] /\ z.sent = a
      /\ z.stale = d /\ z.reconciled = b /\ z.rejected = c + 1
  BY StatCounted, StatNames DEF Owed
<1>2. l \in Nat /\ a \in Nat /\ b \in Nat /\ c \in Nat /\ d \in Nat
  BY StatNames DEF Owed
<1>3. a = l + 1 + b + c + d
  BY DEF Owed
<1> HIDE DEF a, b, c, d, l, z
<1>4. a = l + b + (c + 1) + d
  BY <1>2, <1>3
<1>5. z.sent = Len(p) + z.reconciled + z.rejected + z.stale
  BY <1>1, <1>4 DEF l
<1> QED BY <1>1, <1>5 DEF Tallied, z

\* _retry, for an entry that is no longer among the others and not counted yet.
LEMMA RetriedManaged ==
    ASSUME NEW p, NEW s, NEW q, NEW o, Steady(p, q, o), Owed(p, s), NEW e, Released(e, p, q, o),
           NEW m, m = [pending |-> p, stats |-> s, req |-> q, orders |-> o],
           NEW u \in Retried(m, e)
    PROVE  /\ Managed(u) /\ Longer(q, u.req)
           /\ \A j \in DOMAIN p : j \in DOMAIN u.pending /\ u.pending[j] = p[j]
<1>1. p \in Seq(EntriesOf(Len(q), o)) /\ q \in Seq(RequestsOf(o)) /\ Len(p) \in Nat
  BY DEF Steady
<1>2. s.sent \in Nat /\ s.reconciled \in Nat /\ s.rejected \in Nat /\ s.stale \in Nat
  BY StatNames DEF Owed
<1>3. CASE u = GivenUp(m)
  <2> DEFINE z == [s EXCEPT !.rejected = @ + 1]
  <2>1. u = [pending |-> p, stats |-> z, req |-> q, orders |-> o]
    <3>1. u = [m EXCEPT !.stats = z]
      BY <1>3, Zenon DEF GivenUp
    <3> HIDE DEF z
    <3> QED BY <3>1
  <2>2. Tallied(p, z)
    BY <1>1, GivenUpTallied
  <2> HIDE DEF z
  <2> QED BY <1>1, <2>1, <2>2 DEF Managed, Longer
<1>4. CASE u = Resent(m, e) /\ e.retry < MaxRetries
  <2> DEFINE z == [s EXCEPT !.retried = @ + 1]
             f == [e EXCEPT !.id = Len(q) + 1, !.age = 0, !.retry = @ + 1]
             r == Append(p, f)
             w == Append(q, Asked(e.order, e.volume - e.filled))
  <2>1. u = [pending |-> r, stats |-> z, req |-> w, orders |-> o]
    <3>1. u = [m EXCEPT !.pending = Append(@, f), !.stats.retried = @ + 1,
                        !.req = Append(@, Asked(e.order, e.volume - e.filled))]
      BY <1>4, Zenon DEF Resent
    <3> QED BY <3>1
  <2>2. /\ z \in [DOMAIN ZeroStats -> Nat] /\ z.sent = s.sent
        /\ z.stale = s.stale /\ z.reconciled = s.reconciled
        /\ z.rejected = s.rejected /\ s.sent = Len(p) + 1 + s.reconciled + s.rejected + s.stale
    BY StatCounted, StatNames DEF Owed
  <2>3. Steady(r, w, o)
    BY <1>4, ResentSteady DEF Released
  <2>4. /\ Len(r) = Len(p) + 1
        /\ \A j \in DOMAIN p : j \in DOMAIN r /\ r[j] = p[j]
        /\ Longer(q, w)
    BY <1>1 DEF Longer
  <2> HIDE DEF z, r, w
  <2>5. Tallied(r, z)
    BY <1>1, <1>2, <2>2, <2>4 DEF Tallied
  <2> QED BY <2>1, <2>3, <2>4, <2>5 DEF Managed
<1> QED BY <1>3, <1>4 DEF Retried

-----------------------------------------------------------------------------
(* The manager and the broker together                                       *)

\* An answer tells at least what its request took of the order.
Told(q, as) ==
    /\ as \subseteq [id : 1..Len(q), code : Codes, volume : 0..Volume]
    /\ \A a \in as : /\ ~q[a.id].open
                     /\ Use(q)[a.id] <= a.volume
                     /\ a.code = "again" => a.volume = 0

AsyncInv == Steady(pending, req, orders) /\ Tallied(pending, stats) /\ Told(req, answers)

\* Entries leave for a cause, in one step.
EntriesStay ==
    \A j \in DOMAIN pending :
        \/ \E k \in DOMAIN pending' : pending'[k].id = pending[j].id
        \/ Stale(pending[j])
        \/ \E a \in answers \ answers' : a.id = pending[j].id
        \/ Restart

LEMMA InvTypes ==
    ASSUME AsyncInv
    PROVE  /\ Managed(Now)
           /\ pending \in Seq(EntriesOf(Len(req), orders)) /\ req \in Seq(RequestsOf(orders))
           /\ DOMAIN pending = 1..Len(pending) /\ Len(pending) \in Nat
           /\ DOMAIN req = 1..Len(req) /\ Len(req) \in Nat
           /\ orders \in Nat /\ Sound(req)
<1>1. Now = [pending |-> pending, stats |-> stats, req |-> req, orders |-> orders]
  BY DEF Now
<1> QED BY <1>1, VolumeType DEF AsyncInv, Managed, Steady

\* More requests leave the answers as they are.
LEMMA ToldLonger ==
    ASSUME NEW q, NEW w, NEW o, NEW as, NEW bs, Told(q, as), Longer(q, w), bs \subseteq as,
           q \in Seq(RequestsOf(o))
    PROVE  Told(w, bs)
<1>1. 1..Len(q) \subseteq 1..Len(w) /\ DOMAIN q = 1..Len(q)
  <2>1. Len(q) \in Nat /\ DOMAIN q = 1..Len(q) /\ Len(q) <= Len(w)
    BY DEF Longer
  <2>2. \A r \in 1..Len(q) : r \in 1..Len(w)
    BY <2>1, Z3
  <2> QED BY <2>1, <2>2
<1>2. \A r \in DOMAIN q : w[r] = q[r] /\ Use(w)[r] = Use(q)[r]
  BY DEF Longer, Use
<1>3. \A a \in bs : a.id \in DOMAIN q
  BY <1>1 DEF Told
<1> QED BY <1>1, <1>2, <1>3 DEF Told

\* A handler ends in a state of the manager.
LEMMA BecomesKeeps ==
    ASSUME AsyncInv, NEW m, Managed(m), Longer(req, m.req),
           Becomes(m), answers' \subseteq answers
    PROVE  AsyncInv'
<1>1. pending' = m.pending /\ stats' = m.stats /\ req' = m.req /\ orders' = m.orders
  BY DEF Becomes
<1>2. Told(req', answers')
  BY <1>1, InvTypes, ToldLonger DEF AsyncInv
<1> QED BY <1>1, <1>2 DEF AsyncInv, Managed

LEMMA OnTickKeeps == ASSUME AsyncInv, OnTick PROVE AsyncInv' /\ EntriesStay
<1> DEFINE w == Swept(Now)
<1>1. Now.pending = pending /\ Now.req = req /\ Now.orders = orders /\ Managed(Now)
  BY InvTypes DEF Now
<1>2. /\ Managed(w) /\ w.req = req /\ w.orders = orders
      /\ \A j \in DOMAIN pending :
             ~Stale(pending[j]) => \E k \in DOMAIN w.pending : w.pending[k] = pending[j]
  BY <1>1, SweptManaged
<1>3. Longer(req, req) /\ answers' = answers
  BY InvTypes DEF Longer, OnTick
<1>4. CASE Becomes(w)
  <2>1. AsyncInv'
    BY <1>2, <1>3, <1>4, BecomesKeeps
  <2>2. pending' = w.pending
    BY <1>4 DEF Becomes
  <2> QED BY <1>2, <2>1, <2>2 DEF EntriesStay
<1>5. CASE orders < MaxOrders /\ Becomes(Sent(w))
  <2>1. /\ Managed(Sent(w)) /\ Longer(req, Sent(w).req)
        /\ \A j \in DOMAIN w.pending :
               j \in DOMAIN Sent(w).pending /\ Sent(w).pending[j] = w.pending[j]
    BY <1>2, <1>5, SentManaged
  <2>2. AsyncInv'
    BY <1>3, <1>5, <2>1, BecomesKeeps
  <2>3. pending' = Sent(w).pending
    BY <1>5 DEF Becomes
  <2>4. ASSUME NEW j \in DOMAIN pending, ~Stale(pending[j])
        PROVE  \E k \in DOMAIN pending' : pending'[k].id = pending[j].id
    <3>1. PICK k \in DOMAIN w.pending : w.pending[k] = pending[j]
      BY <1>2, <2>4
    <3> QED BY <2>1, <2>3, <3>1
  <2> QED BY <2>2, <2>4 DEF EntriesStay
<1> QED BY <1>4, <1>5 DEF OnTick

LEMMA CloseAllKeeps ==
    ASSUME AsyncInv, NEW n \in 1..MaxBatch, CloseAllAsync(n) PROVE AsyncInv' /\ EntriesStay
<1> DEFINE path == [k \in 1..n |-> k]
           u == After("close", Now, path)
<1>1. Now.pending = pending /\ Now.req = req /\ Now.orders = orders /\ Managed(Now)
  BY InvTypes DEF Now
<1>2. n \in Nat /\ orders + n <= MaxOrders /\ answers' = answers
  <2>1. n \in Nat
    BY AsyncConstants
  <2> QED BY <2>1, Zenon DEF CloseAllAsync
<1>3. Becomes(u)
  <2>1. FoldLeft(LAMBDA m, k : Sent(m), Now, path) = u
    BY ClosedIs, Zenon
  <2> HIDE DEF u
  <2> QED BY <2>1, Zenon DEF CloseAllAsync
<1>4. /\ Managed(u) /\ Longer(req, u.req)
      /\ \A j \in DOMAIN pending : j \in DOMAIN u.pending /\ u.pending[j] = pending[j]
  BY <1>1, <1>2, ClosedManaged
<1> HIDE DEF u
<1>5. AsyncInv'
  BY <1>2, <1>3, <1>4, BecomesKeeps
<1>6. pending' = u.pending
  BY <1>3 DEF Becomes
<1> QED BY <1>4, <1>5, <1>6 DEF EntriesStay

\* The entry of a request is found by its id.
LEMMA EntryIs ==
    ASSUME NEW id, Len(pending) \in Nat
    PROVE  /\ Entry(id) \in 0..Len(pending)
           /\ Entry(id) # 0 => pending[Entry(id)].id = id
<1> DEFINE I == {i \in 1..Len(pending) : pending[i].id = id}
<1>1. Entry(id) = IF I # {} THEN Min(I) ELSE 0
  BY Zenon DEF Entry, SelectInSeq
<1>2. ASSUME I # {} PROVE Min(I) \in I
  <2>1. I \in SUBSET Nat
    OBVIOUS
  <2> HIDE DEF I
  <2>2. \E i \in I : \A j \in I : i <= j
    BY <1>2, <2>1, LeastNumber
  <2> QED BY <2>2, Zenon DEF Min
<1>3. \A i \in I : i \in 1..Len(pending) /\ pending[i].id = id
  OBVIOUS
<1> HIDE DEF I
<1> QED BY <1>1, <1>2, <1>3

LEMMA OnTransactionResultKeeps ==
    ASSUME AsyncInv, NEW a \in answers, OnTransactionResult(a)
    PROVE  AsyncInv' /\ EntriesStay
<1> DEFINE i == Entry(a.id)
           e == pending[i]
           r == Removed(pending, i)
           S == SentFor(req, e.order)
           filled == [e EXCEPT !.filled = @ + a.volume]
           without == [Now EXCEPT !.pending = Removed(@, i)]
           partly == [without EXCEPT !.stats.partial = @ + 1]
           done == [without EXCEPT !.stats.reconciled = @ + 1]
<1>1. /\ Managed(Now) /\ Steady(pending, req, orders) /\ Tallied(pending, stats)
      /\ pending \in Seq(EntriesOf(Len(req), orders)) /\ req \in Seq(RequestsOf(orders))
      /\ DOMAIN pending = 1..Len(pending) /\ Len(pending) \in Nat
      /\ DOMAIN req = 1..Len(req) /\ Sound(req) /\ Longer(req, req) /\ orders \in Nat
  BY InvTypes DEF AsyncInv, Longer
<1>2. i \in 0..Len(pending) /\ (i # 0 => pending[i].id = a.id)
  BY <1>1, EntryIs
<1>3. answers' = answers \ {a}
  BY Zenon DEF OnTransactionResult
<1>4. /\ a.id \in DOMAIN req /\ a.volume \in 0..Volume
      /\ Use(req)[a.id] <= a.volume /\ Use(req)[a.id] \in Int
      /\ a.code = "again" => a.volume = 0
  BY <1>1, UseType DEF AsyncInv, Told
<1> HIDE DEF i
<1>5. CASE i = 0
  <2>1. Becomes(Now)
    BY <1>5, Zenon DEF OnTransactionResult, i
  <2>2. Now.req = req /\ Now.pending = pending
    BY DEF Now
  <2>3. AsyncInv'
    BY <1>1, <1>3, <2>1, <2>2, BecomesKeeps
  <2> QED BY <2>1, <2>2, <2>3 DEF EntriesStay, Becomes
<1>6. CASE i # 0
  <2>1. i \in DOMAIN pending /\ e.id = a.id
    BY <1>1, <1>2, <1>6
  <2>2. /\ Steady(r, req, orders) /\ Len(r) = Len(pending) - 1
        /\ \A k \in DOMAIN r : r[k].order # e.order
        /\ \A j \in DOMAIN pending : j # i => \E k \in DOMAIN r : r[k] = pending[j]
    BY <1>1, <2>1, RemovedSteady
  <2>3. /\ e \in EntriesOf(Len(req), orders) /\ Fits(e, req)
        /\ e.filled \in 0..Volume /\ e.order \in 1..orders /\ e.volume = Volume
    BY <1>1, <2>1, EntryTypes DEF Steady
  <2>4. req[a.id].ask = Volume - e.filled /\ req[a.id].ask \in 1..Volume /\ a.id \in S
    BY <1>1, <1>4, <2>1, <2>3, RequestTypes DEF Fits, SentFor
  <2>5. /\ Cardinality(S) = 1 + e.retry
        /\ Total(Use(req), S) <= e.filled + a.volume
    <3>1. S \subseteq DOMAIN req
      BY DEF SentFor
    <3>2. /\ IsFiniteSet(S) /\ Total(Use(req), S \ {a.id}) \in Int
          /\ \A x \in S : Use(req)[x] \in Int
      BY <1>1, <3>1, UseType
    <3>3. Total(Use(req), S) = Use(req)[a.id] + Total(Use(req), S \ {a.id})
      BY <2>4, <3>2, TotalSplit
    <3>4. Cardinality(S) = 1 + e.retry /\ Total(Use(req), S \ {a.id}) <= e.filled
      BY <2>1, <2>3 DEF Fits
    <3> HIDE DEF S, e
    <3> QED BY <1>4, <2>3, <3>2, <3>3, <3>4
  <2>6. without = [pending |-> r, stats |-> stats, req |-> req, orders |-> orders]
    <3>1. without = [Now EXCEPT !.pending = r]
      BY Zenon DEF Now
    <3> HIDE DEF r, without
    <3> QED BY <3>1 DEF Now
  <2>7. Owed(r, stats)
    BY <1>1, <2>2, StatNames DEF Owed, Tallied
  <2> HIDE DEF r
  <2>8. ASSUME NEW m, Managed(m), Longer(req, m.req), Becomes(m),
               \A k \in DOMAIN r : k \in DOMAIN m.pending /\ m.pending[k] = r[k]
        PROVE  AsyncInv' /\ EntriesStay
    <3>1. AsyncInv'
      BY <1>3, <2>8, BecomesKeeps
    <3>2. pending' = m.pending
      BY <2>8 DEF Becomes
    <3>3. a \in answers \ answers'
      BY <1>3
    <3>4. \A j \in DOMAIN pending :
              j # i => \E k \in DOMAIN pending' : pending'[k].id = pending[j].id
      BY <2>2, <2>8, <3>2
    <3> QED BY <2>1, <3>1, <3>3, <3>4 DEF EntriesStay
  <2> HIDE DEF e, without
  <2>9. CASE a.code = "again"
    <3>1. PICK m \in Retried(without, e) : Becomes(m)
      BY <1>6, <2>9, Zenon DEF OnTransactionResult, i, e, without
    <3>2. e.filled < Volume /\ Total(Use(req), S) <= e.filled
      BY <1>4, <2>3, <2>4, <2>5, <2>9, VolumeType
    <3>3. Released(e, r, req, orders)
      BY <2>2, <2>3, <2>5, <3>2 DEF Released
    <3>4. /\ Managed(m) /\ Longer(req, m.req)
          /\ \A k \in DOMAIN r : k \in DOMAIN m.pending /\ m.pending[k] = r[k]
      BY <2>2, <2>6, <2>7, <3>1, <3>3, RetriedManaged
    <3> QED BY <2>8, <3>1, <3>4
  <2>10. CASE a.code # "again" /\ a.volume \in 1..(e.volume - e.filled - 1)
    <3> DEFINE z == [stats EXCEPT !.partial = @ + 1]
    <3>1. PICK m \in Retried(partly, filled) : Becomes(m)
      BY <1>6, <2>10, Zenon DEF OnTransactionResult, i, e, without
    <3>2. partly = [pending |-> r, stats |-> z, req |-> req, orders |-> orders]
      <4>1. partly = [without EXCEPT !.stats = z]
        BY <2>6
      <4> HIDE DEF z
      <4> QED BY <2>6, <4>1
    <3>3. Owed(r, z)
      BY <2>7, StatCounted, StatNames DEF Owed
    <3>4. /\ filled \in EntriesOf(Len(req), orders) /\ filled.order = e.order
          /\ filled.retry = e.retry /\ filled.filled = e.filled + a.volume
          /\ filled.filled < Volume
      <4>1. e.filled + a.volume \in 0..Volume /\ e.filled + a.volume < Volume
        BY <1>4, <2>3, <2>10, VolumeType
      <4> QED BY <2>3, <4>1 DEF EntriesOf
    <3> HIDE DEF z, partly, filled
    <3>5. Released(filled, r, req, orders)
      BY <2>2, <2>5, <3>4 DEF Released
    <3>6. /\ Managed(m) /\ Longer(req, m.req)
          /\ \A k \in DOMAIN r : k \in DOMAIN m.pending /\ m.pending[k] = r[k]
      BY <2>2, <3>1, <3>2, <3>3, <3>5, RetriedManaged
    <3> QED BY <2>8, <3>1, <3>6
  <2>11. CASE a.code # "again" /\ ~(a.volume \in 1..(e.volume - e.filled - 1))
    <3> DEFINE z == [stats EXCEPT !.reconciled = @ + 1]
    <3>1. Becomes(done)
      BY <1>6, <2>11, Zenon DEF OnTransactionResult, i, e, without
    <3>2. done = [pending |-> r, stats |-> z, req |-> req, orders |-> orders]
      <4>1. done = [without EXCEPT !.stats = z]
        BY <2>6
      <4> HIDE DEF z
      <4> QED BY <2>6, <4>1
    <3>3. Tallied(r, z)
      <4>1. /\ z \in [DOMAIN ZeroStats -> Nat] /\ z.reconciled = stats.reconciled + 1
            /\ z.sent = stats.sent /\ z.rejected = stats.rejected /\ z.stale = stats.stale
        BY <2>7, StatCounted, StatNames DEF Owed
      <4> HIDE DEF z
      <4> QED BY <1>1, <2>2, <2>7, <4>1, StatNames DEF Owed, Tallied
    <3> HIDE DEF z, done
    <3>4. Managed(done) /\ Longer(req, done.req) /\ done.pending = r
      BY <1>1, <2>2, <3>2, <3>3 DEF Managed
    <3> QED BY <2>8, <3>1, <3>4
  <2> QED BY <2>9, <2>10, <2>11
<1> QED BY <1>5, <1>6

LEMMA RestartKeeps == ASSUME AsyncInv, Restart PROVE AsyncInv' /\ EntriesStay
<1>1. pending' = <<>> /\ stats' = ZeroStats /\ req' = req /\ orders' = orders /\ answers' = answers
  BY DEF Restart, Becomes, Now
<1>2. Steady(<<>>, req, orders)
  BY DEF AsyncInv, Steady
<1>3. Tallied(<<>>, ZeroStats)
  BY DEF Tallied, ZeroStats
<1> QED BY <1>1, <1>2, <1>3 DEF AsyncInv, EntriesStay

\* What Close leaves of a request.
LEMMA ClosedRequest ==
    ASSUME NEW o, NEW q \in RequestsOf(o), NEW f, NEW d, NEW l
    PROVE  [q EXCEPT !.open = f, !.done = d, !.left = l] =
               [order |-> q.order, ask |-> q.ask, done |-> d, left |-> l, open |-> f]
<1> DEFINE a == [q EXCEPT !.open = f]
           b == [a EXCEPT !.done = d]
<1>1. [q EXCEPT !.open = f, !.done = d, !.left = l] = [b EXCEPT !.left = l]
  BY DEF RequestsOf
<1>2. a = [order |-> q.order, ask |-> q.ask, done |-> q.done, left |-> q.left, open |-> f]
  BY DEF RequestsOf
<1> HIDE DEF a
<1>3. b = [order |-> q.order, ask |-> q.ask, done |-> d, left |-> q.left, open |-> f]
  BY <1>2
<1> HIDE DEF b
<1> QED BY <1>1, <1>3

\* A request is carried out or filled: an answer to it tells at least what it took.
LEMMA BrokerKeeps ==
    ASSUME AsyncInv, NEW r \in DOMAIN req, NEW done \in 0..Volume, NEW left \in 0..Volume,
           Close(r, done, left), done <= req[r].ask, left <= req[r].ask,
           NEW u \in 0..Volume, u <= Use(req)[r],
           u = IF left > 0 THEN req[r].ask - left ELSE done,
           \A a \in answers' \ answers :
               /\ a \in [id : {r}, code : Codes, volume : 0..Volume]
               /\ u <= a.volume /\ (a.code = "again" => a.volume = 0),
           UNCHANGED <<pending, stats, orders>>
    PROVE  AsyncInv' /\ EntriesStay
<1> DEFINE x == [order |-> req[r].order, ask |-> req[r].ask, done |-> done, left |-> left,
                 open |-> FALSE]
<1>1. /\ req \in Seq(RequestsOf(orders)) /\ DOMAIN req = 1..Len(req) /\ Len(req) \in Nat
      /\ orders \in Nat /\ Sound(req)
      /\ \A i \in DOMAIN req : Use(req)[i] \in Int
  BY InvTypes, UseType
<1>2. /\ req[r] \in RequestsOf(orders) /\ req[r].order \in 1..orders /\ req[r].ask \in 1..Volume
  BY <1>1, RequestTypes
<1>3. req' = [req EXCEPT ![r] = x] /\ x \in RequestsOf(orders)
  <2>1. req' = [req EXCEPT ![r] = [req[r] EXCEPT !.open = FALSE, !.done = done, !.left = left]]
    BY <1>1 DEF Close
  <2>2. [req[r] EXCEPT !.open = FALSE, !.done = done, !.left = left] = x
    BY <1>2, ClosedRequest, Zenon
  <2>3. x \in RequestsOf(orders)
    BY <1>2 DEF RequestsOf
  <2> QED BY <2>1, <2>2, <2>3
<1>4. /\ x.order = req[r].order /\ x.ask = req[r].ask /\ x.done = done /\ x.left = left
      /\ x.open = FALSE
  OBVIOUS
<1> HIDE DEF x
<1>5. /\ req' \in Seq(RequestsOf(orders)) /\ Len(req') = Len(req) /\ DOMAIN req' = DOMAIN req
      /\ req'[r] = x /\ \A i \in DOMAIN req : i # r => req'[i] = req[i]
  BY <1>1, <1>3
<1>6. Sound(req')
  BY <1>1, <1>4, <1>5 DEF Sound
<1>7. Use(req')[r] = u /\ \A i \in DOMAIN req : i # r => Use(req')[i] = Use(req)[i]
  BY <1>4, <1>5 DEF Use
<1>8. \A i \in DOMAIN req : /\ req'[i].order = req[i].order /\ req'[i].ask = req[i].ask
                            /\ Use(req')[i] <= Use(req)[i]
  BY <1>1, <1>4, <1>5, <1>7
<1>9. Steady(pending, req', orders)
  BY <1>5, <1>6, <1>8, RequestSteady DEF AsyncInv
<1>10. Told(req', answers')
  <2>1. ASSUME NEW a \in answers', a \in answers
        PROVE  /\ a \in [id : 1..Len(req), code : Codes, volume : 0..Volume]
               /\ ~req'[a.id].open /\ Use(req')[a.id] <= a.volume
               /\ a.code = "again" => a.volume = 0
    <3>1. /\ a \in [id : 1..Len(req), code : Codes, volume : 0..Volume]
          /\ ~req[a.id].open /\ Use(req)[a.id] <= a.volume
          /\ a.code = "again" => a.volume = 0
      BY <2>1 DEF AsyncInv, Told
    <3>2. a.id \in DOMAIN req /\ a.volume \in Int
      BY <1>1, <3>1
    <3>3. CASE a.id = r
      BY <1>1, <1>4, <1>5, <1>7, <3>1, <3>2, <3>3
    <3>4. CASE a.id # r
      BY <1>5, <1>7, <3>1, <3>2, <3>4
    <3> QED BY <3>1, <3>3, <3>4
  <2>2. ASSUME NEW a \in answers', a \notin answers
        PROVE  /\ a \in [id : 1..Len(req), code : Codes, volume : 0..Volume]
               /\ ~req'[a.id].open /\ Use(req')[a.id] <= a.volume
               /\ a.code = "again" => a.volume = 0
    <3>1. /\ a \in [id : {r}, code : Codes, volume : 0..Volume]
          /\ u <= a.volume /\ (a.code = "again" => a.volume = 0)
      BY <2>2
    <3> QED BY <1>1, <1>4, <1>5, <1>7, <3>1
  <2> QED BY <1>5, <2>1, <2>2 DEF Told
<1> QED BY <1>9, <1>10 DEF AsyncInv, EntriesStay

LEMMA ExecuteKeeps ==
    ASSUME AsyncInv, NEW r \in DOMAIN req, Execute(r) PROVE AsyncInv' /\ EntriesStay
<1>1. /\ req \in Seq(RequestsOf(orders)) /\ orders \in Nat /\ Sound(req)
      /\ req[r].ask \in 1..Volume
  BY InvTypes, RequestTypes
<1>2. /\ req[r].open /\ req[r].left = 0 /\ Use(req)[r] = req[r].ask
      /\ UNCHANGED <<pending, stats, orders>>
  BY <1>1 DEF Execute, Sound, Use
<1>3. ASSUME NEW c \in Codes, NEW v \in 0..Volume, Answer(r, c, v)
      PROVE  \A a \in answers' \ answers :
                 /\ a \in [id : {r}, code : Codes, volume : 0..Volume]
                 /\ a.volume = v /\ a.code = c
  BY <1>3 DEF Answer
<1>4. CASE Close(r, req[r].ask, 0) /\ Answer(r, "done", req[r].ask)
  <2>1. \A a \in answers' \ answers :
            /\ a \in [id : {r}, code : Codes, volume : 0..Volume]
            /\ a.volume = req[r].ask /\ a.code = "done"
    BY <1>1, <1>3, <1>4, VolumeType DEF Codes
  <2> DEFINE u == req[r].ask
  <2>2. u \in 0..Volume /\ u <= Use(req)[r] /\ 0 \in 0..Volume
    BY <1>1, <1>2, VolumeType
  <2> QED BY <1>1, <1>2, <1>4, <2>1, <2>2, BrokerKeeps
<1>5. ASSUME NEW c \in {"again", "refused"}, Close(r, 0, 0), Answer(r, c, 0)
      PROVE  AsyncInv' /\ EntriesStay
  <2>1. \A a \in answers' \ answers :
            /\ a \in [id : {r}, code : Codes, volume : 0..Volume]
            /\ a.volume = 0
    BY <1>3, <1>5, VolumeType DEF Codes
  <2>2. 0 \in 0..Volume /\ 0 <= Use(req)[r]
    BY <1>1, <1>2, VolumeType
  <2> QED BY <1>1, <1>2, <1>5, <2>1, <2>2, BrokerKeeps
<1>6. CASE Close(r, 0, req[r].ask) /\ Answer(r, "placed", 0)
  <2>1. \A a \in answers' \ answers :
            /\ a \in [id : {r}, code : Codes, volume : 0..Volume]
            /\ a.volume = 0
    BY <1>3, <1>6, VolumeType DEF Codes
  <2>2. 0 \in 0..Volume /\ 0 <= Use(req)[r] /\ req[r].ask \in 0..Volume
    BY <1>1, <1>2, VolumeType
  <2>3. 0 = IF req[r].ask > 0 THEN req[r].ask - req[r].ask ELSE 0
    BY <1>1
  <2> QED BY <1>1, <1>2, <1>6, <2>1, <2>2, <2>3, BrokerKeeps
<1>7. ASSUME NEW k \in 1..(req[r].ask - 1), NEW left \in {0, req[r].ask - k},
             Close(r, k, left), Answer(r, "done", k)
      PROVE  AsyncInv' /\ EntriesStay
  <2>1. /\ k \in 0..Volume /\ left \in 0..Volume /\ k <= req[r].ask /\ left <= req[r].ask
        /\ k <= Use(req)[r]
        /\ k = IF left > 0 THEN req[r].ask - left ELSE k
    BY <1>1, <1>2, VolumeType
  <2>2. \A a \in answers' \ answers :
            /\ a \in [id : {r}, code : Codes, volume : 0..Volume]
            /\ a.volume = k /\ a.code = "done"
    BY <1>3, <1>7, <2>1 DEF Codes
  <2> QED BY <1>2, <1>7, <2>1, <2>2, BrokerKeeps
<1> QED BY <1>4, <1>5, <1>6, <1>7 DEF Execute

LEMMA FillRestKeeps ==
    ASSUME AsyncInv, NEW r \in DOMAIN req, FillRest(r) PROVE AsyncInv' /\ EntriesStay
<1> DEFINE ask == req[r].ask
           left == req[r].left
           u == ask - left
<1>1. /\ req \in Seq(RequestsOf(orders)) /\ orders \in Nat /\ Sound(req)
      /\ req[r] \in RequestsOf(orders)
      /\ ask \in 1..Volume /\ left \in 0..Volume /\ left > 0 /\ left <= ask
      /\ req[r].open = FALSE
  <2>1. /\ req \in Seq(RequestsOf(orders)) /\ orders \in Nat /\ Sound(req)
        /\ req[r].open \in BOOLEAN /\ ask \in 1..Volume /\ left \in 0..Volume
    BY InvTypes, RequestTypes
  <2> QED BY <2>1 DEF FillRest, Sound
<1>2. Use(req)[r] = u /\ u \in 0..Volume
  BY <1>1, VolumeType DEF Use
<1>3. Close(r, ask, left)
  <2>1. [req[r] EXCEPT !.open = FALSE, !.done = ask, !.left = left] = [req[r] EXCEPT !.done = ask]
    BY <1>1 DEF RequestsOf
  <2>2. req' = [req EXCEPT ![r] = [req[r] EXCEPT !.done = ask]]
    BY DEF FillRest
  <2>3. req' = [req EXCEPT ![r] = [req[r] EXCEPT !.open = FALSE, !.done = ask, !.left = left]]
    BY <2>1, <2>2
  <2> QED BY <1>1, <2>3 DEF Close
<1>4. UNCHANGED <<pending, stats, orders>> /\ answers' \ answers = {}
  BY DEF FillRest
<1> HIDE DEF ask, left, u
<1>5. ask \in 0..Volume /\ u = IF left > 0 THEN ask - left ELSE ask
  BY <1>1, VolumeType DEF u
<1>6. u <= Use(req)[r] /\ ask <= req[r].ask /\ left <= req[r].ask
  BY <1>1, <1>2 DEF ask
<1> QED BY <1>1, <1>2, <1>3, <1>4, <1>5, <1>6, BrokerKeeps DEF ask

LEMMA PassKeeps == ASSUME AsyncInv, Pass PROVE AsyncInv' /\ EntriesStay
<1> DEFINE Older(e) == [e EXCEPT !.age = IF @ > StaleAge THEN @ ELSE @ + 1]
<1>1. /\ pending \in Seq(EntriesOf(Len(req), orders))
      /\ DOMAIN pending = 1..Len(pending) /\ Len(pending) \in Nat
      /\ pending' = [i \in DOMAIN pending |-> Older(pending[i])]
      /\ UNCHANGED <<stats, req, answers, orders>>
  BY InvTypes DEF Pass
<1>2. ASSUME NEW e \in EntriesOf(Len(req), orders)
      PROVE  /\ Older(e) \in EntriesOf(Len(req), orders)
             /\ Older(e).id = e.id /\ Older(e).order = e.order
             /\ Older(e).filled = e.filled /\ Older(e).retry = e.retry
  <2> DEFINE g == IF e.age > StaleAge THEN e.age ELSE e.age + 1
  <2>1. g \in 0..StaleAge + 1
    BY VolumeType DEF EntriesOf
  <2>2. Older(e) = [e EXCEPT !.age = g]
    OBVIOUS
  <2> HIDE DEF g, Older
  <2> QED BY <2>1, <2>2 DEF EntriesOf
<1> HIDE DEF Older
<1>3. \A i \in DOMAIN pending : pending[i] \in EntriesOf(Len(req), orders)
  BY <1>1
<1>4. /\ pending' \in Seq(EntriesOf(Len(req), orders)) /\ DOMAIN pending' = DOMAIN pending
      /\ Len(pending') = Len(pending)
  BY <1>1, <1>2, <1>3
<1>5. \A i \in DOMAIN pending :
          /\ pending'[i].id = pending[i].id /\ pending'[i].order = pending[i].order
          /\ pending'[i].filled = pending[i].filled /\ pending'[i].retry = pending[i].retry
  BY <1>1, <1>2, <1>3
<1>6. \A i \in DOMAIN pending : Fits(pending'[i], req)
  BY <1>5 DEF AsyncInv, Steady, Fits
<1>7. \A i, j \in DOMAIN pending : pending'[i].order = pending'[j].order => i = j
  BY <1>5 DEF AsyncInv, Steady
<1>8. Steady(pending', req, orders)
  BY <1>4, <1>6, <1>7 DEF AsyncInv, Steady
<1>9. Tallied(pending', stats)
  BY <1>4 DEF AsyncInv, Tallied
<1>10. EntriesStay
  BY <1>4, <1>5 DEF EntriesStay
<1> QED BY <1>1, <1>8, <1>9, <1>10 DEF AsyncInv

LEMMA AsyncInvInit == AsyncInit => AsyncInv
<1> SUFFICES ASSUME AsyncInit PROVE AsyncInv
  OBVIOUS
<1>1. pending = <<>> /\ stats = ZeroStats /\ req = <<>> /\ answers = {} /\ orders = 0
  BY DEF AsyncInit
<1>2. Steady(<<>>, <<>>, 0)
  BY VolumeType DEF Steady, Sound
<1>3. Tallied(<<>>, ZeroStats)
  BY DEF Tallied, ZeroStats
<1>4. Told(<<>>, {})
  BY DEF Told
<1> QED BY <1>1, <1>2, <1>3, <1>4 DEF AsyncInv

LEMMA AsyncInvKept == AsyncInv /\ [AsyncNext]_asyncVars => AsyncInv' /\ (AsyncNext => EntriesStay)
<1> SUFFICES ASSUME AsyncInv, [AsyncNext]_asyncVars
             PROVE  AsyncInv' /\ (AsyncNext => EntriesStay)
  OBVIOUS
<1>1. CASE AsyncNext
  <2>1. CASE OnTick
    BY <2>1, OnTickKeeps
  <2>2. ASSUME NEW n \in 1..MaxBatch, CloseAllAsync(n) PROVE AsyncInv' /\ EntriesStay
    BY <2>2, CloseAllKeeps
  <2>3. ASSUME NEW a \in answers, OnTransactionResult(a) PROVE AsyncInv' /\ EntriesStay
    BY <2>3, OnTransactionResultKeeps
  <2>4. CASE Restart
    BY <2>4, RestartKeeps
  <2>5. ASSUME NEW r \in DOMAIN req, Execute(r) PROVE AsyncInv' /\ EntriesStay
    BY <2>5, ExecuteKeeps
  <2>6. ASSUME NEW r \in DOMAIN req, FillRest(r) PROVE AsyncInv' /\ EntriesStay
    BY <2>6, FillRestKeeps
  <2>7. CASE Pass
    BY <2>7, PassKeeps
  <2> QED BY <1>1, <2>1, <2>2, <2>3, <2>4, <2>5, <2>6, <2>7 DEF AsyncNext
<1>2. CASE ~AsyncNext
  <2>1. UNCHANGED asyncVars
    BY <1>2
  <2> QED BY <1>2, <2>1 DEF asyncVars, AsyncInv
<1> QED BY <1>1, <1>2

LEMMA AsyncInvHolds == AsyncSpec => []AsyncInv
<1>1. AsyncInv /\ [AsyncNext]_asyncVars => AsyncInv'
  BY AsyncInvKept
<1> QED BY AsyncInvInit, <1>1, PTL DEF AsyncSpec

\* Every variable of the manager and of the broker has the type its declaration says.
THEOREM AsyncTypes == AsyncSpec => []AsyncTypeOK
<1>1. AsyncInv => AsyncTypeOK
  BY DEF AsyncInv, Steady, Tallied, Told, EntriesOf, RequestsOf, AsyncTypeOK
<1> QED BY <1>1, AsyncInvHolds, PTL

\* The statistics of PrintStats account for every order that was sent: it is pending,
\* reconciled, given up or stale, and only one of these.
THEOREM AsyncOrdersCounted == AsyncSpec => []OrdersCounted
<1>1. AsyncInv => OrdersCounted
  BY DEF AsyncInv, Tallied, OrdersCounted
<1> QED BY <1>1, AsyncInvHolds, PTL

\* An order is sent at most MaxRetries times after the first, however its answers alternate.
THEOREM AsyncRetriesBounded == AsyncSpec => []RetriesBounded
<1>1. AsyncInv => RetriesBounded
  BY DEF AsyncInv, Steady, Within, RetriesBounded, OfOrder, SentFor
<1> QED BY <1>1, AsyncInvHolds, PTL

\* No removal loses the entry that it moves: entries leave the list because they are stale,
\* because their answer is here or because the EA is started again.
THEOREM AsyncLeavesForCause == AsyncSpec => LeavesForCause
<1> DEFINE Cause == \A e \in Entries :
                        (\A f \in Entries' : f.id # e.id)
                            => \/ Stale(e)
                               \/ \E a \in answers \ answers' : a.id = e.id
                               \/ Restart
<1>1. AsyncInv /\ [AsyncNext]_asyncVars => [Cause]_asyncVars
  <2> SUFFICES ASSUME AsyncInv, AsyncNext PROVE Cause
    OBVIOUS
  <2>1. EntriesStay
    BY AsyncInvKept
  <2> QED BY <2>1 DEF EntriesStay, Entries
<1> QED BY <1>1, AsyncInvHolds, PTL DEF AsyncSpec, LeavesForCause

\* A tick removes every entry that is stale and no other, however many they are and
\* whatever the walk moves under its index, and enters at most the new request.
TickSweeps ==
    [][OnTick => {e \in Entries' : e.id <= Len(req)} = {e \in Entries : ~Stale(e)}]_asyncVars

LEMMA TickSweepsStep ==
    ASSUME AsyncInv, OnTick
    PROVE  {e \in Entries' : e.id <= Len(req)} = {e \in Entries : ~Stale(e)}
<1> DEFINE w == Swept(Now)
           Kept == {w.pending[k] : k \in DOMAIN w.pending}
<1>1. /\ Now.pending = pending /\ Now.req = req /\ Now.orders = orders /\ Managed(Now)
      /\ pending \in Seq(EntriesOf(Len(req), orders)) /\ DOMAIN pending = 1..Len(pending)
      /\ Len(req) \in Nat
  BY InvTypes DEF Now
<1>2. /\ Managed(w) /\ w.req = req
      /\ \A j \in DOMAIN pending :
             ~Stale(pending[j]) => \E k \in DOMAIN w.pending : w.pending[k] = pending[j]
      /\ \A j \in DOMAIN w.pending :
             /\ \E k \in DOMAIN pending : w.pending[j] = pending[k]
             /\ ~Stale(w.pending[j])
  BY <1>1, SweptManaged
<1> HIDE DEF w
<1>3. Kept = {e \in Entries : ~Stale(e)}
  BY <1>2 DEF Entries
<1>4. \A e \in Kept : e.id <= Len(req)
  <2>1. \A k \in DOMAIN pending : pending[k].id \in 1..Len(req)
    BY <1>1, EntryTypes
  <2> QED BY <1>1, <1>2, <2>1
<1>5. CASE pending' = w.pending
  <2>1. Entries' = Kept
    BY <1>5 DEF Entries
  <2> QED BY <1>3, <1>4, <2>1
<1>6. CASE pending' = Sent(w).pending
  <2> DEFINE n == [id |-> Len(req) + 1, order |-> w.orders + 1, volume |-> Volume,
                   filled |-> 0, age |-> 0, retry |-> 0]
  <2>1. pending' = Append(w.pending, n)
    BY <1>2, <1>6 DEF Sent
  <2>2. w.pending \in Seq(EntriesOf(Len(w.req), w.orders))
    BY <1>2 DEF Managed, Steady
  <2> HIDE DEF n
  <2>3. Entries' = Kept \union {n}
    <3>1. /\ DOMAIN pending' = DOMAIN w.pending \union {Len(w.pending) + 1}
          /\ pending'[Len(w.pending) + 1] = n
          /\ \A k \in DOMAIN w.pending : pending'[k] = w.pending[k]
      BY <2>1, <2>2
    <3> QED BY <3>1 DEF Entries
  <2>4. ~(n.id <= Len(req))
    BY <1>1 DEF n
  <2> QED BY <1>3, <1>4, <2>3, <2>4
<1> QED BY <1>5, <1>6 DEF OnTick, Becomes, w

\* The sweep of a tick is exact, also when CloseAllAsync went beyond the limit of pending
\* requests.
THEOREM AsyncTickSweeps == AsyncSpec => TickSweeps
<1> DEFINE Exact == OnTick => {e \in Entries' : e.id <= Len(req)} = {e \in Entries : ~Stale(e)}
<1>1. AsyncInv /\ [AsyncNext]_asyncVars => [Exact]_asyncVars
  BY TickSweepsStep
<1> QED BY <1>1, AsyncInvHolds, PTL DEF AsyncSpec, TickSweeps

-----------------------------------------------------------------------------
(* NoOverfill adds with MapThenSumSet what the invariant adds with Total.    *)

Done(q) == [r \in DOMAIN q |-> q[r].done]
Left(q) == [r \in DOMAIN q |-> q[r].left]

LEMMA DoneSum ==
    ASSUME NEW q, NEW S \in SUBSET DOMAIN q, IsFiniteSet(S), \A r \in S : q[r].done \in Int
    PROVE  MapThenSumSet(LAMBDA r : q[r].done, S) = Total(Done(q), S)
<1> DEFINE Is(g) == g = [s \in SUBSET S |-> IF s = {} THEN 0
                                            ELSE q[Pick(s)].done + g[s \ {Pick(s)}]]
<1>1. MapThenSumSet(LAMBDA r : q[r].done, S) = (CHOOSE g : Is(g))[S]
  BY DEF MapThenSumSet, MapThenFoldSet, Pick
<1>2. ASSUME NEW s \in SUBSET S, s # {} PROVE Done(q)[Pick(s)] = q[Pick(s)].done
  BY <1>2 DEF Done, Pick
<1>3. \A g : Is(g) <=> IsTotal(g, Done(q), S)
  <2> SUFFICES ASSUME NEW g PROVE Is(g) <=> IsTotal(g, Done(q), S)
    OBVIOUS
  <2>1. [s \in SUBSET S |-> IF s = {} THEN 0 ELSE q[Pick(s)].done + g[s \ {Pick(s)}]]
            = [s \in SUBSET S |-> IF s = {} THEN 0 ELSE Done(q)[Pick(s)] + g[s \ {Pick(s)}]]
    BY <1>2
  <2> QED BY <2>1, Zenon DEF IsTotal
<1>4. \A r \in S : Done(q)[r] \in Int
  BY DEF Done
<1>5. \E g : IsTotal(g, Done(q), S)
  BY <1>4, TotalExists
<1>6. Is(CHOOSE g : Is(g))
  BY <1>3, <1>5, Zenon
<1> DEFINE h == CHOOSE g : Is(g)
<1>7. IsTotal(h, Done(q), S)
  BY <1>3, <1>6, Zenon
<1> HIDE DEF h
<1>8. Total(Done(q), S) = h[S]
  BY <1>4, <1>7, TotalIs
<1> QED BY <1>1, <1>8 DEF h
LEMMA LeftSum ==
    ASSUME NEW q, NEW S \in SUBSET DOMAIN q, IsFiniteSet(S), \A r \in S : q[r].left \in Int
    PROVE  MapThenSumSet(LAMBDA r : q[r].left, S) = Total(Left(q), S)
<1> DEFINE Is(g) == g = [s \in SUBSET S |-> IF s = {} THEN 0
                                            ELSE q[Pick(s)].left + g[s \ {Pick(s)}]]
<1>1. MapThenSumSet(LAMBDA r : q[r].left, S) = (CHOOSE g : Is(g))[S]
  BY DEF MapThenSumSet, MapThenFoldSet, Pick
<1>2. ASSUME NEW s \in SUBSET S, s # {} PROVE Left(q)[Pick(s)] = q[Pick(s)].left
  BY <1>2 DEF Left, Pick
<1>3. \A g : Is(g) <=> IsTotal(g, Left(q), S)
  <2> SUFFICES ASSUME NEW g PROVE Is(g) <=> IsTotal(g, Left(q), S)
    OBVIOUS
  <2>1. [s \in SUBSET S |-> IF s = {} THEN 0 ELSE q[Pick(s)].left + g[s \ {Pick(s)}]]
            = [s \in SUBSET S |-> IF s = {} THEN 0 ELSE Left(q)[Pick(s)] + g[s \ {Pick(s)}]]
    BY <1>2
  <2> QED BY <2>1, Zenon DEF IsTotal
<1>4. \A r \in S : Left(q)[r] \in Int
  BY DEF Left
<1>5. \E g : IsTotal(g, Left(q), S)
  BY <1>4, TotalExists
<1>6. Is(CHOOSE g : Is(g))
  BY <1>3, <1>5, Zenon
<1> DEFINE h == CHOOSE g : Is(g)
<1>7. IsTotal(h, Left(q), S)
  BY <1>3, <1>6, Zenon
<1> HIDE DEF h
<1>8. Total(Left(q), S) = h[S]
  BY <1>4, <1>7, TotalIs
<1> QED BY <1>1, <1>8 DEF h

\* What is filled of an order beyond its volume was left working by the broker.
THEOREM AsyncNoOverfill == AsyncSpec => []NoOverfill
<1>1. AsyncInv => NoOverfill
  <2> SUFFICES ASSUME AsyncInv, NEW c \in 1..orders
               PROVE  MapThenSumSet(LAMBDA r : req[r].done, OfOrder(c))
                          <= Volume + MapThenSumSet(LAMBDA r : req[r].left, OfOrder(c))
    BY Zenon DEF NoOverfill
  <2> DEFINE S == SentFor(req, c)
  <2>1. /\ req \in Seq(RequestsOf(orders)) /\ orders \in Nat /\ Sound(req)
        /\ OfOrder(c) = S /\ S \in SUBSET DOMAIN req
    BY InvTypes DEF OfOrder, SentFor
  <2> HIDE DEF S
  <2>2. /\ IsFiniteSet(S)
        /\ \A r \in S : /\ req[r].done \in Int /\ req[r].left \in Int
                         /\ Use(req)[r] \in Int /\ req[r].done <= Use(req)[r] + req[r].left
    BY <2>1, UseType, RequestTypes
  <2>3. \A r \in S : Done(req)[r] = req[r].done /\ Left(req)[r] = req[r].left
    BY <2>1 DEF Done, Left
  <2>4. Total(Done(req), S) <= Total(Use(req), S) + Total(Left(req), S)
    BY <2>2, <2>3, TotalBound
  <2>5. Total(Use(req), S) <= Volume
    BY <2>1 DEF AsyncInv, Steady, Within, S
  <2>6. Total(Done(req), S) \in Int /\ Total(Use(req), S) \in Int /\ Total(Left(req), S) \in Int
    BY <2>2, <2>3, TotalSame
  <2>7. Total(Done(req), S) <= Volume + Total(Left(req), S)
    BY <2>4, <2>5, <2>6, VolumeType
  <2>8. /\ MapThenSumSet(LAMBDA r : req[r].done, S) = Total(Done(req), S)
        /\ MapThenSumSet(LAMBDA r : req[r].left, S) = Total(Left(req), S)
    BY <2>1, <2>2, DoneSum, LeftSum
  <2> QED BY <2>1, <2>7, <2>8, Zenon
<1> QED BY <1>1, AsyncInvHolds, PTL

=============================================================================
