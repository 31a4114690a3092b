----------------------------- MODULE Layout_proofs -----------------------------
(***************************************************************************)
(* Proofs about the two layouts: the CPUs a guest is pinned to and the     *)
(* PCI functions it gets.  Both count: a comprehension keeps the order of  *)
(* its elements, a position is the number of elements up to it.            *)
(***************************************************************************)
EXTENDS CpuLayout, PcieLayout, FiniteSetTheorems, SequenceTheorems, TLAPS

(* Positions and selections *)

\* A larger number has a larger position.
LEMMA RankGrows ==
  ASSUME NEW I \in SUBSET Int, IsFiniteSet(I), NEW i \in I, NEW j \in I, i < j
  PROVE  Rank(i, I) < Rank(j, I)
<1> DEFINE A == {k \in I : k <= i}
           B == {k \in I : k <= j}
<1>1. IsFiniteSet(B) /\ A \in SUBSET B
  <2>1. B \in SUBSET I
    OBVIOUS
  <2>2. ASSUME NEW k \in A  PROVE k \in B
    OBVIOUS
  <2> QED  BY <2>1, <2>2, FS_Subset
<1>2. A # B
  <2>1. j \in B /\ j \notin A
    OBVIOUS
  <2> QED  BY <2>1
<1>3. Cardinality(A) <= Cardinality(B) /\ Cardinality(A) # Cardinality(B)
  BY <1>1, <1>2, FS_Subset
<1>4. Cardinality(A) \in Nat /\ Cardinality(B) \in Nat
  BY <1>1, FS_Subset, FS_CardinalityType
<1> QED  BY <1>3, <1>4 DEF Rank

\* The positions are the numbers from one, each taken once.
LEMMA RankIsPosition ==
  ASSUME NEW I \in SUBSET Int, IsFiniteSet(I)
  PROVE  /\ Cardinality(I) \in Nat
         /\ \A i \in I : Rank(i, I) \in 1 .. Cardinality(I)
         /\ \A i, j \in I : Rank(i, I) = Rank(j, I) => i = j
         /\ \A n \in 1 .. Cardinality(I) : \E i \in I : Rank(i, I) = n
<1>1. Cardinality(I) \in Nat
  BY FS_CardinalityType
<1>2. ASSUME NEW i \in I  PROVE Rank(i, I) \in 1 .. Cardinality(I)
  <2> DEFINE A == {j \in I : j <= i}
  <2>1. IsFiniteSet(A) /\ Cardinality(A) <= Cardinality(I)
    BY FS_Subset
  <2>2. Cardinality(A) \in Nat /\ (Cardinality(A) = 0 <=> A = {})
    BY <2>1, FS_CardinalityType, FS_EmptySet
  <2>3. i \in A
    OBVIOUS
  <2> QED  BY <1>1, <2>1, <2>2, <2>3 DEF Rank
<1>3. ASSUME NEW i \in I, NEW j \in I, Rank(i, I) = Rank(j, I)  PROVE i = j
  <2>1. Rank(i, I) \in Int /\ Rank(j, I) \in Int
    BY <1>1, <1>2
  <2>2. i < j \/ j < i \/ i = j
    OBVIOUS
  <2> QED  BY <1>3, <2>1, <2>2, RankGrows
<1>4. ASSUME NEW n \in 1 .. Cardinality(I)  PROVE \E i \in I : Rank(i, I) = n
  <2> DEFINE f == [i \in I |-> Rank(i, I)]
             N == 1 .. Cardinality(I)
  <2>1. f \in Injection(I, N)
    BY <1>2, <1>3 DEF Injection, IsInjective
  <2>2. IsFiniteSet(N) /\ Cardinality(N) = Cardinality(I)
    BY <1>1, FS_Interval
  <2>3. f \in Surjection(I, N)
    BY <2>1, <2>2, FS_Injection
  <2> QED  BY <2>3 DEF Surjection
<1> QED  BY <1>1, <1>2, <1>3, <1>4

\* A finite set of numbers has a least and a greatest one.
LEMMA MinMax ==
  ASSUME NEW I \in SUBSET Int, IsFiniteSet(I), I # {}
  PROVE  /\ Min(I) \in I /\ \A j \in I : Min(I) <= j
         /\ Max(I) \in I /\ \A j \in I : j <= Max(I)
<1>1. Cardinality(I) \in Nat \ {0}
  BY FS_CardinalityType, FS_EmptySet
<1>2. \E m \in I : \A j \in I : m <= j
  <2>1. PICK m \in I : Rank(m, I) = 1
    BY <1>1, RankIsPosition
  <2>2. ASSUME NEW j \in I  PROVE m <= j
    <3>1. Rank(j, I) \in 1 .. Cardinality(I)
      BY RankIsPosition
    <3>2. ~(j < m)
      BY <1>1, <2>1, <3>1, RankGrows
    <3> QED  BY <3>2
  <2> QED  BY <2>2
<1>3. \E m \in I : \A j \in I : j <= m
  <2>1. PICK m \in I : Rank(m, I) = Cardinality(I)
    BY <1>1, RankIsPosition
  <2>2. ASSUME NEW j \in I  PROVE j <= m
    <3>1. Rank(j, I) \in 1 .. Cardinality(I)
      BY RankIsPosition
    <3>2. ~(m < j)
      BY <1>1, <2>1, <3>1, RankGrows
    <3> QED  BY <3>2
  <2> QED  BY <2>2
<1> QED  BY <1>2, <1>3 DEF Min, Max

\* A function on the first n numbers is a sequence.
LEMMA SequenceIs ==
  ASSUME NEW T, NEW n \in Nat, NEW f \in [1 .. n -> T]
  PROVE  f \in Seq(T) /\ Len(f) = n /\ DOMAIN f = 1 .. n
OBVIOUS

\* A selection has the elements of the sequence that are in the set, in their order,
\* each as often as the sequence has it.
LEMMA OnlySelects ==
  ASSUME NEW X, NEW seq \in Seq(X), NEW S
  PROVE  LET chosen == Only(seq, S) IN
         /\ chosen \in Seq(X) /\ chosen \in Seq(S)
         /\ Range(chosen) = Range(seq) \cap S
         /\ (\A i, j \in DOMAIN seq : seq[i] = seq[j] => i = j) =>
              \A i, j \in DOMAIN chosen : chosen[i] = chosen[j] => i = j
<1> DEFINE kept == {i \in DOMAIN seq : seq[i] \in S}
           at == [n \in 1 .. Cardinality(kept) |-> CHOOSE i \in kept : Rank(i, kept) = n]
           chosen == Only(seq, S)
<1>1. DOMAIN seq = 1 .. Len(seq) /\ Len(seq) \in Nat /\ \A i \in DOMAIN seq : seq[i] \in X
  BY LenProperties, ElementOfSeq
<1>2. kept \in SUBSET Int /\ IsFiniteSet(kept)
  <2>1. IsFiniteSet(DOMAIN seq)
    BY <1>1, FS_Interval
  <2> QED  BY <1>1, <2>1, FS_Subset
<1>3. Cardinality(kept) \in Nat
  BY <1>2, RankIsPosition
<1>4. \A n \in 1 .. Cardinality(kept) : at[n] \in kept /\ Rank(at[n], kept) = n
  BY <1>2, RankIsPosition
<1>5. chosen = [n \in 1 .. Cardinality(kept) |-> seq[at[n]]]
  BY DEF Only
<1> HIDE DEF at, chosen
<1>6. chosen \in Seq(X) /\ chosen \in Seq(S)
  <2>1. \A n \in 1 .. Cardinality(kept) : seq[at[n]] \in X /\ seq[at[n]] \in S
    BY <1>1, <1>4
  <2>2. chosen \in [1 .. Cardinality(kept) -> X] /\ chosen \in [1 .. Cardinality(kept) -> S]
    BY <1>5, <2>1
  <2> QED  BY <1>3, <2>2, SequenceIs
<1>7. Range(chosen) = Range(seq) \cap S
  <2>1. ASSUME NEW x \in Range(chosen)  PROVE x \in Range(seq) \cap S
    BY <1>4, <1>5, <2>1 DEF Range
  <2>2. ASSUME NEW x \in Range(seq) \cap S  PROVE x \in Range(chosen)
    <3>1. PICK i \in kept : seq[i] = x
      BY DEF Range
    <3>2. Rank(i, kept) \in 1 .. Cardinality(kept)
      BY <1>2, RankIsPosition
    <3>3. at[Rank(i, kept)] = i
      BY <1>2, <1>4, <3>2, RankIsPosition
    <3> QED  BY <1>5, <3>1, <3>2, <3>3 DEF Range
  <2> QED  BY <2>1, <2>2
<1>8. ASSUME \A i, j \in DOMAIN seq : seq[i] = seq[j] => i = j,
             NEW m \in DOMAIN chosen, NEW n \in DOMAIN chosen, chosen[m] = chosen[n]
      PROVE  m = n
  <2>1. m \in 1 .. Cardinality(kept) /\ n \in 1 .. Cardinality(kept)
    BY <1>5
  <2>2. at[m] = at[n]
    BY <1>4, <1>5, <1>8, <2>1
  <2> QED  BY <1>4, <2>1, <2>2
<1> QED  BY <1>6, <1>7, <1>8 DEF chosen
-----------------------------------------------------------------------------
(* The host's cores *)

SameCore(h, c, d) == \E g \in Range(h.groups) : {c, d} \subseteq Range(g)

\* A CPU belongs to one core, and a core's CPUs are as many as its list is long.
LEMMA HostCores ==
  ASSUME NEW h \in Topologies
  PROVE  /\ h.groups \in Seq(Seq(Nat))
         /\ \A i, j \in DOMAIN h.groups : h.groups[i] = h.groups[j] => i = j
         /\ \A g \in Range(h.groups) :
              /\ g \in Seq(Nat) /\ Len(g) \in Nat \ {0} /\ DOMAIN g = 1 .. Len(g)
              /\ \A i, j \in DOMAIN g : g[i] = g[j] => i = j
              /\ Range(g) \subseteq Online(h)
         /\ \A f, g \in Range(h.groups) : Range(f) \cap Range(g) # {} => f = g
         /\ h.apic \in [Online(h) -> Nat]
         /\ \A c, d \in Online(h) : h.apic[c] = h.apic[d] => c = d
<1>1. /\ h.groups \in Seq(Seq(Nat))
      /\ \A g \in Range(h.groups) : g # <<>> /\ IsInjective(g)
      /\ \A i, j \in DOMAIN h.groups :
           i # j => Range(h.groups[i]) \cap Range(h.groups[j]) = {}
      /\ h.apic \in [Online(h) -> Nat] /\ IsInjective(h.apic)
  BY TopologiesAssumption DEF TopologiesAssumption
<1>2. ASSUME NEW g \in Range(h.groups)
      PROVE  /\ g \in Seq(Nat) /\ Len(g) \in Nat \ {0} /\ DOMAIN g = 1 .. Len(g)
             /\ \A i, j \in DOMAIN g : g[i] = g[j] => i = j
             /\ Range(g) \subseteq Online(h)
  <2>1. PICK i \in DOMAIN h.groups : g = h.groups[i]
    BY DEF Range
  <2>2. g \in Seq(Nat)
    BY <1>1, <2>1, ElementOfSeq
  <2>3. Len(g) \in Nat \ {0} /\ DOMAIN g = 1 .. Len(g)
    BY <1>1, <2>2, EmptySeq, LenProperties
  <2>4. \A m, n \in DOMAIN g : g[m] = g[n] => m = n
    BY <1>1 DEF IsInjective
  <2>5. Range(g) \subseteq Online(h)
    BY DEF Online
  <2> QED  BY <2>2, <2>3, <2>4, <2>5
<1>3. ASSUME NEW f \in Range(h.groups), NEW g \in Range(h.groups), Range(f) \cap Range(g) # {}
      PROVE  f = g
  <2>1. PICK i \in DOMAIN h.groups : f = h.groups[i]
    BY DEF Range
  <2>2. PICK j \in DOMAIN h.groups : g = h.groups[j]
    BY DEF Range
  <2> QED  BY <1>1, <1>3, <2>1, <2>2
<1>4. ASSUME NEW i \in DOMAIN h.groups, NEW j \in DOMAIN h.groups, h.groups[i] = h.groups[j]
      PROVE  i = j
  <2>1. h.groups[i] \in Range(h.groups)
    BY DEF Range
  <2>2. h.groups[i][1] \in Range(h.groups[i])
    BY <1>2, <2>1 DEF Range
  <2> QED  BY <1>1, <1>4, <2>2
<1>5. \A c, d \in Online(h) : h.apic[c] = h.apic[d] => c = d
  BY <1>1 DEF IsInjective
<1> QED  BY <1>1, <1>2, <1>3, <1>4, <1>5

\* threads_per_core is the length of the longest list.
LEMMA LongestCore ==
  ASSUME NEW h \in Topologies
  PROVE  /\ HostThreads(h) \in Nat
         /\ \A g \in Range(h.groups) : Len(g) <= HostThreads(h)
         /\ \E g \in Range(h.groups) : Len(g) = HostThreads(h)
<1>1. \A g \in Range(h.groups) : Len(g) \in Nat /\ Cardinality(Range(g)) = Len(g)
  <2>1. ASSUME NEW g \in Range(h.groups)
        PROVE  Len(g) \in Nat /\ Cardinality(Range(g)) = Len(g)
    <3> DEFINE N == 1 .. Len(g)
    <3>1. /\ g \in Seq(Nat) /\ Len(g) \in Nat /\ DOMAIN g = N
          /\ \A i, j \in DOMAIN g : g[i] = g[j] => i = j
      BY HostCores
    <3>2. g \in Surjection(N, Range(g)) /\ g \in Injection(N, Range(g))
      BY <3>1 DEF Surjection, Injection, IsInjective, Range
    <3>3. IsFiniteSet(N) /\ Cardinality(N) = Len(g)
      BY <3>1, FS_Interval
    <3> QED  BY <3>1, <3>2, <3>3, FS_Surjection
  <2> QED  BY <2>1
<1> DEFINE C == {Cardinality(c) : c \in Cores(h)}
           L == [g \in Range(h.groups) |-> Len(g)]
<1>2. C = {Len(g) : g \in Range(h.groups)}
  BY <1>1 DEF Cores
<1>3. IsFiniteSet(C) /\ C # {} /\ C \subseteq Int
  <2>1. h.groups \in Seq(Seq(Nat)) /\ h.groups # <<>>
    BY TopologiesAssumption DEF TopologiesAssumption
  <2>2. Len(h.groups) \in Nat \ {0} /\ DOMAIN h.groups = 1 .. Len(h.groups)
    BY <2>1, EmptySeq, LenProperties
  <2>3. IsFiniteSet(DOMAIN h.groups)
    BY <2>2, FS_Interval
  <2> DEFINE len == [i \in DOMAIN h.groups |-> Len(h.groups[i])]
  <2>4. C = {len[i] : i \in DOMAIN h.groups}
    BY <1>2 DEF Range
  <2>5. len \in Surjection(DOMAIN h.groups, C)
    BY <2>4 DEF Surjection
  <2>6. IsFiniteSet(C)
    BY <2>3, <2>5, FS_Surjection
  <2>7. C # {}
    <3>1. 1 \in DOMAIN h.groups
      BY <2>2
    <3>2. len[1] \in C
      BY <2>4, <3>1
    <3> QED  BY <3>2
  <2>8. C \subseteq Int
    BY <1>1, <1>2
  <2> QED  BY <2>6, <2>7, <2>8
<1>4. Max(C) \in C /\ \A j \in C : j <= Max(C)
  BY <1>3, MinMax
<1>5. HostThreads(h) = Max(C)
  BY DEF HostThreads
<1> HIDE DEF C
<1> QED  BY <1>1, <1>2, <1>4, <1>5
-----------------------------------------------------------------------------
(* The pins that vm_cpu_layout computes *)

SoundPins(h, n, t, pins, emulator) ==
  /\ pins \in [1 .. n -> Online(h)]
  /\ emulator \subseteq Online(h)
  /\ \A i, j \in 1 .. n : pins[i] = pins[j] => i = j
  /\ n > 1 => \A i, j \in 1 .. n : (i - 1) \div t = (j - 1) \div t <=> SameCore(h, pins[i], pins[j])
  /\ n > 1 => \A i \in 1 .. n : \A e \in emulator : ~SameCore(h, pins[i], e)

\* A guest core has the threads that the request divides into.
LEMMA ThreadsDivide ==
  ASSUME NEW h \in Topologies, NEW n \in Nat \ {0}
  PROVE  LET t == Threads(h, n) IN
         /\ t \in {1, 2}
         /\ t = 2 => n % 2 = 0
         /\ n \div t \in Nat \ {0} /\ t * (n \div t) = n /\ n % t = 0
         /\ t = 2 => \E g \in Range(h.groups) : Len(g) >= 2
         /\ t = 1 /\ n % 2 = 0 => \A g \in Range(h.groups) : Len(g) = 1
<1> DEFINE t == Threads(h, n)
<1>1. CASE HostThreads(h) >= 2 /\ n % 2 = 0
  <2>1. t = 2
    BY <1>1 DEF Threads
  <2> HIDE DEF t
  <2>2. n \div 2 \in Nat \ {0} /\ 2 * (n \div 2) = n
    BY <1>1
  <2>3. \E g \in Range(h.groups) : Len(g) >= 2
    BY <1>1, LongestCore
  <2> QED  BY <1>1, <2>1, <2>2, <2>3 DEF t
<1>2. CASE ~(HostThreads(h) >= 2 /\ n % 2 = 0)
  <2>1. t = 1
    BY <1>2 DEF Threads
  <2> HIDE DEF t
  <2>2. n \div 1 = n /\ n % 1 = 0
    OBVIOUS
  <2>3. n % 2 = 0 => \A g \in Range(h.groups) : Len(g) = 1
    <3>1. \A g \in Range(h.groups) : Len(g) \in Nat \ {0}
      BY HostCores
    <3> QED  BY <1>2, <3>1, LongestCore
  <2> QED  BY <2>1, <2>2, <2>3 DEF t
<1> QED  BY <1>1, <1>2

\* The last cores: each pair of threads on a core of its own, the emulator on others.
LEMMA LastCoresAreSound ==
  ASSUME NEW h \in Topologies, NEW n \in Nat \ {0},
         Len(Eligible(h, Threads(h, n))) > n \div Threads(h, n)
  PROVE  LET selected == LastCores(h, n, Threads(h, n))
             pins == CorePins(selected, Threads(h, n))
         IN /\ Len(pins) = n /\ DOMAIN pins = 1 .. n
            /\ SoundPins(h, n, Threads(h, n), pins,
                         UNION (Cores(h) \ {Range(g) : g \in Range(selected)}))
<1> DEFINE t == Threads(h, n)
           k == n \div t
           E == Eligible(h, t)
           selected == LastCores(h, n, t)
           pins == CorePins(selected, t)
           at(m) == selected[((m - 1) \div t) + 1]
<1> HIDE DEF E, selected, pins
<1>1. /\ t \in {1, 2} /\ k \in Nat \ {0} /\ t * k = n
  BY ThreadsDivide
<1>2. /\ E \in Seq(Seq(Nat)) /\ Range(E) \subseteq Range(h.groups)
      /\ \A g \in Range(E) : Len(g) >= t
      /\ \A i, j \in DOMAIN E : E[i] = E[j] => i = j
  <2> DEFINE S == {g \in Range(h.groups) : Len(g) >= t}
  <2>1. h.groups \in Seq(Seq(Nat)) /\ \A i, j \in DOMAIN h.groups : h.groups[i] = h.groups[j] => i = j
    BY HostCores
  <2>2. E = Only(h.groups, S)
    BY DEF Eligible, E
  <2> HIDE DEF t
  <2>3. /\ E \in Seq(Seq(Nat)) /\ Range(E) = Range(h.groups) \cap S
        /\ \A i, j \in DOMAIN E : E[i] = E[j] => i = j
    <3> HIDE DEF S
    <3>1. LET chosen == Only(h.groups, S) IN
          /\ chosen \in Seq(Seq(Nat)) /\ chosen \in Seq(S)
          /\ Range(chosen) = Range(h.groups) \cap S
          /\ (\A i, j \in DOMAIN h.groups : h.groups[i] = h.groups[j] => i = j) =>
               \A i, j \in DOMAIN chosen : chosen[i] = chosen[j] => i = j
      BY <2>1, OnlySelects
    <3> QED  BY <2>1, <2>2, <3>1
  <2> QED  BY <2>3
<1> HIDE DEF t
<1>3. Len(E) \in Nat /\ DOMAIN E = 1 .. Len(E) /\ Len(E) > k
  BY <1>2, LenProperties DEF t, E
<1>4. selected = SubSeq(E, Len(E) - k + 1, Len(E))
  BY DEF LastCores, E, selected
<1>5. /\ Len(selected) = k /\ DOMAIN selected = 1 .. k
      /\ \A i \in 1 .. k : selected[i] = E[Len(E) - k + i] /\ selected[i] \in Range(h.groups)
      /\ \A i, j \in 1 .. k : selected[i] = selected[j] => i = j
  <2> HIDE DEF k
  <2>1. /\ selected \in Seq(Seq(Nat)) /\ Len(selected) = k
        /\ \A i \in 1 .. k : selected[i] = E[Len(E) - k + i]
    <3>1. Len(E) - k + 1 \in 1 .. Len(E) + 1 /\ Len(E) \in Len(E) - k .. Len(E)
      BY <1>1, <1>3
    <3>2. /\ selected \in Seq(Seq(Nat))
          /\ Len(selected) = Len(E) - (Len(E) - k + 1) + 1
          /\ \A i \in 1 .. Len(E) - (Len(E) - k + 1) + 1 :
               selected[i] = E[Len(E) - k + 1 + i - 1]
      BY <1>2, <1>4, <3>1, SubSeqProperties
    <3>3. Len(E) - (Len(E) - k + 1) + 1 = k /\ \A i \in 1 .. k : Len(E) - k + 1 + i - 1 = Len(E) - k + i
      BY <1>1, <1>3
    <3> QED  BY <3>2, <3>3
  <2>2. \A i \in 1 .. k : Len(E) - k + i \in DOMAIN E
    BY <1>1, <1>3
  <2>3. \A i \in 1 .. k : selected[i] \in Range(h.groups)
    BY <1>2, <2>1, <2>2 DEF Range
  <2>4. ASSUME NEW i \in 1 .. k, NEW j \in 1 .. k, selected[i] = selected[j]  PROVE i = j
    <3>1. Len(E) - k + i = Len(E) - k + j
      BY <1>2, <2>1, <2>2, <2>4
    <3> QED  BY <1>1, <1>3, <3>1
  <2> QED  BY <1>1, <2>1, <2>3, <2>4, LenProperties
<1>6. pins = [m \in 1 .. n |-> at(m)[((m - 1) % t) + 1]]
  BY <1>1, <1>5 DEF CorePins, pins
<1> HIDE DEF k
<1>7. ASSUME NEW m \in 1 .. n
      PROVE  /\ ((m - 1) \div t) + 1 \in 1 .. k
             /\ at(m) \in Range(h.groups) /\ at(m) \in Range(selected)
             /\ ((m - 1) % t) + 1 \in 1 .. Len(at(m)) /\ DOMAIN at(m) = 1 .. Len(at(m))
             /\ pins[m] \in Range(at(m))
  <2>1. ((m - 1) \div t) + 1 \in 1 .. k /\ ((m - 1) % t) + 1 \in 1 .. t
    <3>1. CASE t = 1
      BY <1>1, <3>1
    <3>2. CASE t = 2
      BY <1>1, <3>2
    <3> QED  BY <1>1, <3>1, <3>2
  <2>2. at(m) \in Range(h.groups) /\ at(m) \in Range(selected) /\ at(m) \in Range(E)
    <3> DEFINE i == ((m - 1) \div t) + 1
    <3>1. i \in 1 .. k
      BY <2>1
    <3> HIDE DEF i
    <3>2. Len(E) - k + i \in DOMAIN E
      BY <1>1, <1>3, <3>1
    <3>3. /\ selected[i] \in Range(h.groups) /\ selected[i] \in Range(selected)
          /\ selected[i] \in Range(E)
      BY <1>5, <3>1, <3>2 DEF Range
    <3> QED  BY <3>3 DEF i
  <2>3. Len(at(m)) \in Nat /\ Len(at(m)) >= t /\ DOMAIN at(m) = 1 .. Len(at(m))
    BY <1>2, <2>2, HostCores
  <2>4. ((m - 1) % t) + 1 \in 1 .. Len(at(m))
    BY <1>1, <2>1, <2>3
  <2>5. pins[m] = at(m)[((m - 1) % t) + 1]
    BY <1>6
  <2> QED  BY <2>1, <2>2, <2>3, <2>4, <2>5 DEF Range
<1>8. \A i, j \in 1 .. n : at(i) = at(j) <=> (i - 1) \div t = (j - 1) \div t
  <2>1. ASSUME NEW i \in 1 .. n, NEW j \in 1 .. n, at(i) = at(j)
        PROVE  (i - 1) \div t = (j - 1) \div t
    <3>1. ((i - 1) \div t) + 1 \in 1 .. k /\ ((j - 1) \div t) + 1 \in 1 .. k
      BY <1>7
    <3>2. ((i - 1) \div t) + 1 = ((j - 1) \div t) + 1
      BY <1>5, <2>1, <3>1
    <3>3. (i - 1) \div t \in Int /\ (j - 1) \div t \in Int
      BY <1>1
    <3> QED  BY <3>2, <3>3
  <2> QED  BY <2>1
<1> HIDE DEF at
<1>9. pins \in [1 .. n -> Online(h)]
  BY <1>6, <1>7, HostCores
<1>10. \A i, j \in 1 .. n : (i - 1) \div t = (j - 1) \div t <=> SameCore(h, pins[i], pins[j])
  <2>1. ASSUME NEW i \in 1 .. n, NEW j \in 1 .. n
        PROVE  at(i) = at(j) <=> SameCore(h, pins[i], pins[j])
    <3>1. at(i) = at(j) => SameCore(h, pins[i], pins[j])
      BY <1>7 DEF SameCore
    <3>2. ASSUME NEW g \in Range(h.groups), {pins[i], pins[j]} \subseteq Range(g)
          PROVE  at(i) = at(j)
      <4>1. g = at(i)
        BY <1>7, <3>2, HostCores
      <4>2. g = at(j)
        BY <1>7, <3>2, HostCores
      <4> QED  BY <4>1, <4>2
    <3> QED  BY <3>1, <3>2 DEF SameCore
  <2> QED  BY <1>8, <2>1
<1>11. ASSUME NEW i \in 1 .. n, NEW j \in 1 .. n, pins[i] = pins[j]
       PROVE  i = j
  <2>1. at(i) = at(j)
    BY <1>7, <1>11, HostCores
  <2>2. (i - 1) \div t = (j - 1) \div t
    BY <1>8, <2>1
  <2>3. at(i)[((i - 1) % t) + 1] = at(i)[((j - 1) % t) + 1]
    BY <1>6, <1>11, <2>1
  <2>4. ((i - 1) % t) + 1 = ((j - 1) % t) + 1
    <3>1. \A a, b \in DOMAIN at(i) : at(i)[a] = at(i)[b] => a = b
      BY <1>7, HostCores
    <3> QED  BY <1>7, <2>1, <2>3, <3>1
  <2>5. CASE t = 1
    BY <2>2, <2>5
  <2>6. CASE t = 2
    BY <2>2, <2>4, <2>6
  <2> QED  BY <1>1, <2>5, <2>6
<1> DEFINE emulator == UNION (Cores(h) \ {Range(g) : g \in Range(selected)})
<1>12. emulator \subseteq Online(h)
  BY DEF Cores, Online
<1>13. ASSUME NEW i \in 1 .. n, NEW e \in emulator, SameCore(h, pins[i], e)
       PROVE  FALSE
  <2>1. PICK g \in Range(h.groups) : {pins[i], e} \subseteq Range(g)
    BY <1>13 DEF SameCore
  <2>2. PICK f \in Range(h.groups) : e \in Range(f) /\ Range(f) \notin {Range(s) : s \in Range(selected)}
    BY DEF Cores
  <2>3. f = g /\ g = at(i)
    BY <1>7, <2>1, <2>2, HostCores
  <2> QED  BY <1>7, <2>2, <2>3
<1>14. Len(pins) = n /\ DOMAIN pins = 1 .. n
  BY <1>6
<1>15. SoundPins(h, n, t, pins, emulator)
  BY <1>9, <1>10, <1>11, <1>12, <1>13 DEF SoundPins
<1> QED  BY <1>14, <1>15 DEF t, selected, pins

\* Two threads of a pair of APIC IDs make up their core.
LEMMA PairIsCore ==
  ASSUME NEW h \in Topologies, h.vendor = "amd", NEW f \in Range(h.groups), Len(f) >= 2,
         NEW c \in Online(h), NEW d \in Online(h), c # d, h.apic[c] \div 2 = h.apic[d] \div 2
  PROVE  \E g \in Range(h.groups) : Range(g) = {c, d}
<1>1. /\ \A g \in Range(h.groups) : Len(g) <= 2
      /\ (\E g \in Range(h.groups) : Len(g) >= 2) =>
           \A a, b \in Online(h) : h.apic[a] \div 2 = h.apic[b] \div 2 =>
             \E g \in Range(h.groups) : {a, b} \subseteq Range(g)
  BY SmtAssumption DEF SmtAssumption
<1>2. PICK g \in Range(h.groups) : {c, d} \subseteq Range(g)
  BY <1>1
<1>3. Len(g) \in Nat /\ Len(g) <= 2 /\ DOMAIN g = 1 .. Len(g)
  BY <1>1, HostCores
<1>4. \A i \in DOMAIN g : i = 1 \/ i = 2
  BY <1>3
<1>5. Range(g) = {c, d}
  BY <1>2, <1>4 DEF Range
<1> QED  BY <1>5

\* A request for an odd number of CPUs from a host with SMT takes one CPU only: of
\* three, two are of one core, and three cores are not whole.
LEMMA OddIsSingle ==
  ASSUME NEW h \in Topologies, NEW n \in Nat \ {0}, ApicAligned(h, n, 1),
         NEW f \in Range(h.groups), Len(f) >= 2
  PROVE  n = 1
<1> DEFINE pinned == Range(ApicPins(h, n))
           E == Eligible(h, 1)
           whole == {g \in Range(E) : Range(SubSeq(g, 1, 1)) \subseteq pinned}
           first == [g \in whole |-> g[1]]
           pin(i) == ApicPins(h, n)[i]
<1>1. /\ h.vendor = "amd"
      /\ \A m \in 1 .. n : \E c \in Online(h) : h.apic[c] = m - 1
      /\ Cardinality(whole) = n \div 1
  BY DEF ApicAligned
<1>2. \A i \in 1 .. n : pin(i) \in Online(h) /\ h.apic[pin(i)] = i - 1
  BY <1>1 DEF ApicPins
<1>3. Range(E) = Range(h.groups)
  <2> DEFINE S == {g \in Range(h.groups) : Len(g) >= 1}
  <2>1. Range(h.groups) = Range(h.groups) \cap S
    BY HostCores
  <2> HIDE DEF S
  <2>2. Range(Only(h.groups, S)) = Range(h.groups) \cap S
    BY HostCores, OnlySelects
  <2> QED  BY <2>1, <2>2 DEF Eligible, S
<1>4. \A g \in Range(h.groups) : g[1] \in Range(g) /\ Range(SubSeq(g, 1, 1)) = {g[1]}
  <2>1. ASSUME NEW g \in Range(h.groups)
        PROVE  g[1] \in Range(g) /\ Range(SubSeq(g, 1, 1)) = {g[1]}
    <3>1. g \in Seq(Nat) /\ Len(g) \in Nat \ {0} /\ DOMAIN g = 1 .. Len(g)
      BY HostCores
    <3>2. /\ Len(SubSeq(g, 1, 1)) = 1 /\ SubSeq(g, 1, 1)[1] = g[1]
          /\ DOMAIN SubSeq(g, 1, 1) = {1}
      BY <3>1
    <3> QED  BY <3>1, <3>2 DEF Range
  <2> QED  BY <2>1
<1>5. IsFiniteSet(pinned) /\ Cardinality(pinned) <= n /\ Cardinality(pinned) \in Nat
  <2>1. IsFiniteSet(1 .. n) /\ Cardinality(1 .. n) = n
    BY FS_Interval
  <2>2. ApicPins(h, n) \in Surjection(1 .. n, pinned)
    BY DEF ApicPins, Surjection, Range
  <2> QED  BY <2>1, <2>2, FS_Surjection, FS_CardinalityType
<1>6. SUFFICES ASSUME n >= 2  PROVE FALSE
  OBVIOUS
<1>7. PICK g \in Range(h.groups) : Range(g) = {pin(1), pin(2)}
  <2>1. /\ pin(1) \in Online(h) /\ pin(2) \in Online(h)
        /\ h.apic[pin(1)] = 0 /\ h.apic[pin(2)] = 1
    BY <1>2, <1>6
  <2>2. pin(1) # pin(2) /\ h.apic[pin(1)] \div 2 = h.apic[pin(2)] \div 2
    BY <2>1
  <2> QED  BY <1>1, <2>1, <2>2, PairIsCore
<1>8. PICK x \in {pin(1), pin(2)} : x # g[1]
  <2>1. pin(1) # pin(2)
    BY <1>2, <1>6
  <2> QED  BY <2>1
<1>9. x \in pinned
  BY <1>6 DEF ApicPins, Range
<1>10. first \in Injection(whole, pinned \ {x})
  <2>1. ASSUME NEW k \in whole  PROVE first[k] \in pinned \ {x}
    <3>1. k \in Range(h.groups) /\ k[1] \in pinned /\ k[1] \in Range(k)
      BY <1>3, <1>4
    <3>2. k[1] # x
      <4>1. CASE k = g
        BY <1>8, <4>1
      <4>2. CASE k # g
        <5>1. x \in Range(g)
          BY <1>7, <1>8
        <5>2. x \notin Range(k)
          BY <3>1, <4>2, <5>1, HostCores
        <5> QED  BY <3>1, <5>2
      <4> QED  BY <4>1, <4>2
    <3> QED  BY <3>1, <3>2
  <2>2. ASSUME NEW a \in whole, NEW b \in whole, first[a] = first[b]  PROVE a = b
    <3>1. /\ a \in Range(h.groups) /\ b \in Range(h.groups)
          /\ a[1] \in Range(a) /\ a[1] \in Range(b)
      BY <1>3, <1>4, <2>2
    <3> QED  BY <3>1, HostCores
  <2> QED  BY <2>1, <2>2 DEF Injection, IsInjective
<1>11. Cardinality(pinned \ {x}) = Cardinality(pinned) - 1 /\ IsFiniteSet(pinned \ {x})
  BY <1>5, <1>9, FS_RemoveElement
<1>12. Cardinality(whole) <= Cardinality(pinned \ {x})
  BY <1>10, <1>11, FS_Injection
<1> HIDE DEF whole, pinned
<1> QED  BY <1>1, <1>5, <1>11, <1>12

\* The pins by APIC ID: a guest core has the pair of IDs of a host core.
LEMMA ApicPinsAreSound ==
  ASSUME NEW h \in Topologies, NEW n \in Nat \ {0}, ApicAligned(h, n, Threads(h, n))
  PROVE  LET pins == ApicPins(h, n) IN
         /\ Len(pins) = n /\ DOMAIN pins = 1 .. n
         /\ SoundPins(h, n, Threads(h, n), pins, Online(h) \ Range(pins))
<1> DEFINE t == Threads(h, n)
           pins == ApicPins(h, n)
           emulator == Online(h) \ Range(pins)
<1>1. h.vendor = "amd" /\ \A m \in 1 .. n : \E c \in Online(h) : h.apic[c] = m - 1
  BY DEF ApicAligned
<1>2. Len(pins) = n /\ DOMAIN pins = 1 .. n
  BY DEF ApicPins
<1>3. \A i \in 1 .. n : pins[i] \in Online(h) /\ h.apic[pins[i]] = i - 1 /\ pins[i] \in Range(pins)
  BY <1>1 DEF ApicPins, Range
<1>4. pins \in [1 .. n -> Online(h)]
  BY <1>3 DEF ApicPins
<1> HIDE DEF pins
<1>5. ASSUME NEW i \in 1 .. n, NEW j \in 1 .. n, pins[i] = pins[j]  PROVE i = j
  <2>1. i - 1 = j - 1
    BY <1>3, <1>5
  <2> QED  BY <2>1
<1>6. \A i \in 1 .. n : SameCore(h, pins[i], pins[i])
  <2>1. \A c \in Online(h) : SameCore(h, c, c)
    BY DEF Online, SameCore
  <2> QED  BY <1>3, <2>1
<1>7. /\ t \in {1, 2}
      /\ t = 2 => n % 2 = 0
      /\ t = 2 => \E g \in Range(h.groups) : Len(g) >= 2
      /\ t = 1 /\ n % 2 = 0 => \A g \in Range(h.groups) : Len(g) = 1
  BY ThreadsDivide
<1>9. CASE t = 2
  <2>1. PICK f \in Range(h.groups) : Len(f) >= 2
    BY <1>7, <1>9
  <2>2. ASSUME NEW i \in 1 .. n, NEW e \in Online(h), SameCore(h, pins[i], e)
        PROVE  \E j \in 1 .. n : e = pins[j] /\ (i - 1) \div 2 = (j - 1) \div 2
    <3> DEFINE k == IF i % 2 = 1 THEN i + 1 ELSE i - 1
    <3>1. k \in 1 .. n /\ k # i /\ (i - 1) \div 2 = (k - 1) \div 2
      BY <1>7, <1>9
    <3> HIDE DEF k
    <3>2. /\ pins[i] \in Online(h) /\ h.apic[pins[i]] = i - 1
          /\ pins[k] \in Online(h) /\ h.apic[pins[k]] = k - 1
      BY <1>3, <3>1
    <3>3. pins[i] # pins[k] /\ h.apic[pins[i]] \div 2 = h.apic[pins[k]] \div 2
      BY <1>5, <3>1, <3>2
    <3>4. PICK g \in Range(h.groups) : Range(g) = {pins[i], pins[k]}
      BY <1>1, <2>1, <3>2, <3>3, PairIsCore
    <3>5. PICK d \in Range(h.groups) : {pins[i], e} \subseteq Range(d)
      BY <2>2 DEF SameCore
    <3>6. d = g
      BY <3>4, <3>5, HostCores
    <3> QED  BY <3>1, <3>4, <3>5, <3>6
  <2>3. ASSUME NEW i \in 1 .. n, NEW j \in 1 .. n, (i - 1) \div 2 = (j - 1) \div 2
        PROVE  SameCore(h, pins[i], pins[j])
    <3>1. CASE i = j
      BY <1>6, <3>1
    <3>2. CASE i # j
      <4>1. /\ pins[i] \in Online(h) /\ h.apic[pins[i]] = i - 1
            /\ pins[j] \in Online(h) /\ h.apic[pins[j]] = j - 1
        BY <1>3
      <4>2. pins[i] # pins[j] /\ h.apic[pins[i]] \div 2 = h.apic[pins[j]] \div 2
        BY <1>5, <2>3, <3>2, <4>1
      <4>3. PICK g \in Range(h.groups) : Range(g) = {pins[i], pins[j]}
        BY <1>1, <2>1, <4>1, <4>2, PairIsCore
      <4> QED  BY <4>3 DEF SameCore
    <3> QED  BY <3>1, <3>2
  <2>4. \A i, j \in 1 .. n : SameCore(h, pins[i], pins[j]) => (i - 1) \div 2 = (j - 1) \div 2
    <3>1. ASSUME NEW i \in 1 .. n, NEW j \in 1 .. n, SameCore(h, pins[i], pins[j])
          PROVE  (i - 1) \div 2 = (j - 1) \div 2
      <4>1. PICK k \in 1 .. n : pins[j] = pins[k] /\ (i - 1) \div 2 = (k - 1) \div 2
        BY <1>3, <2>2, <3>1
      <4>2. j = k
        BY <1>5, <4>1
      <4> QED  BY <4>1, <4>2
    <3> QED  BY <3>1
  <2>5. \A i \in 1 .. n : \A e \in emulator : ~SameCore(h, pins[i], e)
    BY <1>3, <2>2
  <2> QED  BY <1>2, <1>4, <1>5, <1>9, <2>3, <2>4, <2>5 DEF SoundPins, pins
<1>10. CASE t = 1 /\ \A g \in Range(h.groups) : Len(g) = 1
  <2>1. ASSUME NEW c \in Online(h), NEW d \in Online(h), SameCore(h, c, d)  PROVE c = d
    <3>1. PICK g \in Range(h.groups) : {c, d} \subseteq Range(g)
      BY <2>1 DEF SameCore
    <3>2. \A i \in DOMAIN g : i = 1
      BY <1>10, HostCores
    <3> QED  BY <3>1, <3>2 DEF Range
  <2>2. \A i, j \in 1 .. n : (i - 1) \div 1 = (j - 1) \div 1 <=> SameCore(h, pins[i], pins[j])
    <3>1. ASSUME NEW i \in 1 .. n, NEW j \in 1 .. n
          PROVE  (i - 1) \div 1 = (j - 1) \div 1 <=> i = j
      <4>1. (i - 1) \div 1 = i - 1 /\ (j - 1) \div 1 = j - 1
        OBVIOUS
      <4> QED  BY <4>1
    <3>2. \A i, j \in 1 .. n : i = j <=> SameCore(h, pins[i], pins[j])
      BY <1>3, <1>5, <1>6, <2>1
    <3> QED  BY <3>1, <3>2
  <2>3. \A i \in 1 .. n : \A e \in emulator : ~SameCore(h, pins[i], e)
    BY <1>3, <2>1
  <2> QED  BY <1>2, <1>4, <1>5, <1>10, <2>2, <2>3 DEF SoundPins, pins
<1>11. CASE t = 1 /\ \E g \in Range(h.groups) : Len(g) # 1
  <2>1. PICK f \in Range(h.groups) : Len(f) >= 2
    <3>1. \A g \in Range(h.groups) : Len(g) \in Nat \ {0}
      BY HostCores
    <3>2. PICK g \in Range(h.groups) : Len(g) # 1
      BY <1>11
    <3>3. Len(g) \in Nat \ {0}
      BY <3>1
    <3>4. \A m \in Nat \ {0} : m # 1 => m >= 2
      OBVIOUS
    <3>5. Len(g) >= 2
      BY <3>2, <3>3, <3>4, Zenon
    <3> QED  BY <3>5
  <2>2. n = 1
    BY <1>11, <2>1, OddIsSingle
  <2> QED  BY <1>2, <1>4, <1>5, <2>2 DEF SoundPins, pins
<1> QED  BY <1>7, <1>9, <1>10, <1>11

\* What vm_cpu_layout returns: no pins, or sound ones and some CPU for the emulator.
LEMMA VmCpuLayoutIsSound ==
  ASSUME NEW h \in Topologies, NEW n \in Nat \ {0}
  PROVE  LET r == VmCpuLayout(h, n) IN
         /\ r = [vcpus |-> n, threads |-> Threads(h, n), pins |-> r.pins, emulator |-> r.emulator]
         /\ \/ r.pins = <<>> /\ r.emulator \subseteq Online(h)
            \/ /\ Len(r.pins) = n /\ DOMAIN r.pins = 1 .. n
               /\ SoundPins(h, n, Threads(h, n), r.pins, r.emulator)
<1> DEFINE t == Threads(h, n)
           E == Eligible(h, t)
           k == n \div t
           selected == LastCores(h, n, t)
           rest == UNION (Cores(h) \ {Range(g) : g \in Range(selected)})
           pins == CorePins(selected, t)
           aligned == ApicPins(h, n)
           r == VmCpuLayout(h, n)
           Made(p, e) == [vcpus |-> n, threads |-> t, pins |-> p, emulator |-> e]
<1>1. Len(E) \in Nat
  <2> DEFINE S == {g \in Range(h.groups) : Len(g) >= t}
  <2> HIDE DEF S
  <2>1. Only(h.groups, S) \in Seq(Seq(Nat))
    BY HostCores, OnlySelects
  <2> QED  BY <2>1, LenProperties DEF Eligible, S
<1>2. k \in Nat
  BY ThreadsDivide
<1>3. \/ r = Made(<<>>, {})
      \/ Len(E) > k /\ ApicAligned(h, n, t) /\ r = Made(aligned, Online(h) \ Range(aligned))
      \/ Len(E) > k /\ r = Made(IF Len(pins) = n THEN pins ELSE <<>>, rest)
  <2> HIDE DEF t, E, k, selected, pins, aligned, rest
  <2> QED  BY <1>1, <1>2 DEF VmCpuLayout, t, E, k, selected, pins, aligned, rest
<1> HIDE DEF t, E, k, selected, pins, aligned, rest, r
<1>4. CASE r = Made(<<>>, {})
  BY <1>4 DEF t, r
<1>5. CASE ApicAligned(h, n, t) /\ r = Made(aligned, Online(h) \ Range(aligned))
  <2>1. /\ Len(aligned) = n /\ DOMAIN aligned = 1 .. n
        /\ SoundPins(h, n, t, aligned, Online(h) \ Range(aligned))
    BY <1>5, ApicPinsAreSound DEF t, aligned
  <2> QED  BY <1>5, <2>1 DEF t, r
<1>6. CASE Len(E) > k /\ r = Made(IF Len(pins) = n THEN pins ELSE <<>>, rest)
  <2>1. Len(pins) = n /\ DOMAIN pins = 1 .. n /\ SoundPins(h, n, t, pins, rest)
    BY <1>6, LastCoresAreSound DEF t, E, k, selected, pins, rest
  <2> QED  BY <1>6, <2>1 DEF t, r
<1> QED  BY <1>3, <1>4, <1>5, <1>6 DEF t, r

\* What build_domain_xml makes of it: all of the pins, or none and no emulator's.
LEMMA BuiltCpus ==
  ASSUME NEW h \in Topologies, NEW n \in Nat \ {0}
  PROVE  LET r == VmCpuLayout(h, n)
             b == BuildCpus(r) IN
         /\ r.vcpus = n /\ r.threads \in {1, 2}
         /\ r.pins \in Seq(Online(h)) /\ r.emulator \subseteq Online(h)
         /\ b.threads = r.threads /\ b.cores \in 1 .. n /\ b.cores * b.threads = n
         /\ b.pins \in Seq(Online(h)) /\ b.emulator \subseteq Online(h)
         /\ b.pins # <<>> => /\ Len(b.pins) = n /\ DOMAIN b.pins = 1 .. n /\ b.emulator # {}
                             /\ SoundPins(h, n, b.threads, b.pins, b.emulator)
<1> DEFINE t == Threads(h, n)
           r == VmCpuLayout(h, n)
           b == BuildCpus(r)
<1>1. /\ r = [vcpus |-> n, threads |-> t, pins |-> r.pins, emulator |-> r.emulator]
      /\ \/ r.pins = <<>> /\ r.emulator \subseteq Online(h)
         \/ /\ Len(r.pins) = n /\ DOMAIN r.pins = 1 .. n
            /\ SoundPins(h, n, t, r.pins, r.emulator)
  BY VmCpuLayoutIsSound
<1>2. t \in {1, 2} /\ n \div t \in Nat \ {0} /\ t * (n \div t) = n /\ n % t = 0
  BY ThreadsDivide
<1> HIDE DEF t, r
<1>3. r.vcpus = n /\ r.threads = t
  BY <1>1
<1>4. /\ b.threads = t /\ b.cores = n \div t
      /\ b.pins = (IF Len(r.pins) = n /\ r.emulator # {} THEN r.pins ELSE <<>>)
      /\ b.emulator = (IF Len(r.pins) = n /\ r.emulator # {} THEN r.emulator ELSE {})
  BY <1>2, <1>3 DEF BuildCpus
<1> HIDE DEF b
<1>5. n \div t \in 1 .. n /\ (n \div t) * t = n
  <2>1. CASE t = 1
    BY <1>2, <2>1
  <2>2. CASE t = 2
    BY <1>2, <2>2
  <2> QED  BY <1>2, <2>1, <2>2
<1>6. CASE r.pins = <<>> /\ r.emulator \subseteq Online(h)
  <2>1. Len(r.pins) = 0
    BY <1>6
  <2>2. b.pins = <<>> /\ b.emulator = {}
    BY <1>4, <2>1
  <2>3. <<>> \in Seq(Online(h))
    OBVIOUS
  <2> QED  BY <1>2, <1>3, <1>4, <1>5, <1>6, <2>2, <2>3 DEF r, b
<1>7. CASE /\ Len(r.pins) = n /\ DOMAIN r.pins = 1 .. n
           /\ SoundPins(h, n, t, r.pins, r.emulator)
  <2>1. r.pins \in [1 .. n -> Online(h)] /\ r.emulator \subseteq Online(h)
    BY <1>7 DEF SoundPins
  <2>2. r.pins \in Seq(Online(h))
    BY <2>1, SequenceIs
  <2>3. <<>> \in Seq(Online(h)) /\ {} \subseteq Online(h)
    OBVIOUS
  <2>4. CASE r.emulator # {}
    <3>1. b.pins = r.pins /\ b.emulator = r.emulator
      BY <1>4, <1>7, <2>4
    <3> QED  BY <1>2, <1>3, <1>4, <1>5, <1>7, <2>1, <2>2, <2>4, <3>1 DEF r, b
  <2>5. CASE r.emulator = {}
    <3>1. b.pins = <<>> /\ b.emulator = {}
      BY <1>4, <2>5
    <3> QED  BY <1>2, <1>3, <1>4, <1>5, <2>1, <2>2, <2>3, <3>1 DEF r, b
  <2> QED  BY <2>4, <2>5
<1> QED  BY <1>1, <1>6, <1>7

\* The profile's layout is the one computed for the host as it was, the definition's the
\* one built from the profile.
CpusInv ==
  /\ {topology, measured} \subseteq Topologies
  /\ \E n \in 1 .. MaxVcpus : resources = VmCpuLayout(measured, n)
  /\ cpus = BuildCpus(resources)

LEMMA CpusInvariant == CpusSpec => []CpusInv
<1>1. CpusInit => CpusInv
  BY MaxVcpusAssumption DEF CpusInit, CpusInv, Creatable, MaxVcpusAssumption
<1>2. CpusInv /\ [CpusNext]_cpuVars => CpusInv'
  <2> SUFFICES ASSUME CpusInv, [CpusNext]_cpuVars  PROVE CpusInv'
    OBVIOUS
  <2>1. ASSUME NEW vcpus \in 1 .. MaxVcpus, ConfigureCpuLayout(vcpus)  PROVE CpusInv'
    BY <2>1 DEF ConfigureCpuLayout, CpusInv
  <2>2. CASE RebuildCpus
    BY <2>2 DEF RebuildCpus, CpusInv
  <2>3. CASE RebootCpus
    BY <2>3 DEF RebootCpus, CpusInv
  <2>4. CASE UNCHANGED cpuVars
    BY <2>4 DEF cpuVars, CpusInv
  <2> QED  BY <2>1, <2>2, <2>3, <2>4 DEF CpusNext
<1> QED  BY <1>1, <1>2, PTL DEF CpusSpec

LEMMA CpusTyped == CpusInv => CpusTypeOK
<1> SUFFICES ASSUME CpusInv  PROVE CpusTypeOK
  OBVIOUS
<1>1. PICK n \in 1 .. MaxVcpus : resources = VmCpuLayout(measured, n)
  BY DEF CpusInv
<1>2. n \in Nat \ {0} /\ n <= MaxVcpus /\ MaxVcpus \in Nat
  BY MaxVcpusAssumption DEF MaxVcpusAssumption
<1>3. /\ {topology, measured} \subseteq Topologies /\ cpus = BuildCpus(resources)
      /\ Online(measured) \subseteq AllCpus
  BY DEF CpusInv, AllCpus
<1>4. /\ resources.vcpus = n /\ resources.threads \in {1, 2}
      /\ resources.pins \in Seq(Online(measured)) /\ resources.emulator \subseteq Online(measured)
      /\ cpus.threads = resources.threads /\ cpus.cores \in 1 .. n
      /\ cpus.pins \in Seq(Online(measured)) /\ cpus.emulator \subseteq Online(measured)
  BY <1>1, <1>2, <1>3, BuiltCpus
<1>5. resources.pins \in Seq(AllCpus) /\ cpus.pins \in Seq(AllCpus)
  BY <1>3, <1>4, SeqMonotonic
<1> QED  BY <1>2, <1>3, <1>4, <1>5 DEF CpusTypeOK

LEMMA CpusWhole == CpusInv => PinsAreWholeCores
<1> SUFFICES ASSUME CpusInv  PROVE PinsAreWholeCores
  OBVIOUS
<1> DEFINE h == measured
           t == cpus.threads
           core == [m \in DOMAIN cpus.pins |-> CHOOSE c \in Cores(h) : cpus.pins[m] \in c]
<1>1. PICK n \in 1 .. MaxVcpus : resources = VmCpuLayout(h, n)
  BY DEF CpusInv
<1>2. n \in Nat \ {0} /\ h \in Topologies /\ cpus = BuildCpus(resources)
  BY MaxVcpusAssumption DEF MaxVcpusAssumption, CpusInv
<1>3. /\ resources.vcpus = n /\ cpus.cores * t = n
      /\ cpus.pins # <<>> => /\ Len(cpus.pins) = n /\ DOMAIN cpus.pins = 1 .. n
                             /\ cpus.emulator # {}
                             /\ SoundPins(h, n, t, cpus.pins, cpus.emulator)
  BY <1>1, <1>2, BuiltCpus
<1> SUFFICES ASSUME cpus.pins # <<>>
             PROVE  /\ Len(cpus.pins) = n
                    /\ \A i, j \in DOMAIN cpus.pins :
                         /\ i # j => cpus.pins[i] # cpus.pins[j]
                         /\ ((i - 1) \div t = (j - 1) \div t) = (core[i] = core[j])
                    /\ cpus.emulator # {}
                    /\ n > 1 => \A i \in DOMAIN cpus.pins : core[i] \cap cpus.emulator = {}
  BY <1>3 DEF PinsAreWholeCores
<1>4. /\ Len(cpus.pins) = n /\ DOMAIN cpus.pins = 1 .. n /\ cpus.emulator # {}
      /\ SoundPins(h, n, t, cpus.pins, cpus.emulator)
  BY <1>3
<1>5. ASSUME NEW i \in 1 .. n
      PROVE  core[i] \in Cores(h) /\ \A d : d \in core[i] <=> SameCore(h, cpus.pins[i], d)
  <2>1. cpus.pins[i] \in Online(h)
    BY <1>4 DEF SoundPins
  <2>2. PICK g \in Range(h.groups) : cpus.pins[i] \in Range(g)
    BY <2>1 DEF Online
  <2>3. Range(g) \in Cores(h)
    BY <2>2 DEF Cores
  <2> DEFINE p == cpus.pins[i]
  <2> HIDE DEF p
  <2>7. \A f \in Range(h.groups) : p \in Range(f) => f = g
    BY <1>2, <2>2, HostCores DEF p
  <2>4. \A c \in Cores(h) : p \in c => c = Range(g)
    BY <2>7 DEF Cores
  <2>5. core[i] = Range(g)
    BY <1>4, <2>2, <2>3, <2>4 DEF p
  <2>6. \A d : d \in Range(g) <=> SameCore(h, p, d)
    BY <2>2, <2>7 DEF SameCore, p
  <2> QED  BY <2>3, <2>5, <2>6 DEF p
<1> HIDE DEF core
<1>6. ASSUME NEW i \in 1 .. n, NEW j \in 1 .. n
      PROVE  /\ i # j => cpus.pins[i] # cpus.pins[j]
             /\ (i - 1) \div t = (j - 1) \div t <=> core[i] = core[j]
  <2>1. SameCore(h, cpus.pins[i], cpus.pins[j]) <=> core[i] = core[j]
    <3>1. cpus.pins[i] \in Online(h) /\ cpus.pins[j] \in Online(h)
      BY <1>4 DEF SoundPins
    <3>2. SameCore(h, cpus.pins[j], cpus.pins[j])
      BY <3>1 DEF Online, SameCore
    <3>3. core[i] = core[j] => SameCore(h, cpus.pins[i], cpus.pins[j])
      BY <1>5, <3>2
    <3>4. ASSUME SameCore(h, cpus.pins[i], cpus.pins[j])  PROVE core[i] = core[j]
      <4>1. PICK f \in Range(h.groups) : core[i] = Range(f)
        BY <1>5 DEF Cores
      <4>2. PICK g \in Range(h.groups) : core[j] = Range(g)
        BY <1>5 DEF Cores
      <4>3. cpus.pins[j] \in Range(f) /\ cpus.pins[j] \in Range(g)
        BY <1>5, <3>2, <3>4, <4>1, <4>2
      <4> QED  BY <1>2, <4>1, <4>2, <4>3, HostCores
    <3> QED  BY <3>3, <3>4
  <2>2. CASE n > 1
    BY <1>4, <2>1, <2>2 DEF SoundPins
  <2>3. CASE n = 1
    <3>1. i = j
      BY <2>3
    <3> QED  BY <3>1
  <2> QED  BY <1>2, <2>2, <2>3
<1>7. ASSUME n > 1, NEW i \in 1 .. n  PROVE core[i] \cap cpus.emulator = {}
  BY <1>4, <1>5, <1>7 DEF SoundPins
<1>8. \A i, j \in DOMAIN cpus.pins : ((i - 1) \div t = (j - 1) \div t) = (core[i] = core[j])
  BY <1>4, <1>6
<1> QED  BY <1>4, <1>6, <1>7, <1>8

\* Whatever the host's cores, requests and reboots: the profile and the definition hold
\* CPUs of some host, a power of two of threads and as many cores as the request has.
THEOREM CpuTypes == CpusSpec => []CpusTypeOK
BY CpusInvariant, CpusTyped, PTL

\* vm_cpu_layout and build_domain_xml pin all of the vCPUs or none: on the host they were
\* computed for, each guest core is a host core, and the emulator's cores are others.
THEOREM PinsKeepCores == CpusSpec => []PinsAreWholeCores
BY CpusInvariant, CpusWhole, PTL
-----------------------------------------------------------------------------
(* Where a function appears in the guest *)

\* The values of a sequence are finitely many.
LEMMA FiniteRange ==
  ASSUME NEW n \in Nat, NEW seq, seq = [i \in 1 .. n |-> seq[i]]
  PROVE  IsFiniteSet(Range(seq)) /\ Cardinality(Range(seq)) \in Nat
<1>1. IsFiniteSet(1 .. n)
  BY FS_Interval
<1>2. seq \in Surjection(1 .. n, Range(seq))
  BY DEF Surjection, Range
<1> QED  BY <1>1, <1>2, FS_Surjection, FS_CardinalityType

\* The elements of a sequence are numbered from one, each differently.
LEMMA OrdinalNumbers ==
  ASSUME NEW n \in Nat, NEW seq, seq = [i \in 1 .. n |-> seq[i]]
  PROVE  /\ \A x \in Range(seq) : Ordinal(x, seq) \in 1 .. Cardinality(Range(seq))
         /\ \A x, y \in Range(seq) : Ordinal(x, seq) = Ordinal(y, seq) => x = y
<1> DEFINE At(x) == {i \in DOMAIN seq : seq[i] = x}
           first(x) == Min(At(x))
           Upto(x) == {seq[i] : i \in 1 .. first(x)}
<1>1. DOMAIN seq = 1 .. n
  OBVIOUS
<1>2. ASSUME NEW x \in Range(seq)
      PROVE  /\ first(x) \in 1 .. n /\ seq[first(x)] = x
             /\ \A i \in 1 .. n : seq[i] = x => first(x) <= i
  <2>1. At(x) \in SUBSET Int /\ IsFiniteSet(At(x)) /\ At(x) # {}
    <3>1. At(x) \in SUBSET (1 .. n) /\ IsFiniteSet(1 .. n)
      BY <1>1, FS_Interval
    <3>2. PICK i \in 1 .. n : seq[i] = x
      BY <1>1 DEF Range
    <3>3. i \in At(x)
      BY <1>1, <3>2
    <3> QED  BY <3>1, <3>3, FS_Subset
  <2>2. first(x) \in At(x) /\ \A i \in At(x) : first(x) <= i
    BY <2>1, MinMax
  <2> QED  BY <1>1, <2>2
<1> HIDE DEF first
<1>3. ASSUME NEW x \in Range(seq)
      PROVE  /\ x \in Upto(x) /\ Upto(x) \in SUBSET Range(seq)
             /\ IsFiniteSet(Upto(x)) /\ Cardinality(Upto(x)) \in Nat
             /\ Cardinality(Upto(x)) <= Cardinality(Range(seq))
  <2>1. first(x) \in 1 .. n /\ seq[first(x)] = x
    BY <1>2
  <2>2. 1 .. first(x) \subseteq DOMAIN seq /\ first(x) \in 1 .. first(x)
    BY <1>1, <2>1
  <2>3. x \in Upto(x) /\ Upto(x) \in SUBSET Range(seq)
    BY <2>1, <2>2 DEF Range
  <2> HIDE DEF Upto
  <2> QED  BY <2>3, FiniteRange, FS_Subset, FS_CardinalityType
<1>4. \A x : Ordinal(x, seq) = Cardinality(Upto(x))
  BY DEF Ordinal, first
<1>5. ASSUME NEW x \in Range(seq)
      PROVE  Ordinal(x, seq) \in 1 .. Cardinality(Range(seq))
  <2>1. Cardinality(Upto(x)) # 0
    BY <1>3, FS_EmptySet
  <2>2. Cardinality(Range(seq)) \in Nat
    BY FiniteRange
  <2> HIDE DEF Upto
  <2> QED  BY <1>3, <1>4, <2>1, <2>2
<1>6. ASSUME NEW x \in Range(seq), NEW y \in Range(seq), first(x) < first(y)
      PROVE  Ordinal(x, seq) # Ordinal(y, seq)
  <2>1. Upto(x) \in SUBSET Upto(y)
    BY <1>2, <1>6
  <2>2. y \notin Upto(x)
    BY <1>2, <1>6
  <2>3. Upto(x) # Upto(y)
    BY <1>3, <2>2
  <2> HIDE DEF Upto
  <2> QED  BY <1>3, <1>4, <2>1, <2>3, FS_Subset
<1>7. ASSUME NEW x \in Range(seq), NEW y \in Range(seq), Ordinal(x, seq) = Ordinal(y, seq)
      PROVE  x = y
  <2>1. ~(first(x) < first(y)) /\ ~(first(y) < first(x))
    BY <1>6, <1>7
  <2>2. first(x) = first(y)
    BY <1>2, <2>1
  <2> QED  BY <1>2, <2>2
<1> QED  BY <1>5, <1>7

\* Numbered by their ordinals, some of the elements come in the order of these.
LEMMA OrdinalsRank ==
  ASSUME NEW K, IsFiniteSet(K), NEW ord \in [K -> Nat],
         \A x, y \in K : ord[x] = ord[y] => x = y
  PROVE  LET At(x) == Cardinality({y \in K : ord[y] <= ord[x]}) IN
         /\ \A x \in K : At(x) \in Nat \ {0}
         /\ \A x, y \in K : At(x) = At(y) => x = y
<1> DEFINE Upto(x) == {y \in K : ord[y] <= ord[x]}
<1>1. ASSUME NEW x \in K
      PROVE  /\ x \in Upto(x) /\ IsFiniteSet(Upto(x)) /\ Cardinality(Upto(x)) \in Nat \ {0}
  <2>1. x \in Upto(x)
    OBVIOUS
  <2>2. IsFiniteSet(Upto(x)) /\ Cardinality(Upto(x)) \in Nat
    BY FS_Subset, FS_CardinalityType
  <2> QED  BY <2>1, <2>2, FS_EmptySet
<1>2. ASSUME NEW x \in K, NEW y \in K, ord[x] < ord[y]
      PROVE  Cardinality(Upto(x)) # Cardinality(Upto(y))
  <2>1. Upto(x) \in SUBSET Upto(y) /\ y \notin Upto(x)
    BY <1>2
  <2> HIDE DEF Upto
  <2> QED  BY <1>1, <2>1, FS_Subset
<1>3. ASSUME NEW x \in K, NEW y \in K, Cardinality(Upto(x)) = Cardinality(Upto(y))
      PROVE  x = y
  <2>1. ~(ord[x] < ord[y]) /\ ~(ord[y] < ord[x])
    BY <1>2, <1>3
  <2>2. ord[x] \in Nat /\ ord[y] \in Nat
    OBVIOUS
  <2> QED  BY <2>1, <2>2
<1> HIDE DEF Upto
<1>4. (\A x \in K : Cardinality(Upto(x)) \in Nat \ {0})
      /\ \A x, y \in K : Cardinality(Upto(x)) = Cardinality(Upto(y)) => x = y
  BY <1>1, <1>3
<1> QED  BY <1>4 DEF Upto

\* The functions of a's slot that share its bus.
Together(a, pci, host) ==
  {b \in Range(pci) : Key(b, host) = Key(a, host) /\ Slot(b) = Slot(a)}

\* _passthrough_group_key is kept together on one bus and apart from the others; a slot
\* stays a slot, whose function numbers are the host's unless there is one function only.
WellPlaced(guest, bridges, pci, host) ==
  /\ DOMAIN guest = Range(pci)
  /\ \A a \in Range(pci) :
       /\ guest[a] \in [bus : Nat, slot : Nat, fn : {0, Function(a)}, multi : BOOLEAN]
       /\ guest[a].fn = IF Together(a, pci, host) = {a} THEN 0 ELSE Function(a)
       /\ Together(a, pci, host) # {a} /\ Function(a) = 0 => guest[a].multi
  /\ \A a, b \in Range(pci) :
       /\ guest[a].bus = guest[b].bus <=> Key(a, host) = Key(b, host)
       /\ Key(a, host) = Key(b, host) => (guest[a].slot = guest[b].slot <=> Slot(a) = Slot(b))
       /\ Key(a, host) = Key(b, host) /\ Slot(a) # Slot(b) => guest[a].bus \in bridges

\* The functions of a's key in the order of the profile, and their slots.
Mates(a, pci, host) == Members(Key(a, host), pci, host)
MatesSlots(a, pci, host) == [i \in DOMAIN Mates(a, pci, host) |-> Slot(Mates(a, pci, host)[i])]

LEMMA MatesAre ==
  ASSUME NEW X, NEW pci \in Seq(X), NEW host, NEW a \in Range(pci)
  PROVE  /\ Range(Mates(a, pci, host)) = {b \in Range(pci) : Key(b, host) = Key(a, host)}
         /\ Len(Mates(a, pci, host)) \in Nat
         /\ DOMAIN Mates(a, pci, host) = 1 .. Len(Mates(a, pci, host))
         /\ IsFiniteSet(Range(Mates(a, pci, host)))
         /\ Range(MatesSlots(a, pci, host)) = {Slot(b) : b \in Range(Mates(a, pci, host))}
         /\ IsFiniteSet(Range(MatesSlots(a, pci, host)))
         /\ \A b \in Range(Mates(a, pci, host)) :
              Ordinal(Slot(b), MatesSlots(a, pci, host)) \in Nat \ {0}
         /\ \A b, c \in Range(Mates(a, pci, host)) :
              Ordinal(Slot(b), MatesSlots(a, pci, host)) = Ordinal(Slot(c), MatesSlots(a, pci, host))
                => Slot(b) = Slot(c)
<1> DEFINE members == Mates(a, pci, host)
           slots == MatesSlots(a, pci, host)
           S == {b \in Range(pci) : Key(b, host) = Key(a, host)}
<1>1. members \in Seq(X) /\ Range(members) = Range(pci) \cap S
  <2> DEFINE chosen == Only(pci, S)
  <2>1. members = chosen
    BY DEF Members, Mates
  <2> HIDE DEF S, members
  <2>2. chosen \in Seq(X) /\ Range(chosen) = Range(pci) \cap S
    BY OnlySelects
  <2> QED  BY <2>1, <2>2
<1>2. Range(members) = S
  BY <1>1
<1> HIDE DEF members, S
<1>3. Len(members) \in Nat /\ DOMAIN members = 1 .. Len(members)
  BY <1>1, LenProperties
<1>0. slots = [i \in DOMAIN members |-> Slot(members[i])]
  BY DEF MatesSlots, members
<1>4. Range(slots) = {Slot(b) : b \in Range(members)}
  BY <1>0 DEF Range
<1>5. slots = [i \in 1 .. Len(members) |-> slots[i]]
  BY <1>0, <1>3
<1>6. members = [i \in 1 .. Len(members) |-> members[i]]
  BY <1>1, <1>3
<1>7. IsFiniteSet(Range(slots)) /\ IsFiniteSet(Range(members)) /\ Cardinality(Range(slots)) \in Nat
  <2> HIDE DEF slots
  <2> QED  BY <1>3, <1>5, <1>6, FiniteRange
<1>8. /\ \A x \in Range(slots) : Ordinal(x, slots) \in 1 .. Cardinality(Range(slots))
      /\ \A x, y \in Range(slots) : Ordinal(x, slots) = Ordinal(y, slots) => x = y
  <2> HIDE DEF slots
  <2> QED  BY <1>3, <1>5, OrdinalNumbers
<1> HIDE DEF slots
<1>9. /\ \A b \in Range(members) : Ordinal(Slot(b), slots) \in Nat \ {0}
      /\ \A b, c \in Range(members) :
           Ordinal(Slot(b), slots) = Ordinal(Slot(c), slots) => Slot(b) = Slot(c)
  BY <1>4, <1>7, <1>8
<1> QED  BY <1>2, <1>3, <1>4, <1>7, <1>9 DEF members, S, slots

LEMMA LayoutPlaces ==
  ASSUME NEW X, NEW pci \in Seq(X), NEW host, NEW nativeKeys
  PROVE  LET plain == Layout(pci, host, nativeKeys)
         IN WellPlaced(plain.guest, plain.bridges, pci, host)
<1> DEFINE keys == [i \in DOMAIN pci |-> Key(pci[i], host)]
           shared == {k \in Range(keys) : Conventional(Members(k, pci, host), k \in nativeKeys)}
           ports == Cardinality(Range(keys))
           Behind(k) == Cardinality({j \in shared : Ordinal(j, keys) <= Ordinal(k, keys)})
           Bus(k) == IF k \in shared THEN ports + Behind(k) ELSE Ordinal(k, keys)
           members(a) == Mates(a, pci, host)
           slots(a) == MatesSlots(a, pci, host)
           together(a) == {b \in Range(members(a)) : Slot(b) = Slot(a)}
           slot(a) == Ordinal(Slot(a), slots(a)) - (IF Key(a, host) \in shared THEN 0 ELSE 1)
           Guest(a) == [bus |-> Bus(Key(a, host)), fn |-> GuestFunction(a, together(a)),
                        slot |-> slot(a), multi |-> Cardinality(together(a)) > 1 /\ Function(a) = 0]
           plain == Layout(pci, host, nativeKeys)
<1>1. /\ plain.guest = [a \in Range(pci) |-> Guest(a)]
      /\ plain.bridges = {Bus(k) : k \in shared}
  BY DEF Layout, Mates, MatesSlots
<1>2. Len(pci) \in Nat /\ DOMAIN pci = 1 .. Len(pci)
  BY LenProperties
<1>3. keys = [i \in 1 .. Len(pci) |-> keys[i]]
  BY <1>2
<1>4. Range(keys) = {Key(a, host) : a \in Range(pci)}
  BY DEF Range
<1> HIDE DEF plain, keys, shared
<1>5. /\ ports \in Nat /\ IsFiniteSet(Range(keys))
      /\ \A k \in Range(keys) : Ordinal(k, keys) \in 1 .. ports
      /\ \A j, k \in Range(keys) : Ordinal(j, keys) = Ordinal(k, keys) => j = k
  BY <1>2, <1>3, FiniteRange, OrdinalNumbers
<1> HIDE DEF ports
<1>6. /\ \A k \in shared : Behind(k) \in Nat \ {0}
      /\ \A j, k \in shared : Behind(j) = Behind(k) => j = k
  <2> DEFINE ord == [k \in shared |-> Ordinal(k, keys)]
             At(x) == Cardinality({y \in shared : ord[y] <= ord[x]})
  <2>1. shared \in SUBSET Range(keys)
    BY DEF shared
  <2>2. IsFiniteSet(shared)
    BY <1>5, <2>1, FS_Subset
  <2>3. ord \in [shared -> Nat] /\ \A x, y \in shared : ord[x] = ord[y] => x = y
    BY <1>5, <2>1
  <2>4. \A x \in shared : At(x) = Behind(x)
    <3>1. ASSUME NEW x \in shared
          PROVE  {y \in shared : ord[y] <= ord[x]} = {j \in shared : Ordinal(j, keys) <= Ordinal(x, keys)}
      OBVIOUS
    <3> QED  BY <3>1
  <2> HIDE DEF ord
  <2>5. /\ \A x \in shared : At(x) \in Nat \ {0}
        /\ \A x, y \in shared : At(x) = At(y) => x = y
    BY <2>2, <2>3, OrdinalsRank
  <2> HIDE DEF At, Behind
  <2> QED  BY <2>4, <2>5
<1> HIDE DEF Behind
<1>7. /\ \A k \in Range(keys) : Bus(k) \in Nat
      /\ \A j, k \in Range(keys) : Bus(j) = Bus(k) => j = k
  BY <1>5, <1>6
<1> HIDE DEF Bus
<1>8. ASSUME NEW a \in Range(pci)
      PROVE  /\ Key(a, host) \in Range(keys)
             /\ together(a) = Together(a, pci, host)
             /\ IsFiniteSet(Together(a, pci, host)) /\ a \in Together(a, pci, host)
             /\ slot(a) \in Nat
  <2>1. /\ Range(members(a)) = {b \in Range(pci) : Key(b, host) = Key(a, host)}
        /\ IsFiniteSet(Range(members(a)))
        /\ \A b \in Range(members(a)) : Ordinal(Slot(b), slots(a)) \in Nat \ {0}
    BY MatesAre
  <2> HIDE DEF members, slots
  <2>2. Key(a, host) \in Range(keys)
    BY <1>4
  <2>3. a \in Range(members(a)) /\ slot(a) \in Nat
    BY <2>1
  <2>4. together(a) = Together(a, pci, host)
    BY <2>1 DEF Together
  <2>5. IsFiniteSet(Together(a, pci, host)) /\ a \in Together(a, pci, host)
    BY <2>1, <2>4, FS_Subset DEF Together
  <2> QED  BY <2>2, <2>3, <2>4, <2>5
<1>9. ASSUME NEW a \in Range(pci)
      PROVE  (Cardinality(together(a)) > 1) <=> Together(a, pci, host) # {a}
  <2> DEFINE T == Together(a, pci, host)
  <2>1. IsFiniteSet(T) /\ a \in T /\ Cardinality(T) \in Nat /\ together(a) = T
    BY <1>8, FS_CardinalityType
  <2> HIDE DEF T, together
  <2>2. Cardinality(T) # 0
    BY <2>1, FS_EmptySet
  <2>3. Cardinality(T) = 1 <=> T = {a}
    <3>1. (\E x : T = {x}) <=> T = {a}
      BY <2>1
    <3> QED  BY <2>1, <3>1, FS_Singleton
  <2> QED  BY <2>1, <2>2, <2>3 DEF T
<1>10. ASSUME NEW a \in Range(pci), NEW b \in Range(pci), Key(a, host) = Key(b, host)
       PROVE  /\ slot(a) = slot(b) <=> Slot(a) = Slot(b)
              /\ Slot(a) # Slot(b) => Key(a, host) \in shared
  <2> DEFINE M == members(a)
             O(x) == Ordinal(x, slots(a))
             SlotsOf == {Slot(c) : c \in Range(M)}
  <2>1. /\ Range(M) = {c \in Range(pci) : Key(c, host) = Key(a, host)}
        /\ Len(M) \in Nat /\ DOMAIN M = 1 .. Len(M)
        /\ IsFiniteSet(SlotsOf)
        /\ \A c \in Range(M) : O(Slot(c)) \in Nat \ {0}
        /\ \A c, d \in Range(M) : O(Slot(c)) = O(Slot(d)) => Slot(c) = Slot(d)
    <3>1. Range(slots(a)) = SlotsOf /\ IsFiniteSet(Range(slots(a)))
      BY MatesAre
    <3> QED  BY <3>1, MatesAre
  <2>2. members(b) = M /\ slots(b) = slots(a)
    BY <1>10 DEF Mates, MatesSlots
  <2> HIDE DEF members, slots, M, O
  <2>3. a \in Range(M) /\ b \in Range(M)
    BY <1>10, <2>1
  <2>4. slot(a) = O(Slot(a)) - (IF Key(a, host) \in shared THEN 0 ELSE 1)
    BY DEF O
  <2>5. slot(b) = O(Slot(b)) - (IF Key(a, host) \in shared THEN 0 ELSE 1)
    BY <1>10, <2>2 DEF O
  <2>6. slot(a) = slot(b) <=> O(Slot(a)) = O(Slot(b))
    <3> HIDE DEF slot
    <3> QED  BY <2>1, <2>3, <2>4, <2>5
  <2>7. ASSUME Slot(a) # Slot(b)  PROVE Key(a, host) \in shared
    <3>1. PICK i \in DOMAIN M : M[i] = a
      BY <2>3 DEF Range
    <3>2. PICK j \in DOMAIN M : M[j] = b
      BY <2>3 DEF Range
    <3>3. Len(M) > 1
      BY <2>1, <2>7, <3>1, <3>2
    <3>4. Cardinality(SlotsOf) # 1
      <4>1. Slot(a) \in SlotsOf /\ Slot(b) \in SlotsOf
        BY <2>3
      <4>2. ~\E x : SlotsOf = {x}
        BY <2>7, <4>1
      <4> QED  BY <2>1, <4>2, FS_Singleton
    <3>5. Conventional(M, Key(a, host) \in nativeKeys)
      BY <3>3, <3>4 DEF Conventional
    <3> QED  BY <1>4, <3>5 DEF shared, M, members, Mates
  <2> QED  BY <2>1, <2>3, <2>6, <2>7
<1> HIDE DEF together, slot
<1>11. ASSUME NEW a \in Range(pci)
       PROVE  /\ plain.guest[a].bus = Bus(Key(a, host)) /\ plain.guest[a].slot = slot(a)
              /\ plain.guest[a].fn = (IF Together(a, pci, host) = {a} THEN 0 ELSE Function(a))
              /\ plain.guest[a].multi = (Together(a, pci, host) # {a} /\ Function(a) = 0)
  <2>1. plain.guest[a] = Guest(a)
    BY <1>1
  <2>2. GuestFunction(a, together(a)) = IF Together(a, pci, host) = {a} THEN 0 ELSE Function(a)
    BY <1>9 DEF GuestFunction
  <2>3. plain.guest[a].multi = (Cardinality(together(a)) > 1 /\ Function(a) = 0)
    BY <2>1
  <2>4. plain.guest[a].multi = (Together(a, pci, host) # {a} /\ Function(a) = 0)
    BY <1>9, <2>3
  <2> QED  BY <2>1, <2>2, <2>4
<1>12. DOMAIN plain.guest = Range(pci)
  BY <1>1
<1>13. \A k \in shared : Bus(k) \in plain.bridges
  BY <1>1
<1> HIDE DEF members, slots, Guest
<1>14. ASSUME NEW a \in Range(pci)
       PROVE  /\ plain.guest[a] \in [bus : Nat, slot : Nat, fn : {0, Function(a)}, multi : BOOLEAN]
              /\ plain.guest[a].fn = (IF Together(a, pci, host) = {a} THEN 0 ELSE Function(a))
              /\ Together(a, pci, host) # {a} /\ Function(a) = 0 => plain.guest[a].multi
  <2>1. /\ plain.guest[a].bus \in Nat /\ plain.guest[a].slot \in Nat
        /\ plain.guest[a].fn \in {0, Function(a)} /\ plain.guest[a].multi \in BOOLEAN
    BY <1>7, <1>8, <1>11
  <2>2. plain.guest[a] = [bus |-> plain.guest[a].bus, fn |-> plain.guest[a].fn,
                          slot |-> plain.guest[a].slot, multi |-> plain.guest[a].multi]
    BY <1>1 DEF Guest
  <2> QED  BY <1>11, <2>1, <2>2
<1>15. ASSUME NEW a \in Range(pci), NEW b \in Range(pci)
       PROVE  /\ plain.guest[a].bus = plain.guest[b].bus <=> Key(a, host) = Key(b, host)
              /\ Key(a, host) = Key(b, host) =>
                   (plain.guest[a].slot = plain.guest[b].slot <=> Slot(a) = Slot(b))
              /\ Key(a, host) = Key(b, host) /\ Slot(a) # Slot(b) =>
                   plain.guest[a].bus \in plain.bridges
  <2>1. plain.guest[a].bus = Bus(Key(a, host)) /\ plain.guest[b].bus = Bus(Key(b, host))
    BY <1>11
  <2>2. plain.guest[a].bus = plain.guest[b].bus <=> Key(a, host) = Key(b, host)
    BY <1>7, <1>8, <2>1
  <2>3. plain.guest[a].slot = slot(a) /\ plain.guest[b].slot = slot(b)
    BY <1>11
  <2> QED  BY <1>10, <1>13, <2>1, <2>2, <2>3
<1> QED  BY <1>12, <1>14, <1>15 DEF WellPlaced, plain

IsMap(f, S) == f = [a \in S |-> f[a]]

\* What a stage shows is some of the profile's devices, well placed: the multifunction
\* bit that build_domain_xml adds for the GPU moves nothing.
LEMMA DomainPlaces ==
  ASSUME NEW X, NEW p, p.pci \in Seq(X), NEW host, NEW stage
  PROVE  LET new == DomainLayout(p, host, stage) IN
         \E pci \in Seq(X) :
           /\ Range(pci) \subseteq Range(p.pci)
           /\ WellPlaced(new.guest, new.bridges, pci, host)
           /\ IsMap(new.guest, Range(pci))
<1> DEFINE gpu == Range(p.gpu)
           exposed == IF gpu = {} THEN {} ELSE Exposed(p, host)
           S == {a \in Range(p.pci) : a \in gpu => a \in exposed}
           pci == IF stage = "nothing" \/ (stage = "setup" /\ gpu = {}) THEN <<>> ELSE Only(p.pci, S)
           native == {Key(a, host) : a \in exposed}
           plain == Layout(pci, host, native)
           leads == {a \in Range(pci) \cap gpu :
                       Function(a) = 0 /\ \E b \in gpu : Slot(b) = Slot(a) /\ Function(b) # 0}
           new == DomainLayout(p, host, stage)
<1>1. pci \in Seq(X) /\ Range(pci) \subseteq Range(p.pci)
  <2> HIDE DEF S, exposed, gpu
  <2>1. Only(p.pci, S) \in Seq(X) /\ Range(Only(p.pci, S)) = Range(p.pci) \cap S
    BY OnlySelects
  <2>2. <<>> \in Seq(X) /\ Range(<<>>) = {}
    BY DEF Range
  <2> QED  BY <2>1, <2>2
<1> DEFINE guest == [a \in Range(pci) |->
                       [plain.guest[a] EXCEPT !.multi = plain.guest[a].multi \/ a \in leads]]
<1>2. new = [plain EXCEPT !.guest = guest]
  BY DEF DomainLayout
<1> HIDE DEF new, pci, leads, native, exposed, gpu
<1>3. WellPlaced(plain.guest, plain.bridges, pci, host)
  BY <1>1, LayoutPlaces
<1>4. DOMAIN plain = {"ports", "bridges", "guest"}
  BY DEF Layout
<1>9. plain = [f \in {"ports", "bridges", "guest"} |-> plain[f]]
  BY DEF Layout
<1> HIDE DEF plain, guest
<1>10. new.bridges = plain.bridges /\ new.guest = guest
  BY <1>2, <1>4, <1>9
<1>5. /\ new.bridges = plain.bridges
      /\ new.guest = [a \in Range(pci) |->
                        [plain.guest[a] EXCEPT !.multi = plain.guest[a].multi \/ a \in leads]]
  BY <1>10 DEF guest
<1>6. ASSUME NEW a \in Range(pci)
      PROVE  /\ new.guest[a] \in [bus : Nat, slot : Nat, fn : {0, Function(a)}, multi : BOOLEAN]
             /\ new.guest[a].bus = plain.guest[a].bus /\ new.guest[a].slot = plain.guest[a].slot
             /\ new.guest[a].fn = plain.guest[a].fn
             /\ plain.guest[a].multi => new.guest[a].multi
  <2>2. plain.guest[a] \in [bus : Nat, slot : Nat, fn : {0, Function(a)}, multi : BOOLEAN]
    BY <1>3 DEF WellPlaced
  <2>3. new.guest[a] = [plain.guest[a] EXCEPT !.multi = plain.guest[a].multi \/ a \in leads]
    BY <1>5
  <2> QED  BY <2>2, <2>3
<1>7. DOMAIN new.guest = Range(pci)
  BY <1>5
<1>8. WellPlaced(new.guest, new.bridges, pci, host)
  BY <1>3, <1>5, <1>6, <1>7 DEF WellPlaced
<1>11. IsMap(new.guest, Range(pci))
  <2>1. \E f : new.guest = [a \in Range(pci) |-> f[a]]
    <3> DEFINE f == [a \in Range(pci) |->
                       [plain.guest[a] EXCEPT !.multi = plain.guest[a].multi \/ a \in leads]]
    <3>1. new.guest = f /\ f = [a \in Range(pci) |-> f[a]]
      BY <1>5
    <3> QED  BY <3>1
  <2> QED  BY <2>1 DEF IsMap
<1> QED  BY <1>1, <1>8, <1>11 DEF new
-----------------------------------------------------------------------------
(* The selection *)

AddressesOf(host) == {Address(d) : d \in FunctionsOf(host)}

\* An address is that of one function.
LEMMA OneFunction ==
  ASSUME NEW h \in Hosts
  PROVE  /\ h \in Seq(Device) /\ FunctionsOf(h) \subseteq Device
         /\ \A d, e \in FunctionsOf(h) : Address(d) = Address(e) => d = e
         /\ \A d \in FunctionsOf(h) :
              /\ (CHOOSE e \in FunctionsOf(h) : Address(e) = Address(d)) = d
              /\ d.group # 0 => Key(Address(d), h) = <<"iommu", d.group>>
<1>1. /\ h \in Seq(Device)
      /\ \A i, j \in DOMAIN h : <<h[i].slot, h[i].fn>> = <<h[j].slot, h[j].fn>> => i = j
  BY HostsAssumption DEF HostsAssumption
<1>2. FunctionsOf(h) \subseteq Device
  BY <1>1, ElementOfSeq, LenProperties DEF FunctionsOf, Range
<1>3. \A d, e \in FunctionsOf(h) : Address(d) = Address(e) => d = e
  BY <1>1 DEF FunctionsOf, Range, Address
<1>4. ASSUME NEW d \in FunctionsOf(h)
      PROVE  (CHOOSE e \in FunctionsOf(h) : Address(e) = Address(d)) = d
  BY <1>3
<1>5. ASSUME NEW d \in FunctionsOf(h), d.group # 0
      PROVE  Key(Address(d), h) = <<"iommu", d.group>>
  <2> DEFINE a == Address(d)
             Is(e) == Address(e) = a /\ e.group # 0
  <2>1. \E e \in FunctionsOf(h) : Is(e)
    BY <1>5
  <2>2. (CHOOSE e \in FunctionsOf(h) : Address(e) = a) = d
    BY <1>4
  <2> QED  BY <2>1, <2>2 DEF Key
<1> QED  BY <1>1, <1>2, <1>3, <1>4, <1>5

\* one_click_passthrough keeps the addresses of what was chosen, in lspci's order.
LEMMA AddressesAre ==
  ASSUME NEW h \in Hosts, NEW devices \in SUBSET FunctionsOf(h)
  PROVE  /\ Addresses(h, devices) \in Seq(AddressesOf(h))
         /\ Range(Addresses(h, devices)) = {Address(d) : d \in devices}
<1> DEFINE chosen == Only(h, devices)
<1>1. h \in Seq(Device)
  BY OneFunction
<1>2. chosen \in Seq(devices) /\ Range(chosen) = devices
  <2>1. chosen \in Seq(devices) /\ Range(chosen) = Range(h) \cap devices
    BY <1>1, OnlySelects
  <2> QED  BY <2>1 DEF FunctionsOf
<1> HIDE DEF chosen
<1>3. Len(chosen) \in Nat /\ DOMAIN chosen = 1 .. Len(chosen)
  BY <1>2, LenProperties
<1>4. Addresses(h, devices) = [i \in 1 .. Len(chosen) |-> Address(chosen[i])]
  BY <1>3 DEF Addresses, chosen
<1>5. \A i \in 1 .. Len(chosen) : chosen[i] \in FunctionsOf(h)
  BY <1>2, <1>3, ElementOfSeq
<1>6. Addresses(h, devices) \in [1 .. Len(chosen) -> AddressesOf(h)]
  BY <1>4, <1>5 DEF AddressesOf
<1>7. Addresses(h, devices) \in Seq(AddressesOf(h))
  BY <1>3, <1>6, SequenceIs
<1>8. Range(Addresses(h, devices)) = {Address(d) : d \in Range(chosen)}
  BY <1>3, <1>4 DEF Range
<1> QED  BY <1>2, <1>7, <1>8

\* What a profile may hold: nothing, or a GPU and more devices of the host as it was
\* seen, none of whose groups is torn apart.
Chosen(p, host) ==
  \/ p = None
  \/ \E gpu, guest, extra \in SUBSET FunctionsOf(host) :
       /\ Isolated(gpu, host) /\ Isolated(extra, host)
       /\ p = [gpu |-> Addresses(host, gpu), guest |-> Addresses(host, guest),
               pci |-> Addresses(host, gpu) \o Addresses(host, extra)]

LEMMA ChosenIs ==
  ASSUME NEW h \in Hosts, NEW p, Chosen(p, h)
  PROVE  /\ p = [gpu |-> p.gpu, guest |-> p.guest, pci |-> p.pci]
         /\ p.gpu \in Seq(AddressesOf(h)) /\ p.guest \in Seq(AddressesOf(h))
         /\ p.pci \in Seq(AddressesOf(h))
         /\ \A a \in Range(p.pci) : \E d \in FunctionsOf(h) :
              /\ a = Address(d) /\ d.group # 0
              /\ \A e \in FunctionsOf(h) : e.group = d.group => Address(e) \in Range(p.pci)
<1>1. CASE p = None
  <2>1. p.gpu = <<>> /\ p.guest = <<>> /\ p.pci = <<>>
    BY <1>1 DEF None
  <2>2. <<>> \in Seq(AddressesOf(h)) /\ Range(<<>>) = {}
    BY DEF Range
  <2> QED  BY <1>1, <2>1, <2>2 DEF None
<1>2. CASE p # None
  <2>1. PICK gpu, guest, extra \in SUBSET FunctionsOf(h) :
          /\ Isolated(gpu, h) /\ Isolated(extra, h)
          /\ p = [gpu |-> Addresses(h, gpu), guest |-> Addresses(h, guest),
                  pci |-> Addresses(h, gpu) \o Addresses(h, extra)]
    BY <1>2 DEF Chosen
  <2> DEFINE A == Addresses(h, gpu)
             B == Addresses(h, extra)
  <2>2. /\ A \in Seq(AddressesOf(h)) /\ Range(A) = {Address(d) : d \in gpu}
        /\ B \in Seq(AddressesOf(h)) /\ Range(B) = {Address(d) : d \in extra}
        /\ Addresses(h, guest) \in Seq(AddressesOf(h))
    BY AddressesAre
  <2>3. p.gpu = A /\ p.guest = Addresses(h, guest) /\ p.pci = A \o B
    BY <2>1
  <2> HIDE DEF A, B
  <2>4. p.pci \in Seq(AddressesOf(h)) /\ Range(p.pci) = Range(A) \cup Range(B)
    BY <2>2, <2>3, ConcatProperties, RangeConcatenation
  <2>5. ASSUME NEW a \in Range(p.pci)
        PROVE  \E d \in FunctionsOf(h) :
                 /\ a = Address(d) /\ d.group # 0
                 /\ \A e \in FunctionsOf(h) : e.group = d.group => Address(e) \in Range(p.pci)
    <3>1. PICK devices \in {gpu, extra} : a \in {Address(d) : d \in devices}
      BY <2>2, <2>4, <2>5
    <3>2. PICK d \in devices : a = Address(d)
      BY <3>1
    <3>3. Isolated(devices, h) /\ devices \in SUBSET FunctionsOf(h)
      BY <2>1, <3>1
    <3>4. d.group # 0 /\ \A e \in FunctionsOf(h) : e.group = d.group => e \in devices
      BY <3>2, <3>3 DEF Isolated
    <3>5. \A e \in devices : Address(e) \in Range(p.pci)
      BY <2>2, <2>4, <3>1
    <3> QED  BY <3>2, <3>3, <3>4, <3>5
  <2> QED  BY <2>1, <2>2, <2>3, <2>4, <2>5
<1> QED  BY <1>1, <1>2

\* The definition is built from the profile by the inventory, which may be older than the
\* selection; no function is beyond the last slot of its bus.
PcieInv ==
  /\ {live, inventory, seen} \subseteq Hosts
  /\ shown \in {"nothing", "setup", "final"}
  /\ Chosen(passthrough, seen)
  /\ layout = DomainLayout(passthrough, inventory, shown)
  /\ \A a \in DOMAIN layout.guest : layout.guest[a].slot <= 31

LEMMA ShowStep ==
  ASSUME NEW p, NEW stage \in {"nothing", "setup", "final"}, {live, inventory} \subseteq Hosts,
         Show(p, stage), seen' \in Hosts, Chosen(p, seen')
  PROVE  PcieInv'
<1>1. /\ passthrough' = p /\ shown' = stage /\ live' = live /\ inventory' = inventory
      /\ layout' = DomainLayout(p, inventory, stage) /\ Fits(DomainLayout(p, inventory, stage))
  BY DEF Show
<1>2. Chosen(passthrough, seen)'
  BY <1>1 DEF Chosen, Addresses, FunctionsOf, Isolated, None
<1>3. \A a \in DOMAIN layout'.guest : layout'.guest[a].slot <= 31
  BY <1>1 DEF Fits
<1>4. layout' = DomainLayout(passthrough', inventory', shown')
  BY <1>1
<1> QED  BY <1>1, <1>2, <1>3, <1>4 DEF PcieInv

LEMMA PcieInvariant == PcieSpec => []PcieInv
<1>1. PcieInit => PcieInv
  <2> SUFFICES ASSUME PcieInit  PROVE PcieInv
    OBVIOUS
  <2>1. /\ live \in Hosts /\ inventory = live /\ seen = live /\ passthrough = None
        /\ shown = "nothing" /\ layout = DomainLayout(None, live, "nothing")
    BY DEF PcieInit
  <2>2. None.pci \in Seq({}) /\ Range(None.pci) = {}
    BY DEF None, Range
  <2>3. DOMAIN layout.guest = {}
    <3>1. PICK pci \in Seq({}) : /\ Range(pci) \subseteq Range(None.pci)
                                 /\ WellPlaced(layout.guest, layout.bridges, pci, live)
      BY <2>1, <2>2, DomainPlaces
    <3> QED  BY <2>2, <3>1 DEF WellPlaced
  <2> QED  BY <2>1, <2>3 DEF PcieInv, Chosen
<1>2. PcieInv /\ [PcieNext]_pcieVars => PcieInv'
  <2> SUFFICES ASSUME PcieInv, [PcieNext]_pcieVars  PROVE PcieInv'
    OBVIOUS
  <2>1. {live, inventory, seen} \subseteq Hosts /\ Chosen(passthrough, seen)
    BY DEF PcieInv
  <2>2. ASSUME NEW gpu \in {{}} \cup {Gpu(live, s) : s \in GpuSlots(live)}, NEW audio \in BOOLEAN,
               NEW extra \in SUBSET Selectable(gpu, live), NEW stage \in {"setup", "final"},
               SelectPassthrough(gpu, audio, extra, stage)
        PROVE  PcieInv'
    <3> DEFINE guest == GuestFunctions(gpu, audio)
               p == [gpu |-> Addresses(live, gpu), guest |-> Addresses(live, guest),
                     pci |-> Addresses(live, gpu) \o Addresses(live, extra)]
    <3>1. Show(p, stage) /\ seen' = live
      BY <2>2 DEF SelectPassthrough
    <3>2. Isolated(gpu, live) /\ Isolated(extra, live)
      BY <2>2 DEF SelectPassthrough, Isolated
    <3>3. /\ gpu \in SUBSET FunctionsOf(live) /\ guest \in SUBSET FunctionsOf(live)
          /\ extra \in SUBSET FunctionsOf(live)
      BY DEF Gpu, GuestFunctions, Selectable
    <3>4. Chosen(p, live)
      BY <3>2, <3>3 DEF Chosen
    <3> HIDE DEF p
    <3> QED  BY <2>1, <3>1, <3>4, ShowStep
  <2>3. CASE LeaveStage
    BY <2>1, <2>3, ShowStep DEF LeaveStage
  <2>4. CASE ShowAll
    BY <2>1, <2>4, ShowStep DEF ShowAll
  <2>5. CASE DropDevices
    <3>1. Chosen(None, seen)
      BY DEF Chosen
    <3> QED  BY <2>1, <2>5, <3>1, ShowStep DEF DropDevices
  <2>6. CASE ChangeHost \/ UNCHANGED pcieVars
    <3>1. /\ {live', inventory', seen'} \subseteq Hosts
          /\ UNCHANGED <<inventory, passthrough, shown, layout, seen>>
      BY <2>1, <2>6 DEF ChangeHost, pcieVars
    <3>2. Chosen(passthrough, seen)'
      <4>1. passthrough' = passthrough /\ seen' = seen
        BY <3>1
      <4> QED  BY <2>1, <4>1 DEF Chosen, Addresses, FunctionsOf, Isolated, None
    <3>3. layout' = DomainLayout(passthrough', inventory', shown')
      BY <3>1 DEF PcieInv
    <3>4. /\ shown' \in {"nothing", "setup", "final"}
          /\ \A a \in DOMAIN layout'.guest : layout'.guest[a].slot <= 31
      BY <3>1 DEF PcieInv
    <3> QED  BY <3>1, <3>2, <3>3, <3>4 DEF PcieInv
  <2> QED  BY <2>2, <2>3, <2>4, <2>5, <2>6 DEF PcieNext
<1> QED  BY <1>1, <1>2, PTL DEF PcieSpec

LEMMA PcieTyped == PcieInv => PcieTypeOK
<1> SUFFICES ASSUME PcieInv  PROVE PcieTypeOK
  OBVIOUS
<1>1. /\ {live, inventory, seen} \subseteq Hosts /\ shown \in {"nothing", "setup", "final"}
      /\ Chosen(passthrough, seen) /\ layout = DomainLayout(passthrough, inventory, shown)
      /\ \A a \in DOMAIN layout.guest : layout.guest[a].slot <= 31
  BY DEF PcieInv
<1> DEFINE X == AddressesOf(seen)
<1>2. /\ passthrough = [gpu |-> passthrough.gpu, guest |-> passthrough.guest, pci |-> passthrough.pci]
      /\ passthrough.gpu \in Seq(X) /\ passthrough.guest \in Seq(X) /\ passthrough.pci \in Seq(X)
  BY <1>1, ChosenIs
<1>3. passthrough \in Passthroughs
  <2> DEFINE All == UNION {Seq(AddressesOf(h)) : h \in Hosts}
  <2>1. Seq(X) \subseteq All
    BY <1>1
  <2>2. Passthroughs = [gpu : All, guest : All, pci : All]
    BY DEF Passthroughs, AddressesOf
  <2> HIDE DEF All
  <2> QED  BY <1>2, <2>1, <2>2
<1>4. PICK pci \in Seq(X) : /\ Range(pci) \subseteq Range(passthrough.pci)
                            /\ WellPlaced(layout.guest, layout.bridges, pci, inventory)
                            /\ IsMap(layout.guest, Range(pci))
  BY <1>1, <1>2, DomainPlaces
<1>5. DOMAIN layout.guest = Range(pci)
  BY <1>4 DEF WellPlaced
<1>6. ASSUME NEW a \in Range(pci)
      PROVE  layout.guest[a] \in [bus : Nat, slot : 0 .. 31, fn : 0 .. 7, multi : BOOLEAN]
  <2>1. layout.guest[a] \in [bus : Nat, slot : Nat, fn : {0, Function(a)}, multi : BOOLEAN]
    BY <1>4 DEF WellPlaced
  <2>2. a \in X
    BY <1>4, ElementOfSeq, LenProperties DEF Range
  <2>3. PICK d \in Device : a = Address(d)
    BY <1>1, <2>2, OneFunction DEF AddressesOf
  <2>4. Function(a) \in 0 .. 7
    BY <2>3 DEF Device, Address, Function
  <2>5. layout.guest[a].slot \in Nat /\ layout.guest[a].slot <= 31
    BY <1>1, <1>5, <2>1
  <2>6. layout.guest[a].slot \in 0 .. 31
    <3>1. \A n \in Nat : n <= 31 => n \in 0 .. 31
      OBVIOUS
    <3> QED  BY <2>5, <3>1, Zenon
  <2>7. layout.guest[a].fn \in {0, Function(a)}
    BY <2>1
  <2>8. layout.guest[a].fn \in 0 .. 7
    BY <2>4, <2>7
  <2> QED  BY <2>1, <2>6, <2>8
<1>7. layout.guest \in [DOMAIN layout.guest ->
                           [bus : Nat, slot : 0 .. 31, fn : 0 .. 7, multi : BOOLEAN]]
  <2> DEFINE G == layout.guest
  <2>1. \A a \in DOMAIN G : G[a] \in [bus : Nat, slot : 0 .. 31, fn : 0 .. 7, multi : BOOLEAN]
    BY <1>5, <1>6
  <2>2. G = [a \in DOMAIN G |-> G[a]]
    BY <1>4, <1>5 DEF IsMap
  <2> HIDE DEF G
  <2>3. G \in [DOMAIN G -> [bus : Nat, slot : 0 .. 31, fn : 0 .. 7, multi : BOOLEAN]]
    BY ONLY <2>1, <2>2
  <2> QED  BY <2>3 DEF G
<1>8. DOMAIN layout.guest \subseteq Range(passthrough.pci)
  BY <1>4, <1>5
<1> QED  BY <1>1, <1>3, <1>7, <1>8 DEF PcieTypeOK

LEMMA SlotsAreLed == PcieInv => FunctionZeroLeads
<1> SUFFICES ASSUME PcieInv  PROVE FunctionZeroLeads
  OBVIOUS
<1> DEFINE G == layout.guest
<1>1. PICK pci : WellPlaced(G, layout.bridges, pci, inventory)
  <2>1. /\ seen \in Hosts /\ Chosen(passthrough, seen)
        /\ layout = DomainLayout(passthrough, inventory, shown)
    BY DEF PcieInv
  <2>2. passthrough.pci \in Seq(AddressesOf(seen))
    BY <2>1, ChosenIs
  <2> QED  BY <2>1, <2>2, DomainPlaces
<1> SUFFICES ASSUME NEW a \in DOMAIN G
             PROVE  LET sharing == {b \in DOMAIN G : G[b].bus = G[a].bus /\ G[b].slot = G[a].slot}
                        leaders == {b \in sharing : G[b].fn = 0}
                    IN sharing = {a} \/ (\E b \in sharing : Function(b) = 0) =>
                         /\ leaders # {}
                         /\ Cardinality(sharing) > 1 => \A b \in leaders : G[b].multi
  BY DEF FunctionZeroLeads
<1> DEFINE sharing == {b \in DOMAIN G : G[b].bus = G[a].bus /\ G[b].slot = G[a].slot}
           T(b) == Together(b, pci, inventory)
<1>2. DOMAIN G = Range(pci)
  BY <1>1 DEF WellPlaced
<1>3. \A b \in Range(pci) : /\ G[b].fn = IF T(b) = {b} THEN 0 ELSE Function(b)
                            /\ T(b) # {b} /\ Function(b) = 0 => G[b].multi
  BY <1>1 DEF WellPlaced
<1>4. \A b, c \in Range(pci) : (G[b].bus = G[c].bus /\ G[b].slot = G[c].slot) <=> c \in T(b)
  BY <1>1 DEF WellPlaced, Together
<1> HIDE DEF G, T
<1>5. sharing = T(a) /\ a \in sharing
  <2>1. \A b : b \in T(a) => b \in Range(pci)
    BY DEF T, Together
  <2>2. \A b \in sharing : b \in T(a)
    BY <1>2, <1>4
  <2>3. \A b \in T(a) : b \in sharing
    BY <1>2, <1>4, <2>1
  <2> QED  BY <2>2, <2>3
<1>6. ASSUME sharing = {a} \/ \E b \in sharing : Function(b) = 0
      PROVE  \E b \in sharing : G[b].fn = 0
  <2>1. CASE sharing = {a}
    BY <1>2, <1>3, <1>5, <2>1
  <2>2. CASE \E b \in sharing : Function(b) = 0
    BY <1>2, <1>3, <2>2
  <2> QED  BY <1>6, <2>1, <2>2
<1>7. ASSUME Cardinality(sharing) > 1, NEW b \in sharing, G[b].fn = 0
      PROVE  G[b].multi
  <2>1. sharing # {b}
    <3>1. Cardinality({b}) = 1
      BY FS_Singleton
    <3> HIDE DEF sharing
    <3> QED  BY <1>7, <3>1
  <2>2. PICK c \in sharing : c # b
    BY <2>1
  <2>3. c \in T(b)
    BY <1>2, <1>4, <2>2
  <2>4. T(b) # {b}
    BY <2>2, <2>3
  <2> QED  BY <1>2, <1>3, <1>7, <2>4
<1> QED  BY <1>6, <1>7 DEF G

LEMMA GroupsAreWhole == PcieInv => GroupsKeptWhole
<1> SUFFICES ASSUME PcieInv, UpToDate  PROVE GroupsKeptWhole
  BY DEF GroupsKeptWhole
<1> DEFINE h == live
           G == layout.guest
           P == Range(passthrough.pci)
<1>1. /\ h \in Hosts /\ Chosen(passthrough, h) /\ layout = DomainLayout(passthrough, h, shown)
  BY DEF PcieInv, UpToDate
<1>2. /\ passthrough.pci \in Seq(AddressesOf(h))
      /\ \A a \in P : \E d \in FunctionsOf(h) :
           /\ a = Address(d) /\ d.group # 0
           /\ \A e \in FunctionsOf(h) : e.group = d.group => Address(e) \in P
  BY <1>1, ChosenIs
<1>3. PICK pci : Range(pci) \subseteq P /\ WellPlaced(G, layout.bridges, pci, h)
  BY <1>1, <1>2, DomainPlaces
<1>4. /\ DOMAIN G = Range(pci)
      /\ \A a \in Range(pci) :
           G[a].fn = IF Together(a, pci, h) = {a} THEN 0 ELSE Function(a)
      /\ \A a, b \in Range(pci) :
           /\ G[a].bus = G[b].bus <=> Key(a, h) = Key(b, h)
           /\ Key(a, h) = Key(b, h) => (G[a].slot = G[b].slot <=> Slot(a) = Slot(b))
           /\ Key(a, h) = Key(b, h) /\ Slot(a) # Slot(b) => G[a].bus \in layout.bridges
  BY <1>3 DEF WellPlaced
<1> DEFINE group(a) == {Address(e) : e \in GroupOf(a)}
<1>5. ASSUME NEW d \in FunctionsOf(h)
      PROVE  group(Address(d)) = {Address(e) : e \in {f \in FunctionsOf(h) : f.group = d.group}}
  BY <1>1, OneFunction DEF GroupOf
<1>6. ASSUME NEW a \in Range(pci)
      PROVE  \E d \in FunctionsOf(h) :
               /\ a = Address(d) /\ d.group # 0 /\ Key(a, h) = <<"iommu", d.group>>
               /\ group(a) = {Address(e) : e \in {f \in FunctionsOf(h) : f.group = d.group}}
               /\ group(a) \subseteq P
  <2>1. PICK d \in FunctionsOf(h) :
          /\ a = Address(d) /\ d.group # 0
          /\ \A e \in FunctionsOf(h) : e.group = d.group => Address(e) \in P
    BY <1>2, <1>3
  <2>2. Key(a, h) = <<"iommu", d.group>>
    BY <1>1, <2>1, OneFunction
  <2>3. group(a) = {Address(e) : e \in {f \in FunctionsOf(h) : f.group = d.group}}
    BY <1>5, <2>1
  <2> HIDE DEF group, P
  <2>4. group(a) \subseteq P
    BY <2>1, <2>3
  <2> QED  BY <2>1, <2>2, <2>3, <2>4
<1> HIDE DEF group, G, P
<1>7. ASSUME NEW a \in Range(pci), NEW b \in Range(pci)
      PROVE  b \in group(a) <=> Key(a, h) = Key(b, h)
  <2>1. PICK d \in FunctionsOf(h) :
          /\ a = Address(d) /\ Key(a, h) = <<"iommu", d.group>>
          /\ group(a) = {Address(e) : e \in {f \in FunctionsOf(h) : f.group = d.group}}
    BY <1>6
  <2>2. PICK e \in FunctionsOf(h) : b = Address(e) /\ Key(b, h) = <<"iommu", e.group>>
    BY <1>6
  <2>3. Key(a, h) = Key(b, h) <=> d.group = e.group
    BY <2>1, <2>2
  <2>4. b \in group(a) <=> e.group = d.group
    BY <1>1, <2>1, <2>2, OneFunction
  <2> QED  BY <2>3, <2>4
<1>8. ASSUME NEW a \in Range(pci), NEW b \in Range(pci) \ {a}
      PROVE  <<G[a].bus, G[a].slot, G[a].fn>> # <<G[b].bus, G[b].slot, G[b].fn>>
  <2> SUFFICES ASSUME G[a].bus = G[b].bus, G[a].slot = G[b].slot, G[a].fn = G[b].fn
               PROVE  FALSE
    OBVIOUS
  <2>1. Key(a, h) = Key(b, h) /\ Slot(a) = Slot(b)
    BY <1>4
  <2>2. Together(a, pci, h) # {a} /\ Together(b, pci, h) # {b}
    BY <2>1 DEF Together
  <2>3. Function(a) = Function(b)
    BY <1>4, <2>2
  <2>4. PICK d \in FunctionsOf(h) : a = Address(d)
    BY <1>6
  <2>5. PICK e \in FunctionsOf(h) : b = Address(e)
    BY <1>6
  <2> QED  BY <2>1, <2>3, <2>4, <2>5 DEF Slot, Function, Address
<1>9. ASSUME NEW a \in Range(pci)
      PROVE  /\ group(a) \subseteq P
             /\ \A b \in Range(pci) \ {a} :
                  /\ (b \in group(a)) = (G[a].bus = G[b].bus)
                  /\ <<G[a].bus, G[a].slot, G[a].fn>> # <<G[b].bus, G[b].slot, G[b].fn>>
                  /\ b \in group(a) /\ Slot(a) # Slot(b) => G[a].bus \in layout.bridges
  BY <1>4, <1>6, <1>7, <1>8
<1> QED  BY <1>4, <1>9 DEF GroupsKeptWhole, group, G, P

\* Whatever the hosts show: the profile holds addresses of a host's functions and the
\* definition PCI addresses that exist, for devices of the profile only.
THEOREM PcieTypes == PcieSpec => []PcieTypeOK
BY PcieInvariant, PcieTyped, PTL

\* _validate_iommu_isolation and _passthrough_group_key keep every host group whole, for
\* every host and selection, as long as the inventory is the one they looked at.
THEOREM GroupsStayWhole == PcieSpec => []GroupsKeptWhole
BY PcieInvariant, GroupsAreWhole, PTL

\* _passthrough_pcie_layout leaves no guest slot without a function 0 that leads it, for
\* every selection, stage and inventory, outdated ones included.
THEOREM SlotsHaveLeaders == PcieSpec => []FunctionZeroLeads
BY PcieInvariant, SlotsAreLed, PTL
=============================================================================
