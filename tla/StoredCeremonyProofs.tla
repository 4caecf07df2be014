------------------------ MODULE StoredCeremonyProofs ------------------------
(***************************************************************************)
(* Theorems about StoredCeremony: what storage does to a ceremony, and     *)
(* what the results of a finished one answer.                              *)
(***************************************************************************)
EXTENDS StoredCeremony, FiniteSetTheorems, WellFoundedInduction, TLAPS

-----------------------------------------------------------------------------
(***************************************************************************)
(* Induction and sums.                                                     *)
(***************************************************************************)

\* A set of naturals with zero that is closed under successor has them all.
LEMMA NaturalsIn ==
    ASSUME NEW T, 0 \in T, \A n \in Nat : n \in T => n + 1 \in T
    PROVE  Nat \subseteq T
  <1> SUFFICES ASSUME Nat \ T # {} PROVE FALSE
    OBVIOUS
  <1> DEFINE R == OpToRel(<, Nat)
  <1>1. \E n \in Nat \ T : \A m \in Nat \ T : ~(<<m, n>> \in R)
    <2> HIDE DEF R
    <2>1. IsWellFoundedOn(R, Nat)
      BY NatLessThanWellFounded DEF R
    <2> QED BY <2>1, WFMin
  <1>2. \A m, n \in Nat : m < n => <<m, n>> \in R
    BY DEF OpToRel
  <1> HIDE DEF R
  <1>3. PICK n \in Nat \ T : \A m \in Nat \ T : ~(<<m, n>> \in R)
    BY <1>1
  <1>4. n # 0 /\ n - 1 \in Nat /\ n - 1 < n /\ (n - 1) + 1 = n
    OBVIOUS
  <1>5. n - 1 \in T
    BY <1>2, <1>3, <1>4
  <1> QED BY <1>4, <1>5

\* The sum over the subsets of a finite set, as FoldFunction computes it.
LEMMA TotalRecursion ==
    ASSUME NEW f, IsFiniteSet(DOMAIN f)
    PROVE  \E iter : /\ Total(f) = iter[DOMAIN f]
                     /\ \A s \in SUBSET DOMAIN f :
                            iter[s] = IF s = {} THEN 0
                                      ELSE LET x == CHOOSE x \in s : TRUE
                                           IN  f[x] + iter[s \ {x}]
  <1> DEFINE D == DOMAIN f
             step(g, s) == IF s = {} THEN 0
                           ELSE LET x == CHOOSE x \in s : TRUE IN f[x] + g[s \ {x}]
             small(n) == {s \in SUBSET D : Cardinality(s) <= n}
             T == {n \in Nat : \E g : g = [s \in small(n) |-> step(g, s)]}
  <1>1. \A s \in SUBSET D : IsFiniteSet(s) /\ Cardinality(s) \in Nat
    BY FS_Subset, FS_CardinalityType
  <1>2. \A s \in SUBSET D : \A x \in s : s \ {x} \in SUBSET D /\ Cardinality(s \ {x}) = Cardinality(s) - 1
    BY <1>1, FS_RemoveElement
  <1>3. 0 \in T
    <2> DEFINE g == [s \in small(0) |-> 0]
    <2>1. \A s \in small(0) : s = {}
      BY <1>1, FS_EmptySet
    <2>2. g = [s \in small(0) |-> step(g, s)]
      BY <2>1
    <2> QED BY <2>2
  <1>4. ASSUME NEW n \in Nat, n \in T PROVE n + 1 \in T
    <2>1. PICK g : g = [s \in small(n) |-> step(g, s)]
      BY <1>4
    <2> DEFINE h == [s \in small(n + 1) |-> step(g, s)]
    <2>2. ASSUME NEW s \in small(n + 1) PROVE step(g, s) = step(h, s)
      <3>1. CASE s = {}
        BY <3>1
      <3>2. CASE s # {}
        <4> DEFINE x == CHOOSE x \in s : TRUE
        <4>1. x \in s
          BY <3>2
        <4>2. s \ {x} \in small(n) /\ s \ {x} \in small(n + 1)
          <5> HIDE DEF x
          <5>1. Cardinality(s) \in Nat /\ Cardinality(s) <= n + 1
            BY <1>1
          <5>2. s \ {x} \in SUBSET D /\ Cardinality(s \ {x}) = Cardinality(s) - 1
            BY <1>2, <4>1
          <5> QED BY <5>1, <5>2
        <4>4. g[s \ {x}] = h[s \ {x}]
          BY <2>1, <4>2
        <4> QED BY <3>2, <4>4
      <3> QED BY <3>1, <3>2
    <2>3. h = [s \in small(n + 1) |-> step(h, s)]
      BY <2>2
    <2> HIDE DEF h, small, step
    <2>4. \E k : k = [s \in small(n + 1) |-> step(k, s)]
      BY <2>3
    <2> QED BY <2>4
  <1>5. Nat \subseteq T
    <2> HIDE DEF T
    <2> QED BY <1>3, <1>4, NaturalsIn
  <1>6. Cardinality(D) \in Nat /\ small(Cardinality(D)) = SUBSET D
    BY <1>1, FS_Subset
  <1>7. \E g : g = [s \in SUBSET D |-> step(g, s)]
    <2> HIDE DEF small, step
    <2> QED BY <1>5, <1>6
  <1> DEFINE iter == CHOOSE g : g = [s \in SUBSET D |-> step(g, s)]
  <1>8. iter = [s \in SUBSET D |-> step(iter, s)]
    BY <1>7
  <1>9. Total(f) = iter[D]
    BY DEF Total, FoldFunction, FoldFunctionOnSet, MapThenFoldSet
  <1> HIDE DEF iter
  <1>10. \A s \in SUBSET D : iter[s] = step(iter, s)
    BY <1>8
  <1> QED BY <1>9, <1>10

\* A sum of naturals is a natural, and none of them exceeds it.
LEMMA TotalNat ==
    ASSUME NEW f, IsFiniteSet(DOMAIN f), \A k \in DOMAIN f : f[k] \in Nat
    PROVE  Total(f) \in Nat /\ \A k \in DOMAIN f : f[k] <= Total(f)
  <1> DEFINE D == DOMAIN f
  <1>1. PICK iter : /\ Total(f) = iter[D]
                    /\ \A s \in SUBSET D :
                           iter[s] = IF s = {} THEN 0
                                     ELSE LET x == CHOOSE x \in s : TRUE
                                          IN  f[x] + iter[s \ {x}]
    BY TotalRecursion
  <1> DEFINE bounds(s) == iter[s] \in Nat /\ \A k \in s : f[k] <= iter[s]
             T == {n \in Nat : \A s \in SUBSET D : Cardinality(s) = n => bounds(s)}
  <1>2. \A s \in SUBSET D : IsFiniteSet(s) /\ Cardinality(s) \in Nat
    BY FS_Subset, FS_CardinalityType
  <1>3. 0 \in T
    <2>1. \A s \in SUBSET D : Cardinality(s) = 0 => s = {}
      BY <1>2, FS_EmptySet
    <2>2. iter[{}] = 0
      BY <1>1
    <2>3. bounds({})
      BY <2>2
    <2> QED BY <2>1, <2>3
  <1>4. ASSUME NEW n \in Nat, n \in T PROVE n + 1 \in T
    <2> SUFFICES ASSUME NEW s \in SUBSET D, Cardinality(s) = n + 1 PROVE bounds(s)
      OBVIOUS
    <2>1. s # {}
      BY FS_EmptySet
    <2> DEFINE x == CHOOSE x \in s : TRUE
               rest == s \ {x}
    <2>2. x \in s
      BY <2>1
    <2>3. iter[s] = f[x] + iter[rest]
      BY <1>1, <2>1
    <2> HIDE DEF x
    <2>4. rest \in SUBSET D /\ Cardinality(rest) = n
      BY <1>2, <2>2, FS_RemoveElement
    <2>5. bounds(rest)
      BY <1>4, <2>4
    <2>6. f[x] \in Nat
      BY <2>2
    <2>7. iter[s] \in Nat /\ f[x] <= iter[s] /\ iter[rest] <= iter[s]
      BY <2>3, <2>5, <2>6
    <2>8. ASSUME NEW k \in s PROVE f[k] <= iter[s]
      <3>1. CASE k = x
        BY <2>7, <3>1
      <3>2. CASE k # x
        <4>1. f[k] \in Nat /\ f[k] <= iter[rest]
          BY <2>5, <3>2
        <4> QED BY <2>5, <2>7, <4>1
      <3> QED BY <3>1, <3>2
    <2> QED BY <2>7, <2>8
  <1>5. Nat \subseteq T
    <2> HIDE DEF T
    <2> QED BY <1>3, <1>4, NaturalsIn
  <1>6. bounds(D)
    BY <1>2, <1>5
  <1> QED BY <1>1, <1>6

\* A sum of larger numbers is larger.
LEMMA TotalGrows ==
    ASSUME NEW f, NEW g, DOMAIN f = DOMAIN g, IsFiniteSet(DOMAIN f),
           \A k \in DOMAIN f : f[k] \in Nat /\ g[k] \in Nat /\ f[k] <= g[k]
    PROVE  Total(f) <= Total(g)
  <1> DEFINE D == DOMAIN f
             Sums(iter, h) == \A s \in SUBSET D :
                                 iter[s] = IF s = {} THEN 0
                                           ELSE LET x == CHOOSE x \in s : TRUE
                                                IN  h[x] + iter[s \ {x}]
  <1>1. PICK low : Total(f) = low[D] /\ Sums(low, f)
    BY TotalRecursion
  <1>2. PICK high : Total(g) = high[D] /\ Sums(high, g)
    <2>1. \E iter : /\ Total(g) = iter[DOMAIN g]
                    /\ \A s \in SUBSET DOMAIN g :
                           iter[s] = IF s = {} THEN 0
                                     ELSE LET x == CHOOSE x \in s : TRUE
                                          IN  g[x] + iter[s \ {x}]
      <3>1. IsFiniteSet(DOMAIN g)
        OBVIOUS
      <3> QED BY <3>1, TotalRecursion
    <2> QED BY <2>1
  <1> DEFINE below(s) == low[s] \in Nat /\ high[s] \in Nat /\ low[s] <= high[s]
             T == {n \in Nat : \A s \in SUBSET D : Cardinality(s) = n => below(s)}
  <1>3. \A s \in SUBSET D : IsFiniteSet(s) /\ Cardinality(s) \in Nat
    BY FS_Subset, FS_CardinalityType
  <1>4. 0 \in T
    <2>1. \A s \in SUBSET D : Cardinality(s) = 0 => s = {}
      BY <1>3, FS_EmptySet
    <2>2. low[{}] = 0 /\ high[{}] = 0
      BY <1>1, <1>2
    <2>3. below({})
      BY <2>2
    <2> QED BY <2>1, <2>3
  <1>5. ASSUME NEW n \in Nat, n \in T PROVE n + 1 \in T
    <2> SUFFICES ASSUME NEW s \in SUBSET D, Cardinality(s) = n + 1 PROVE below(s)
      OBVIOUS
    <2>1. s # {}
      BY FS_EmptySet
    <2> DEFINE x == CHOOSE x \in s : TRUE
               rest == s \ {x}
    <2>2. x \in s
      BY <2>1
    <2>3. low[s] = f[x] + low[rest] /\ high[s] = g[x] + high[rest]
      BY <1>1, <1>2, <2>1
    <2> HIDE DEF x
    <2>4. rest \in SUBSET D /\ Cardinality(rest) = n
      BY <1>3, <2>2, FS_RemoveElement
    <2>5. below(rest)
      BY <1>5, <2>4
    <2>6. f[x] \in Nat /\ g[x] \in Nat /\ f[x] <= g[x]
      BY <2>2
    <2> HIDE DEF rest
    <2> QED BY <2>3, <2>5, <2>6
  <1>6. Nat \subseteq T
    <2> HIDE DEF T
    <2> QED BY <1>4, <1>5, NaturalsIn
  <1>7. below(D)
    BY <1>3, <1>6
  <1> QED BY <1>1, <1>2, <1>7

-----------------------------------------------------------------------------
(***************************************************************************)
(* The walks over values do what their levels say.                         *)
(***************************************************************************)

LEMMA CloneRecursion ==
    /\ \A value \in Values : CloneValueAt(0)[value] = TooDeep(value)
    /\ \A room \in Rooms \ {0} : \A value \in Values :
           CloneValueAt(room)[value] = CloneLevel(value, CloneValueAt(room - 1))
  <1> DEFINE step(at, room) ==
                 [value \in Values |->
                     IF room = 0 THEN TooDeep(value) ELSE CloneLevel(value, at[room - 1])]
             T == {n \in Nat : \E g : g = [room \in 0 .. n |-> step(g, room)]}
  <1>1. \A g, h : step(g, 0) = step(h, 0)
    OBVIOUS
  <1>2. \A g, h : \A room : g[room - 1] = h[room - 1] => step(g, room) = step(h, room)
    OBVIOUS
  <1>3. 0 \in T
    <2> DEFINE g == [room \in 0 .. 0 |-> step(0, 0)]
    <2>1. \A room \in 0 .. 0 : room = 0
      OBVIOUS
    <2> HIDE DEF step
    <2>2. g = [room \in 0 .. 0 |-> step(g, room)]
      BY <1>1, <2>1
    <2> HIDE DEF g
    <2> QED BY <2>2
  <1>4. ASSUME NEW n \in Nat, n \in T PROVE n + 1 \in T
    <2> HIDE DEF step
    <2>1. PICK g : g = [room \in 0 .. n |-> step(g, room)]
      BY <1>4
    <2> DEFINE h == [room \in 0 .. n + 1 |-> step(g, room)]
    <2>2. ASSUME NEW room \in 0 .. n + 1 PROVE step(g, room) = step(h, room)
      <3>1. CASE room = 0
        BY <1>1, <3>1
      <3>2. CASE room # 0
        <4>1. room - 1 \in 0 .. n /\ room - 1 \in 0 .. n + 1
          BY <3>2
        <4>2. g[room - 1] = h[room - 1]
          BY <2>1, <4>1
        <4> QED BY <1>2, <4>2
      <3> QED BY <3>1, <3>2
    <2>3. h = [room \in 0 .. n + 1 |-> step(h, room)]
      BY <2>2
    <2> HIDE DEF h
    <2> QED BY <2>3
  <1>5. Nat \subseteq T
    <2> HIDE DEF T
    <2> QED BY <1>3, <1>4, NaturalsIn
  <1>6. MaxValueDepth + 1 \in Nat
    BY LimitsAssumption
  <1>7. \E g : g = [room \in Rooms |-> step(g, room)]
    <2> HIDE DEF step
    <2> QED BY <1>5, <1>6 DEF Rooms
  <1> DEFINE at == CHOOSE g : g = [room \in Rooms |-> step(g, room)]
  <1>8. at = [room \in Rooms |-> step(at, room)]
    BY <1>7
  <1>9. \A room : CloneValueAt(room) = at[room]
    BY DEF CloneValueAt
  <1> HIDE DEF at
  <1>10. ASSUME NEW value \in Values PROVE CloneValueAt(0)[value] = TooDeep(value)
    <2>1. 0 \in Rooms
      BY <1>6 DEF Rooms
    <2>2. at[0] = step(at, 0)
      BY <1>8, <2>1
    <2> QED BY <1>9, <2>2
  <1>11. ASSUME NEW room \in Rooms \ {0}, NEW value \in Values
         PROVE  CloneValueAt(room)[value] = CloneLevel(value, CloneValueAt(room - 1))
    <2>1. at[room] = step(at, room)
      BY <1>8
    <2>2. at[room][value] = CloneLevel(value, at[room - 1])
      BY <2>1
    <2> QED BY <1>9, <2>2
  <1> QED BY <1>10, <1>11

LEMMA EncodeRecursion ==
    /\ \A value \in Values : EncodeValueAt(0)[value] = TooDeep(value)
    /\ \A room \in Rooms \ {0} : \A value \in Values :
           EncodeValueAt(room)[value] = EncodeLevel(value, EncodeValueAt(room - 1))
  <1> DEFINE step(at, room) ==
                 [value \in Values |->
                     IF room = 0 THEN TooDeep(value) ELSE EncodeLevel(value, at[room - 1])]
             T == {n \in Nat : \E g : g = [room \in 0 .. n |-> step(g, room)]}
  <1>1. \A g, h : step(g, 0) = step(h, 0)
    OBVIOUS
  <1>2. \A g, h : \A room : g[room - 1] = h[room - 1] => step(g, room) = step(h, room)
    OBVIOUS
  <1>3. 0 \in T
    <2> DEFINE g == [room \in 0 .. 0 |-> step(0, 0)]
    <2>1. \A room \in 0 .. 0 : room = 0
      OBVIOUS
    <2> HIDE DEF step
    <2>2. g = [room \in 0 .. 0 |-> step(g, room)]
      BY <1>1, <2>1
    <2> HIDE DEF g
    <2> QED BY <2>2
  <1>4. ASSUME NEW n \in Nat, n \in T PROVE n + 1 \in T
    <2> HIDE DEF step
    <2>1. PICK g : g = [room \in 0 .. n |-> step(g, room)]
      BY <1>4
    <2> DEFINE h == [room \in 0 .. n + 1 |-> step(g, room)]
    <2>2. ASSUME NEW room \in 0 .. n + 1 PROVE step(g, room) = step(h, room)
      <3>1. CASE room = 0
        BY <1>1, <3>1
      <3>2. CASE room # 0
        <4>1. room - 1 \in 0 .. n /\ room - 1 \in 0 .. n + 1
          BY <3>2
        <4>2. g[room - 1] = h[room - 1]
          BY <2>1, <4>1
        <4> QED BY <1>2, <4>2
      <3> QED BY <3>1, <3>2
    <2>3. h = [room \in 0 .. n + 1 |-> step(h, room)]
      BY <2>2
    <2> HIDE DEF h
    <2> QED BY <2>3
  <1>5. Nat \subseteq T
    <2> HIDE DEF T
    <2> QED BY <1>3, <1>4, NaturalsIn
  <1>6. MaxValueDepth + 1 \in Nat
    BY LimitsAssumption
  <1>7. \E g : g = [room \in Rooms |-> step(g, room)]
    <2> HIDE DEF step
    <2> QED BY <1>5, <1>6 DEF Rooms
  <1> DEFINE at == CHOOSE g : g = [room \in Rooms |-> step(g, room)]
  <1>8. at = [room \in Rooms |-> step(at, room)]
    BY <1>7
  <1>9. \A room : EncodeValueAt(room) = at[room]
    BY DEF EncodeValueAt
  <1> HIDE DEF at
  <1>10. ASSUME NEW value \in Values PROVE EncodeValueAt(0)[value] = TooDeep(value)
    <2>1. 0 \in Rooms
      BY <1>6 DEF Rooms
    <2>2. at[0] = step(at, 0)
      BY <1>8, <2>1
    <2> QED BY <1>9, <2>2
  <1>11. ASSUME NEW room \in Rooms \ {0}, NEW value \in Values
         PROVE  EncodeValueAt(room)[value] = EncodeLevel(value, EncodeValueAt(room - 1))
    <2>1. at[room] = step(at, room)
      BY <1>8
    <2>2. at[room][value] = EncodeLevel(value, at[room - 1])
      BY <2>1
    <2> QED BY <1>9, <2>2
  <1> QED BY <1>10, <1>11

LEMMA DecodeRecursion ==
    /\ \A value \in EncodedValues : DecodeValueAt(0)[value] = TooDeep(value)
    /\ \A room \in Rooms \ {0} : \A value \in EncodedValues :
           DecodeValueAt(room)[value] = DecodeLevel(value, DecodeValueAt(room - 1))
  <1> DEFINE step(at, room) ==
                 [value \in EncodedValues |->
                     IF room = 0 THEN TooDeep(value) ELSE DecodeLevel(value, at[room - 1])]
             T == {n \in Nat : \E g : g = [room \in 0 .. n |-> step(g, room)]}
  <1>1. \A g, h : step(g, 0) = step(h, 0)
    OBVIOUS
  <1>2. \A g, h : \A room : g[room - 1] = h[room - 1] => step(g, room) = step(h, room)
    OBVIOUS
  <1>3. 0 \in T
    <2> DEFINE g == [room \in 0 .. 0 |-> step(0, 0)]
    <2>1. \A room \in 0 .. 0 : room = 0
      OBVIOUS
    <2> HIDE DEF step
    <2>2. g = [room \in 0 .. 0 |-> step(g, room)]
      BY <1>1, <2>1
    <2> HIDE DEF g
    <2> QED BY <2>2
  <1>4. ASSUME NEW n \in Nat, n \in T PROVE n + 1 \in T
    <2> HIDE DEF step
    <2>1. PICK g : g = [room \in 0 .. n |-> step(g, room)]
      BY <1>4
    <2> DEFINE h == [room \in 0 .. n + 1 |-> step(g, room)]
    <2>2. ASSUME NEW room \in 0 .. n + 1 PROVE step(g, room) = step(h, room)
      <3>1. CASE room = 0
        BY <1>1, <3>1
      <3>2. CASE room # 0
        <4>1. room - 1 \in 0 .. n /\ room - 1 \in 0 .. n + 1
          BY <3>2
        <4>2. g[room - 1] = h[room - 1]
          BY <2>1, <4>1
        <4> QED BY <1>2, <4>2
      <3> QED BY <3>1, <3>2
    <2>3. h = [room \in 0 .. n + 1 |-> step(h, room)]
      BY <2>2
    <2> HIDE DEF h
    <2> QED BY <2>3
  <1>5. Nat \subseteq T
    <2> HIDE DEF T
    <2> QED BY <1>3, <1>4, NaturalsIn
  <1>6. MaxValueDepth + 1 \in Nat
    BY LimitsAssumption
  <1>7. \E g : g = [room \in Rooms |-> step(g, room)]
    <2> HIDE DEF step
    <2> QED BY <1>5, <1>6 DEF Rooms
  <1> DEFINE at == CHOOSE g : g = [room \in Rooms |-> step(g, room)]
  <1>8. at = [room \in Rooms |-> step(at, room)]
    BY <1>7
  <1>9. \A room : DecodeValueAt(room) = at[room]
    BY DEF DecodeValueAt
  <1> HIDE DEF at
  <1>10. ASSUME NEW value \in EncodedValues PROVE DecodeValueAt(0)[value] = TooDeep(value)
    <2>1. 0 \in Rooms
      BY <1>6 DEF Rooms
    <2>2. at[0] = step(at, 0)
      BY <1>8, <2>1
    <2> QED BY <1>9, <2>2
  <1>11. ASSUME NEW room \in Rooms \ {0}, NEW value \in EncodedValues
         PROVE  DecodeValueAt(room)[value] = DecodeLevel(value, DecodeValueAt(room - 1))
    <2>1. at[room] = step(at, room)
      BY <1>8
    <2>2. at[room][value] = DecodeLevel(value, at[room - 1])
      BY <2>1
    <2> QED BY <1>9, <2>2
  <1> QED BY <1>10, <1>11

-----------------------------------------------------------------------------
(***************************************************************************)
(* What encoding and decoding do to a value.                               *)
(***************************************************************************)

\* The parts of a container's work.
LEMMA ContainerParts ==
    ASSUME NEW type, NEW inner
    PROVE  LET work == ContainerWork(type, inner) IN
           /\ work.ok = \A k \in DOMAIN inner : inner[k].ok
           /\ work.result = <<type, [k \in DOMAIN inner |-> inner[k].result]>>
  BY DEF ContainerWork, Work

\* It depends on its entries only through their work.
LEMMA ContainerAlike ==
    ASSUME NEW type, NEW f, NEW g, DOMAIN f = DOMAIN g
    PROVE  /\ (\A k \in DOMAIN f : f[k].nodes = g[k].nodes) =>
                  ContainerWork(type, f).nodes = ContainerWork(type, g).nodes
           /\ (\A k \in DOMAIN f : f[k].bytes = g[k].bytes) =>
                  ContainerWork(type, f).bytes = ContainerWork(type, g).bytes
  <1> DEFINE nodes(h) == [k \in DOMAIN h |-> h[k].nodes + IF type = "object" THEN 1 ELSE 0]
             bytes(h) == [k \in DOMAIN h |-> h[k].bytes + IF type = "object" THEN Size[k] ELSE 0]
  <1>1. \A h : /\ ContainerWork(type, h).nodes = 1 + Total(nodes(h))
               /\ ContainerWork(type, h).bytes = Total(bytes(h))
    BY DEF ContainerWork, Work
  <1>2. ASSUME \A k \in DOMAIN f : f[k].nodes = g[k].nodes PROVE nodes(f) = nodes(g)
    BY <1>2
  <1>3. ASSUME \A k \in DOMAIN f : f[k].bytes = g[k].bytes PROVE bytes(f) = bytes(g)
    BY <1>3
  <1> HIDE DEF nodes, bytes
  <1> QED BY <1>1, <1>2, <1>3

LEMMA ContainerTyped ==
    ASSUME NEW type, NEW inner, IsFiniteSet(DOMAIN inner),
           type = "object" => DOMAIN inner \subseteq DOMAIN Size,
           \A k \in DOMAIN inner : inner[k].nodes \in Nat /\ inner[k].bytes \in Nat
    PROVE  ContainerWork(type, inner).nodes \in Nat /\ ContainerWork(type, inner).bytes \in Nat
  <1> DEFINE nodes == [k \in DOMAIN inner |-> inner[k].nodes + IF type = "object" THEN 1 ELSE 0]
             bytes == [k \in DOMAIN inner |-> inner[k].bytes + IF type = "object" THEN Size[k] ELSE 0]
  <1>1. /\ ContainerWork(type, inner).nodes = 1 + Total(nodes)
        /\ ContainerWork(type, inner).bytes = Total(bytes)
    BY DEF ContainerWork, Work
  <1>2. /\ \A k \in DOMAIN nodes : nodes[k] \in Nat
        /\ \A k \in DOMAIN bytes : bytes[k] \in Nat
    BY SizeAssumption
  <1>3. IsFiniteSet(DOMAIN nodes) /\ IsFiniteSet(DOMAIN bytes)
    OBVIOUS
  <1> HIDE DEF nodes, bytes
  <1>4. Total(nodes) \in Nat /\ Total(bytes) \in Nat
    BY <1>2, <1>3, TotalNat
  <1> QED BY <1>1, <1>4

\* It grows with the work of its entries.
LEMMA ContainerGrows ==
    ASSUME NEW type, NEW f, NEW g, DOMAIN f = DOMAIN g, IsFiniteSet(DOMAIN f),
           type = "object" => DOMAIN f \subseteq DOMAIN Size,
           \A k \in DOMAIN f : f[k].bytes \in Nat /\ g[k].bytes \in Nat /\ f[k].bytes <= g[k].bytes
    PROVE  ContainerWork(type, f).bytes <= ContainerWork(type, g).bytes
  <1> DEFINE bytes(h) == [k \in DOMAIN h |-> h[k].bytes + IF type = "object" THEN Size[k] ELSE 0]
  <1>1. ContainerWork(type, f).bytes = Total(bytes(f)) /\ ContainerWork(type, g).bytes = Total(bytes(g))
    BY DEF ContainerWork, Work
  <1>2. /\ DOMAIN bytes(f) = DOMAIN f /\ DOMAIN bytes(g) = DOMAIN f
        /\ \A k \in DOMAIN f :
               bytes(f)[k] \in Nat /\ bytes(g)[k] \in Nat /\ bytes(f)[k] <= bytes(g)[k]
    BY SizeAssumption
  <1> HIDE DEF bytes
  <1> QED BY <1>1, <1>2, TotalGrows

LEMMA ValuesWorkGrows ==
    ASSUME NEW f, NEW g, DOMAIN f = DOMAIN g, IsFiniteSet(DOMAIN f), DOMAIN f \subseteq DOMAIN Size,
           \A k \in DOMAIN f : f[k].bytes \in Nat /\ g[k].bytes \in Nat /\ f[k].bytes <= g[k].bytes
    PROVE  ValuesWork(f).bytes <= ValuesWork(g).bytes
  <1> DEFINE bytes(h) == [id \in DOMAIN h |-> h[id].bytes + Size[id]]
  <1>1. ValuesWork(f).bytes = Total(bytes(f)) /\ ValuesWork(g).bytes = Total(bytes(g))
    BY DEF ValuesWork, Work
  <1>2. /\ DOMAIN bytes(f) = DOMAIN f /\ DOMAIN bytes(g) = DOMAIN f
        /\ \A k \in DOMAIN f :
               bytes(f)[k] \in Nat /\ bytes(g)[k] \in Nat /\ bytes(f)[k] <= bytes(g)[k]
    BY SizeAssumption
  <1> HIDE DEF bytes
  <1> QED BY <1>1, <1>2, TotalGrows

\* The work for a map of values: what each needs is within the whole.
LEMMA ValuesWorkTyped ==
    ASSUME NEW inner, IsFiniteSet(DOMAIN inner), DOMAIN inner \subseteq DOMAIN Size,
           \A id \in DOMAIN inner : inner[id].nodes \in Nat /\ inner[id].bytes \in Nat
    PROVE  LET work == ValuesWork(inner) IN
           /\ work.nodes \in Nat /\ work.bytes \in Nat
           /\ \A id \in DOMAIN inner :
                  inner[id].nodes <= work.nodes /\ inner[id].bytes <= work.bytes
  <1> DEFINE nodes == [id \in DOMAIN inner |-> inner[id].nodes + 1]
             bytes == [id \in DOMAIN inner |-> inner[id].bytes + Size[id]]
  <1>1. /\ ValuesWork(inner).nodes = Total(nodes)
        /\ ValuesWork(inner).bytes = Total(bytes)
    BY DEF ValuesWork, Work
  <1>2. /\ \A id \in DOMAIN nodes : nodes[id] \in Nat
        /\ \A id \in DOMAIN bytes : bytes[id] \in Nat
    BY SizeAssumption
  <1>3. IsFiniteSet(DOMAIN nodes) /\ IsFiniteSet(DOMAIN bytes)
    OBVIOUS
  <1>4. /\ Total(nodes) \in Nat /\ Total(bytes) \in Nat
        /\ \A id \in DOMAIN nodes : nodes[id] <= Total(nodes)
        /\ \A id \in DOMAIN bytes : bytes[id] <= Total(bytes)
    <2> HIDE DEF nodes, bytes
    <2> QED BY <1>2, <1>3, TotalNat
  <1>5. ASSUME NEW id \in DOMAIN inner
        PROVE  inner[id].nodes <= Total(nodes) /\ inner[id].bytes <= Total(bytes)
    <2>1. nodes[id] = inner[id].nodes + 1 /\ bytes[id] = inner[id].bytes + Size[id]
      OBVIOUS
    <2>2. /\ inner[id].nodes \in Nat /\ inner[id].bytes \in Nat /\ Size[id] \in Nat
      BY SizeAssumption
    <2>3. nodes[id] <= Total(nodes) /\ bytes[id] <= Total(bytes)
      BY <1>4
    <2> HIDE DEF nodes, bytes
    <2> QED BY <1>4, <2>1, <2>2, <2>3
  <1> HIDE DEF nodes, bytes
  <1> QED BY <1>1, <1>4, <1>5

\* Nor does it depend on more than the work of each.
LEMMA ValuesWorkAlike ==
    ASSUME NEW f, NEW g, DOMAIN f = DOMAIN g, \A id \in DOMAIN f : f[id].nodes = g[id].nodes
    PROVE  ValuesWork(f).nodes = ValuesWork(g).nodes
  <1> DEFINE nodes(h) == [id \in DOMAIN h |-> h[id].nodes + 1]
  <1>1. \A h : ValuesWork(h).nodes = Total(nodes(h))
    BY DEF ValuesWork, Work
  <1>2. nodes(f) = nodes(g)
    OBVIOUS
  <1> HIDE DEF nodes
  <1> QED BY <1>1, <1>2

LEMMA NormalizePlain ==
    ASSUME NEW value, value[1] \notin {"PRFValues", "PRFInput", "LargeBlobInput"}
    PROVE  NormalizeBuiltInValue(value) = value
  BY DEF NormalizeBuiltInValue

\* A level of the three walks, type by type.
LEMMA EncodeLevels ==
    ASSUME NEW raw, NEW encode
    PROVE  LET value == NormalizeBuiltInValue(raw)
               work == EncodeLevel(raw, encode)
           IN  /\ value[1] = "string" => work = Work(1, Size[value[2]], TRUE, value)
               /\ value[1] = "bytes" =>
                      work = Work(1, Size[value[2]], TRUE, <<"bytes", <<"canonical", value[2]>>>>)
               /\ value[1] = "float" => work = Work(1, 0, value[2] # NaN, value)
               /\ value[1] \in Scalar => work = Work(1, 0, TRUE, value)
               /\ value[1] \in Container =>
                      work = ContainerWork(value[1],
                                 [k \in DOMAIN value[2] |-> encode[value[2][k]]])
               /\ value[1] \notin {"string", "bytes", "float"} \cup Scalar \cup Container =>
                      work = Work(1, 0, FALSE, value)
  <1> DEFINE value == NormalizeBuiltInValue(raw)
  <1> HIDE DEF value
  <1>1. EncodeLevel(raw, encode) =
          CASE value[1] = "string" -> Work(1, Size[value[2]], TRUE, value)
            [] value[1] = "bytes" ->
                 Work(1, Size[value[2]], TRUE, <<"bytes", <<"canonical", value[2]>>>>)
            [] value[1] = "float" -> Work(1, 0, value[2] # NaN, value)
            [] value[1] \in Scalar -> Work(1, 0, TRUE, value)
            [] value[1] \in Container ->
                 ContainerWork(value[1], [k \in DOMAIN value[2] |-> encode[value[2][k]]])
            [] OTHER -> Work(1, 0, FALSE, value)
    BY DEF EncodeLevel, value
  <1>2. CASE value[1] \in {"string", "bytes", "float"}
    BY <1>1, <1>2 DEF Scalar, Container, value
  <1>3. CASE value[1] \in Scalar
    BY <1>1, <1>3 DEF Scalar, Container, value
  <1>4. CASE value[1] \in Container
    BY <1>1, <1>4 DEF Scalar, Container, value
  <1>5. CASE value[1] \notin {"string", "bytes", "float"} \cup Scalar \cup Container
    BY <1>1, <1>5 DEF Scalar, Container, value
  <1> QED BY <1>2, <1>3, <1>4, <1>5

LEMMA DecodeLevels ==
    ASSUME NEW value, NEW decode
    PROVE  LET work == DecodeLevel(value, decode) IN
           /\ value[1] = "string" => work = Work(1, Size[value[2]], TRUE, value)
           /\ value[1] = "bytes" =>
                  work = Work(1, EncodedLength(Size[value[2][2]]), value[2][1] = "canonical",
                              <<"bytes", value[2][2]>>)
           /\ value[1] = "float" => work = Work(1, 0, value[2] # NaN, value)
           /\ value[1] \in Scalar => work = Work(1, 0, TRUE, value)
           /\ value[1] \in Container =>
                  work = ContainerWork(value[1], [k \in DOMAIN value[2] |-> decode[value[2][k]]])
           /\ value[1] \notin {"string", "bytes", "float"} \cup Scalar \cup Container =>
                  work = Work(1, 0, FALSE, value)
  BY DEF DecodeLevel, Scalar, Container

LEMMA CloneLevels ==
    ASSUME NEW value, NEW clone
    PROVE  LET work == CloneLevel(value, clone) IN
           /\ value[1] \in {"string", "bytes"} => work = Work(1, Size[value[2]], TRUE, value)
           /\ value[1] \in Scalar \cup {"float"} => work = Work(1, 0, TRUE, value)
           /\ value[1] \in Container =>
                  work = ContainerWork(value[1], [k \in DOMAIN value[2] |-> clone[value[2][k]]])
  BY DEF CloneLevel, Scalar, Container

\* The same, for the kinds of value that are no built-in Go type.
LEMMA EncodeBytes ==
    ASSUME NEW value, NEW encode, value[1] = "bytes"
    PROVE  EncodeLevel(value, encode) =
             Work(1, Size[value[2]], TRUE, <<"bytes", <<"canonical", value[2]>>>>)
  <1>1. NormalizeBuiltInValue(value) = value
    BY NormalizePlain
  <1> QED BY <1>1, EncodeLevels

LEMMA EncodeContainer ==
    ASSUME NEW value, NEW encode, value[1] \in Container
    PROVE  EncodeLevel(value, encode) =
             ContainerWork(value[1], [k \in DOMAIN value[2] |-> encode[value[2][k]]])
  <1>1. NormalizeBuiltInValue(value) = value
    BY NormalizePlain DEF Container
  <1> QED BY <1>1, EncodeLevels

\* Encoding and decoding do the same to what is neither bytes nor a container.
LEMMA SimpleAlike ==
    ASSUME NEW value, NEW encode, NEW decode, value[1] \in {"string", "float"} \cup Scalar
    PROVE  EncodeLevel(value, encode) = DecodeLevel(value, decode)
  <1>1. NormalizeBuiltInValue(value) = value
    BY NormalizePlain DEF Scalar
  <1>2. CASE value[1] = "string"
    <2>1. EncodeLevel(value, encode) = Work(1, Size[value[2]], TRUE, value)
      BY <1>1, <1>2, EncodeLevels
    <2>2. DecodeLevel(value, decode) = Work(1, Size[value[2]], TRUE, value)
      BY <1>2, DecodeLevels
    <2> QED BY <2>1, <2>2
  <1>3. CASE value[1] = "float"
    <2>1. EncodeLevel(value, encode) = Work(1, 0, value[2] # NaN, value)
      BY <1>1, <1>3, EncodeLevels
    <2>2. DecodeLevel(value, decode) = Work(1, 0, value[2] # NaN, value)
      BY <1>3, DecodeLevels
    <2> QED BY <2>1, <2>2
  <1>4. CASE value[1] \in Scalar
    <2>1. EncodeLevel(value, encode) = Work(1, 0, TRUE, value)
      BY <1>1, <1>4, EncodeLevels
    <2>2. DecodeLevel(value, decode) = Work(1, 0, TRUE, value)
      BY <1>4, DecodeLevels
    <2> QED BY <2>1, <2>2
  <1> QED BY <1>2, <1>3, <1>4

LEMMA CloneBytes ==
    ASSUME NEW value, NEW clone, value[1] = "bytes"
    PROVE  CloneLevel(value, clone) = Work(1, Size[value[2]], TRUE, value)
  BY CloneLevels

\* What encoding and decoding consume are numbers.
LEMMA EncodeTyped ==
    ASSUME NEW room \in Rooms, NEW value \in Values
    PROVE  EncodeValueAt(room)[value].nodes \in Nat /\ EncodeValueAt(room)[value].bytes \in Nat
  <1> DEFINE typed(n, v) ==
                 EncodeValueAt(n)[v].nodes \in Nat /\ EncodeValueAt(n)[v].bytes \in Nat
             T == {n \in Nat : n \in Rooms => \A v \in Values : typed(n, v)}
  <1>1. 0 \in T
    <2>1. ASSUME NEW v \in Values PROVE typed(0, v)
      <3>1. EncodeValueAt(0)[v] = TooDeep(v)
        BY EncodeRecursion
      <3> QED BY <3>1 DEF TooDeep, Work
    <2> QED BY <2>1
  <1>2. ASSUME NEW n \in Nat, n \in T PROVE n + 1 \in T
    <2> SUFFICES ASSUME n + 1 \in Rooms, NEW v \in Values PROVE typed(n + 1, v)
      OBVIOUS
    <2> DEFINE w == NormalizeBuiltInValue(v)
               inner == [k \in DOMAIN w[2] |-> EncodeValueAt(n)[w[2][k]]]
    <2>1. n \in Rooms /\ n + 1 \in Rooms \ {0} /\ (n + 1) - 1 = n
      BY LimitsAssumption DEF Rooms
    <2>2. EncodeValueAt(n + 1)[v] = EncodeLevel(v, EncodeValueAt(n))
      BY <2>1, EncodeRecursion
    <2>3. \A u \in Values : typed(n, u)
      BY <1>2, <2>1
    <2>4. ValueIn(w, Values) /\ (w[1] = "bytes" => w[2] \in DOMAIN Size)
      <3>1. w[1] = "bytes" => w = v
        BY DEF NormalizeBuiltInValue, PRFValuesObject
      <3> QED BY <3>1, ValuesAssumption
    <2> HIDE DEF w, typed
    <2>5. CASE w[1] \in Container
      <3>1. /\ IsFiniteSet(DOMAIN inner) /\ (w[1] = "object" => DOMAIN inner \subseteq DOMAIN Size)
            /\ \A k \in DOMAIN inner : inner[k].nodes \in Nat /\ inner[k].bytes \in Nat
        <4>1. IsFiniteSet(DOMAIN w[2]) /\ \A k \in DOMAIN w[2] : w[2][k] \in Values
          BY <2>4, <2>5 DEF ValueIn
        <4>2. w[1] = "object" => DOMAIN w[2] \subseteq DOMAIN Size
          BY <2>4 DEF ValueIn
        <4> QED BY <2>3, <4>1, <4>2 DEF typed
      <3>2. EncodeValueAt(n + 1)[v] = ContainerWork(w[1], inner)
        BY <2>2, <2>5, EncodeLevels DEF w
      <3> HIDE DEF inner
      <3> QED BY <3>1, <3>2, ContainerTyped DEF typed
    <2>6. CASE w[1] \in {"string", "bytes"}
      <3>1. Size[w[2]] \in Nat
        BY <2>4, <2>6, SizeAssumption DEF ValueIn
      <3>2. \/ EncodeValueAt(n + 1)[v] = Work(1, Size[w[2]], TRUE, w)
            \/ EncodeValueAt(n + 1)[v] =
                   Work(1, Size[w[2]], TRUE, <<"bytes", <<"canonical", w[2]>>>>)
        BY <2>2, <2>6, EncodeLevels DEF w
      <3> QED BY <3>1, <3>2 DEF typed, Work
    <2>7. CASE w[1] \notin Container \cup {"string", "bytes"}
      <3>1. \E ok : EncodeValueAt(n + 1)[v] = Work(1, 0, ok, w)
        BY <2>2, <2>7, EncodeLevels DEF w
      <3> QED BY <3>1 DEF typed, Work
    <2> QED BY <2>5, <2>6, <2>7
  <1>3. Nat \subseteq T
    <2> HIDE DEF T
    <2> QED BY <1>1, <1>2, NaturalsIn
  <1> QED BY <1>3 DEF Rooms

LEMMA DecodeTyped ==
    ASSUME NEW room \in Rooms, NEW value \in EncodedValues
    PROVE  DecodeValueAt(room)[value].nodes \in Nat /\ DecodeValueAt(room)[value].bytes \in Nat
  <1> DEFINE typed(n, v) ==
                 DecodeValueAt(n)[v].nodes \in Nat /\ DecodeValueAt(n)[v].bytes \in Nat
             T == {n \in Nat : n \in Rooms => \A v \in EncodedValues : typed(n, v)}
  <1>1. 0 \in T
    <2>1. ASSUME NEW v \in EncodedValues PROVE typed(0, v)
      <3>1. DecodeValueAt(0)[v] = TooDeep(v)
        BY DecodeRecursion
      <3> QED BY <3>1 DEF TooDeep, Work
    <2> QED BY <2>1
  <1>2. ASSUME NEW n \in Nat, n \in T PROVE n + 1 \in T
    <2> SUFFICES ASSUME n + 1 \in Rooms, NEW v \in EncodedValues PROVE typed(n + 1, v)
      OBVIOUS
    <2> DEFINE inner == [k \in DOMAIN v[2] |-> DecodeValueAt(n)[v[2][k]]]
    <2>1. n \in Rooms /\ n + 1 \in Rooms \ {0} /\ (n + 1) - 1 = n
      BY LimitsAssumption DEF Rooms
    <2>2. DecodeValueAt(n + 1)[v] = DecodeLevel(v, DecodeValueAt(n))
      BY <2>1, DecodeRecursion
    <2>3. \A u \in EncodedValues : typed(n, u)
      BY <1>2, <2>1
    <2>4. ValueIn(v, EncodedValues) /\ (v[1] = "bytes" => v[2][2] \in DOMAIN Size)
      BY EncodedValuesAssumption
    <2> HIDE DEF typed
    <2>5. CASE v[1] \in Container
      <3>1. /\ IsFiniteSet(DOMAIN inner) /\ (v[1] = "object" => DOMAIN inner \subseteq DOMAIN Size)
            /\ \A k \in DOMAIN inner : inner[k].nodes \in Nat /\ inner[k].bytes \in Nat
        <4>1. IsFiniteSet(DOMAIN v[2]) /\ \A k \in DOMAIN v[2] : v[2][k] \in EncodedValues
          BY <2>4, <2>5 DEF ValueIn
        <4>2. v[1] = "object" => DOMAIN v[2] \subseteq DOMAIN Size
          BY <2>4 DEF ValueIn
        <4> QED BY <2>3, <4>1, <4>2 DEF typed
      <3>2. DecodeValueAt(n + 1)[v] = ContainerWork(v[1], inner)
        BY <2>2, <2>5, DecodeLevels
      <3> HIDE DEF inner
      <3> QED BY <3>1, <3>2, ContainerTyped DEF typed
    <2>6. CASE v[1] = "string"
      <3>1. Size[v[2]] \in Nat
        BY <2>4, <2>6, SizeAssumption DEF ValueIn
      <3>2. DecodeValueAt(n + 1)[v] = Work(1, Size[v[2]], TRUE, v)
        BY <2>2, <2>6, DecodeLevels
      <3> QED BY <3>1, <3>2 DEF typed, Work
    <2>7. CASE v[1] = "bytes"
      <3>1. Size[v[2][2]] \in Nat
        BY <2>4, <2>7, SizeAssumption
      <3>2. EncodedLength(Size[v[2][2]]) \in Nat
        BY <3>1 DEF EncodedLength
      <3>3. DecodeValueAt(n + 1)[v] = Work(1, EncodedLength(Size[v[2][2]]),
                                          v[2][1] = "canonical", <<"bytes", v[2][2]>>)
        BY <2>2, <2>7, DecodeLevels
      <3> QED BY <3>2, <3>3 DEF typed, Work
    <2>8. CASE v[1] \notin Container \cup {"string", "bytes"}
      <3>1. \E ok : DecodeValueAt(n + 1)[v] = Work(1, 0, ok, v)
        BY <2>2, <2>8, DecodeLevels
      <3> QED BY <3>1 DEF typed, Work
    <2> QED BY <2>5, <2>6, <2>7, <2>8
  <1>3. Nat \subseteq T
    <2> HIDE DEF T
    <2> QED BY <1>1, <1>2, NaturalsIn
  <1> QED BY <1>3 DEF Rooms

-----------------------------------------------------------------------------

\* What is encoded decodes: as many nodes, and a copy of the result consumes
\* exactly what the encoding did.
Returns(room, value) ==
    LET encoded == EncodeValueAt(room)[value]
        decoded == DecodeValueAt(room)[encoded.result]
        copied == CloneValueAt(room)[decoded.result]
    IN  /\ encoded.result \in EncodedValues /\ decoded.result \in Values
        /\ decoded.ok /\ decoded.nodes = encoded.nodes
        /\ copied.ok /\ copied.nodes = encoded.nodes /\ copied.bytes = encoded.bytes

LEMMA EncodedReturns ==
    ASSUME NEW room \in Rooms, NEW value \in Values, EncodeValueAt(room)[value].ok
    PROVE  Returns(room, value)
  <1> DEFINE T == {n \in Nat : n \in Rooms =>
                      \A v \in Values : EncodeValueAt(n)[v].ok => Returns(n, v)}
  <1>1. 0 \in T
    <2>1. ASSUME NEW v \in Values PROVE ~EncodeValueAt(0)[v].ok
      <3>1. EncodeValueAt(0)[v] = TooDeep(v)
        BY EncodeRecursion
      <3> QED BY <3>1 DEF TooDeep, Work
    <2> QED BY <2>1
  <1>2. ASSUME NEW n \in Nat, n \in T PROVE n + 1 \in T
    <2> SUFFICES ASSUME n + 1 \in Rooms, NEW v \in Values, EncodeValueAt(n + 1)[v].ok
                 PROVE  Returns(n + 1, v)
      OBVIOUS
    <2> DEFINE w == NormalizeBuiltInValue(v)
               e == EncodeValueAt(n + 1)[v]
               d == DecodeValueAt(n + 1)[e.result]
               c == CloneValueAt(n + 1)[d.result]
    <2>1. n \in Rooms /\ n + 1 \in Rooms \ {0} /\ (n + 1) - 1 = n
      BY LimitsAssumption DEF Rooms
    <2>2. e = EncodeLevel(v, EncodeValueAt(n))
      BY <2>1, EncodeRecursion
    <2>3. e.result \in EncodedValues
      BY <2>1, ClosedAssumption
    <2>4. d = DecodeLevel(e.result, DecodeValueAt(n))
      BY <2>1, <2>3, DecodeRecursion
    <2>5. ASSUME d.ok PROVE d.result \in Values /\ c = CloneLevel(d.result, CloneValueAt(n))
      <3>1. d.result \in Values
        BY <2>1, <2>3, <2>5, ClosedAssumption
      <3> QED BY <2>1, <3>1, CloneRecursion
    <2>6. ValueIn(w, Values)
      BY ValuesAssumption
    <2>7. SUFFICES /\ d.ok /\ d.nodes = e.nodes
                   /\ c.ok /\ c.nodes = e.nodes /\ c.bytes = e.bytes
      BY <2>3, <2>5, <2>7 DEF Returns
    <2> HIDE DEF w, e, d, c
    <2>8. e.ok
      BY DEF e
    <2>9. w = NormalizeBuiltInValue(v)
      BY DEF w
    <2>10. CASE w[1] \in Container
      <3> DEFINE ei == [k \in DOMAIN w[2] |-> EncodeValueAt(n)[w[2][k]]]
                 r == [k \in DOMAIN w[2] |-> ei[k].result]
                 di == [k \in DOMAIN w[2] |-> DecodeValueAt(n)[r[k]]]
                 q == [k \in DOMAIN w[2] |-> di[k].result]
                 ci == [k \in DOMAIN w[2] |-> CloneValueAt(n)[q[k]]]
      <3>1. \A k \in DOMAIN w[2] : w[2][k] \in Values
        BY <2>6, <2>10 DEF ValueIn
      <3>2. e = ContainerWork(w[1], ei)
        BY <2>2, <2>9, <2>10, EncodeLevels
      <3>3. (\A k \in DOMAIN w[2] : ei[k].ok) /\ e.result = <<w[1], r>>
        <4> HIDE DEF ei
        <4>1. DOMAIN ei = DOMAIN w[2]
          BY DEF ei
        <4> QED BY <2>8, <3>2, <4>1, ContainerParts
      <3>4. \A k \in DOMAIN w[2] : Returns(n, w[2][k])
        BY <1>2, <2>1, <3>1, <3>3
      <3>5. d = ContainerWork(w[1], di)
        <4> HIDE DEF r
        <4>1. e.result[1] = w[1] /\ e.result[2] = r /\ DOMAIN r = DOMAIN w[2]
          BY <3>3 DEF r
        <4>2. DecodeLevel(e.result, DecodeValueAt(n)) =
                ContainerWork(e.result[1],
                              [k \in DOMAIN e.result[2] |-> DecodeValueAt(n)[e.result[2][k]]])
          BY <2>10, <4>1, DecodeLevels
        <4>3. [k \in DOMAIN r |-> DecodeValueAt(n)[r[k]]] = di
          BY <4>1
        <4> HIDE DEF di
        <4> QED BY <2>4, <4>1, <4>2, <4>3
      <3>6. \A k \in DOMAIN w[2] :
               /\ di[k].ok /\ di[k].nodes = ei[k].nodes
               /\ ci[k].ok /\ ci[k].nodes = ei[k].nodes /\ ci[k].bytes = ei[k].bytes
        BY <3>4 DEF Returns
      <3>7. DOMAIN ei = DOMAIN w[2] /\ DOMAIN di = DOMAIN w[2] /\ DOMAIN ci = DOMAIN w[2]
        OBVIOUS
      <3>8. d.ok /\ d.nodes = e.nodes /\ d.result = <<w[1], q>>
        <4> HIDE DEF ei, di
        <4>1. d.ok /\ d.result = <<w[1], q>>
          BY <3>5, <3>6, <3>7 DEF ContainerWork, Work
        <4>2. \A k \in DOMAIN di : di[k].nodes = ei[k].nodes
          BY <3>6, <3>7
        <4>3. ContainerWork(w[1], di).nodes = ContainerWork(w[1], ei).nodes
          BY <3>7, <4>2, ContainerAlike
        <4>4. d.nodes = e.nodes
          BY <3>2, <3>5, <4>3
        <4> QED BY <4>1, <4>4
      <3>9. c = ContainerWork(w[1], ci)
        <4> HIDE DEF q
        <4>1. d.result[1] = w[1] /\ d.result[2] = q /\ DOMAIN q = DOMAIN w[2]
          <5>1. d.result = <<w[1], q>>
            BY <3>8
          <5>2. DOMAIN q = DOMAIN w[2]
            BY DEF q
          <5> QED BY <5>1, <5>2
        <4>2. CloneLevel(d.result, CloneValueAt(n)) =
                ContainerWork(d.result[1],
                              [k \in DOMAIN d.result[2] |-> CloneValueAt(n)[d.result[2][k]]])
          BY <2>10, <4>1, CloneLevels
        <4>3. [k \in DOMAIN q |-> CloneValueAt(n)[q[k]]] = ci
          BY <4>1
        <4> HIDE DEF ci
        <4> QED BY <2>5, <3>8, <4>1, <4>2, <4>3
      <3>10. c.ok /\ c.nodes = e.nodes /\ c.bytes = e.bytes
        <4> HIDE DEF ei, ci
        <4>1. c.ok
          BY <3>6, <3>7, <3>9 DEF ContainerWork, Work
        <4>2. \A k \in DOMAIN ci : ci[k].nodes = ei[k].nodes /\ ci[k].bytes = ei[k].bytes
          BY <3>6, <3>7
        <4>3. /\ ContainerWork(w[1], ci).nodes = ContainerWork(w[1], ei).nodes
              /\ ContainerWork(w[1], ci).bytes = ContainerWork(w[1], ei).bytes
          BY <3>7, <4>2, ContainerAlike
        <4> QED BY <3>2, <3>9, <4>1, <4>3
      <3> QED BY <3>8, <3>10
    <2>11. CASE w[1] = "bytes"
      <3>1. e = Work(1, Size[w[2]], TRUE, <<"bytes", <<"canonical", w[2]>>>>)
        BY <2>2, <2>9, <2>11, EncodeLevels
      <3>2. e.nodes = 1 /\ e.bytes = Size[w[2]] /\ e.result = <<"bytes", <<"canonical", w[2]>>>>
        BY <3>1 DEF Work
      <3>3. /\ e.result[1] = "bytes" /\ e.result[2][1] = "canonical" /\ e.result[2][2] = w[2]
        BY <3>2
      <3>4. d = Work(1, EncodedLength(Size[w[2]]), TRUE, <<"bytes", w[2]>>)
        <4>1. d = Work(1, EncodedLength(Size[e.result[2][2]]), e.result[2][1] = "canonical",
                       <<"bytes", e.result[2][2]>>)
          BY <2>4, <3>3, DecodeLevels
        <4> QED BY <3>3, <4>1
      <3>5. d.nodes = 1 /\ d.ok /\ d.result = <<"bytes", w[2]>>
        BY <3>4 DEF Work
      <3>6. d.result[1] = "bytes" /\ d.result[2] = w[2]
        BY <3>5
      <3>7. c = Work(1, Size[w[2]], TRUE, d.result)
        <4>1. c = Work(1, Size[d.result[2]], TRUE, d.result)
          BY <2>5, <3>5, <3>6, CloneBytes
        <4> QED BY <3>6, <4>1
      <3> QED BY <3>2, <3>5, <3>7 DEF Work
    <2>12. CASE w[1] \in {"string", "float"} \cup Scalar
      <3> DEFINE size == IF w[1] = "string" THEN Size[w[2]] ELSE 0
      <3>1. e = Work(1, size, TRUE, w)
        <4>1. w[1] = "float" => w[2] # NaN
          <5>1. w[1] = "float" => e = Work(1, 0, w[2] # NaN, w)
            BY <2>2, <2>9, EncodeLevels
          <5>2. w[1] = "float" => e.ok = (w[2] # NaN)
            BY <5>1 DEF Work
          <5> QED BY <2>8, <5>2
        <4> QED BY <2>2, <2>9, <2>12, <4>1, EncodeLevels DEF Scalar
      <3>2. e.nodes = 1 /\ e.bytes = size /\ e.result = w
        BY <3>1 DEF Work
      <3>3. d = Work(1, size, TRUE, w)
        <4>1. w[1] = "float" => w[2] # NaN
          <5>1. w[1] = "float" => e = Work(1, 0, w[2] # NaN, w)
            BY <2>2, <2>9, EncodeLevels
          <5>2. w[1] = "float" => e.ok = (w[2] # NaN)
            BY <5>1 DEF Work
          <5> QED BY <2>8, <5>2
        <4>2. d = DecodeLevel(w, DecodeValueAt(n))
          BY <2>4, <3>2
        <4> QED BY <2>12, <4>1, <4>2, DecodeLevels DEF Scalar
      <3>4. d.nodes = 1 /\ d.ok /\ d.result = w
        BY <3>3 DEF Work
      <3>5. c = Work(1, size, TRUE, w)
        BY <2>5, <2>12, <3>4, CloneLevels DEF Scalar
      <3> QED BY <3>2, <3>4, <3>5 DEF Work
    <2>13. CASE w[1] \notin {"string", "bytes", "float"} \cup Scalar \cup Container
      <3>1. e = Work(1, 0, FALSE, w)
        BY <2>2, <2>9, <2>13, EncodeLevels
      <3> QED BY <2>8, <3>1 DEF Work
    <2> QED BY <2>10, <2>11, <2>12, <2>13
  <1>3. Nat \subseteq T
    <2> HIDE DEF T
    <2> QED BY <1>1, <1>2, NaturalsIn
  <1> QED BY <1>3 DEF Rooms

\* And what was decoded is written again as it was read, for no more than it
\* took to read it.
LEMMA DecodedStable ==
    ASSUME NEW room \in Rooms, NEW value \in EncodedValues, DecodeValueAt(room)[value].ok
    PROVE  LET decoded == DecodeValueAt(room)[value]
               encoded == EncodeValueAt(room)[decoded.result]
           IN  encoded.result = value /\ encoded.ok /\ encoded.bytes <= decoded.bytes
  <1> DEFINE same(n, v) ==
                 /\ EncodeValueAt(n)[DecodeValueAt(n)[v].result].result = v
                 /\ EncodeValueAt(n)[DecodeValueAt(n)[v].result].ok
                 /\ EncodeValueAt(n)[DecodeValueAt(n)[v].result].bytes <= DecodeValueAt(n)[v].bytes
             T == {n \in Nat : n \in Rooms =>
                      \A v \in EncodedValues : DecodeValueAt(n)[v].ok => same(n, v)}
  <1>1. 0 \in T
    <2>1. ASSUME NEW v \in EncodedValues PROVE ~DecodeValueAt(0)[v].ok
      <3>1. DecodeValueAt(0)[v] = TooDeep(v)
        BY DecodeRecursion
      <3> QED BY <3>1 DEF TooDeep, Work
    <2> QED BY <2>1
  <1>2. ASSUME NEW n \in Nat, n \in T PROVE n + 1 \in T
    <2> SUFFICES ASSUME n + 1 \in Rooms, NEW v \in EncodedValues, DecodeValueAt(n + 1)[v].ok
                 PROVE  same(n + 1, v)
      OBVIOUS
    <2> DEFINE d == DecodeValueAt(n + 1)[v]
               e == EncodeValueAt(n + 1)[d.result]
    <2>1. n \in Rooms /\ n + 1 \in Rooms \ {0} /\ (n + 1) - 1 = n
      BY LimitsAssumption DEF Rooms
    <2>2. d = DecodeLevel(v, DecodeValueAt(n))
      BY <2>1, DecodeRecursion
    <2>3. d.result \in Values
      BY <2>1, ClosedAssumption
    <2>4. e = EncodeLevel(d.result, EncodeValueAt(n))
      BY <2>1, <2>3, EncodeRecursion
    <2>5. /\ ValueIn(v, EncodedValues)
          /\ v[1] = "bytes" => v[2] = <<v[2][1], v[2][2]>>
      BY EncodedValuesAssumption
    <2>6. v = <<v[1], v[2]>>
      BY <2>5 DEF ValueIn
    <2>7. d.ok
      OBVIOUS
    <2>8. SUFFICES e.result = v /\ e.ok /\ e.bytes <= d.bytes
      OBVIOUS
    <2>14. d.bytes \in Nat
      BY DecodeTyped
    <2> HIDE DEF d, e
    <2>9. CASE v[1] \in Container
      <3> DEFINE di == [k \in DOMAIN v[2] |-> DecodeValueAt(n)[v[2][k]]]
                 q == [k \in DOMAIN v[2] |-> di[k].result]
                 ei == [k \in DOMAIN v[2] |-> EncodeValueAt(n)[q[k]]]
      <3>1. v[2] \in [DOMAIN v[2] -> EncodedValues]
        BY <2>5, <2>9 DEF ValueIn
      <3>2. d = ContainerWork(v[1], di)
        BY <2>2, <2>9, DecodeLevels
      <3>3. (\A k \in DOMAIN v[2] : di[k].ok) /\ d.result = <<v[1], q>>
        <4> HIDE DEF di
        <4>1. DOMAIN di = DOMAIN v[2]
          BY DEF di
        <4> QED BY <2>7, <3>2, <4>1, ContainerParts
      <3>4. \A k \in DOMAIN v[2] :
                ei[k].result = v[2][k] /\ ei[k].ok /\ ei[k].bytes <= di[k].bytes
        BY <1>2, <2>1, <3>1, <3>3
      <3>8. \A k \in DOMAIN v[2] : ei[k].bytes \in Nat /\ di[k].bytes \in Nat
        <4>1. \A k \in DOMAIN v[2] : v[2][k] \in EncodedValues /\ q[k] \in Values
          BY <2>1, <3>1, <3>3, ClosedAssumption
        <4> HIDE DEF q
        <4> QED BY <2>1, <4>1, EncodeTyped, DecodeTyped
      <3>9. IsFiniteSet(DOMAIN v[2]) /\ (v[1] = "object" => DOMAIN v[2] \subseteq DOMAIN Size)
        BY <2>5, <2>9 DEF ValueIn
      <3>5. e = ContainerWork(v[1], ei)
        <4> HIDE DEF q
        <4>1. d.result[1] = v[1] /\ d.result[2] = q /\ DOMAIN q = DOMAIN v[2]
          BY <3>3 DEF q
        <4>2. d.result[1] \in Container
          BY <2>9, <4>1
        <4>3. EncodeLevel(d.result, EncodeValueAt(n)) =
                ContainerWork(d.result[1],
                              [k \in DOMAIN d.result[2] |-> EncodeValueAt(n)[d.result[2][k]]])
          BY <4>2, EncodeContainer
        <4>4. [k \in DOMAIN q |-> EncodeValueAt(n)[q[k]]] = ei
          BY <4>1
        <4> HIDE DEF ei
        <4> QED BY <2>4, <4>1, <4>3, <4>4
      <3>6. e.result = <<v[1], [k \in DOMAIN v[2] |-> ei[k].result]>>
        <4> HIDE DEF ei
        <4>1. DOMAIN ei = DOMAIN v[2]
          BY DEF ei
        <4> QED BY <3>5, <4>1 DEF ContainerWork, Work
      <3>7. [k \in DOMAIN v[2] |-> ei[k].result] = v[2]
        BY <3>1, <3>4
      <3>10. e.ok /\ e.bytes <= d.bytes
        <4>1. DOMAIN ei = DOMAIN v[2] /\ DOMAIN di = DOMAIN v[2]
          OBVIOUS
        <4> HIDE DEF ei, di
        <4>2. e.ok
          BY <3>4, <3>5, <4>1, ContainerParts
        <4>3. e.bytes <= d.bytes
          BY <3>2, <3>4, <3>5, <3>8, <3>9, <4>1, ContainerGrows
        <4> QED BY <4>2, <4>3
      <3> QED BY <2>6, <3>6, <3>7, <3>10
    <2>10. CASE v[1] = "bytes"
      <3>1. d = Work(1, EncodedLength(Size[v[2][2]]), v[2][1] = "canonical", <<"bytes", v[2][2]>>)
        BY <2>2, <2>10, DecodeLevels
      <3>2. v[2][1] = "canonical" /\ d.result = <<"bytes", v[2][2]>>
        BY <2>7, <3>1 DEF Work
      <3>3. d.result[1] = "bytes" /\ d.result[2] = v[2][2]
        BY <3>2
      <3>4. e.result = <<"bytes", <<"canonical", v[2][2]>>>>
        <4>1. e = Work(1, Size[d.result[2]], TRUE, <<"bytes", <<"canonical", d.result[2]>>>>)
          BY <2>4, <3>3, EncodeBytes
        <4> QED BY <3>3, <4>1 DEF Work
      <3>5. e.ok /\ e.bytes <= d.bytes
        <4>1. e = Work(1, Size[d.result[2]], TRUE, <<"bytes", <<"canonical", d.result[2]>>>>)
          BY <2>4, <3>3, EncodeBytes
        <4>2. e.ok /\ e.bytes = Size[v[2][2]] /\ d.bytes = EncodedLength(Size[v[2][2]])
          BY <3>1, <3>3, <4>1 DEF Work
        <4>3. Size[v[2][2]] \in Nat
          BY <2>10, EncodedValuesAssumption, SizeAssumption
        <4> QED BY <4>2, <4>3 DEF EncodedLength
      <3> QED BY <2>5, <2>6, <2>10, <3>2, <3>4, <3>5
    <2>11. CASE v[1] \in {"string", "float"} \cup Scalar
      <3>1. d.result = v
        <4>1. \E bytes, ok : d = Work(1, bytes, ok, v)
          BY <2>2, <2>11, DecodeLevels DEF Scalar
        <4> QED BY <4>1 DEF Work
      <3>2. e = d
        BY <2>2, <2>4, <2>11, <3>1, SimpleAlike
      <3> QED BY <2>7, <2>14, <3>1, <3>2
    <2>12. CASE v[1] \notin {"string", "bytes", "float"} \cup Scalar \cup Container
      <3>1. d = Work(1, 0, FALSE, v)
        BY <2>2, <2>12, DecodeLevels
      <3> QED BY <2>7, <3>1 DEF Work
    <2> QED BY <2>9, <2>10, <2>11, <2>12
  <1>3. Nat \subseteq T
    <2> HIDE DEF T
    <2> QED BY <1>1, <1>2, NaturalsIn
  <1> QED BY <1>3 DEF Rooms

-----------------------------------------------------------------------------
(***************************************************************************)
(* Storing a value and loading it again.                                   *)
(***************************************************************************)

\* The value that storing a value and loading it again makes of it.
Restored(room, value) == DecodeValueAt(room)[EncodeValueAt(room)[value].result].result

Stores(room, value) == room \in Rooms /\ value \in Values /\ EncodeValueAt(room)[value].ok

\* A level of it: the normal form w of a value comes back, part by part.
LEMMA RestoredLevel ==
    ASSUME NEW room, NEW value, Stores(room, value), NEW w, w = NormalizeBuiltInValue(value)
    PROVE  /\ w[1] \in {"string", "bytes", "float"} \cup Scalar \cup Container
           /\ w[1] \notin Container => Restored(room, value) = w
           /\ w[1] \in Container =>
                  /\ Restored(room, value) =
                         <<w[1], [k \in DOMAIN w[2] |-> Restored(room - 1, w[2][k])]>>
                  /\ \A k \in DOMAIN w[2] : Stores(room - 1, w[2][k])
  <1> DEFINE e == EncodeValueAt(room)[value]
             d == DecodeValueAt(room)[e.result]
             n == room - 1
  <1>1. room \in Rooms /\ value \in Values /\ e.ok
    BY DEF Stores
  <1>2. room # 0
    <2> SUFFICES ASSUME room = 0 PROVE FALSE
      OBVIOUS
    <2>1. e = TooDeep(value)
      BY <1>1, EncodeRecursion
    <2> QED BY <1>1, <2>1 DEF TooDeep, Work
  <1>3. n \in Rooms
    BY <1>1, <1>2, LimitsAssumption DEF Rooms
  <1>4. e = EncodeLevel(value, EncodeValueAt(n))
    BY <1>1, <1>2, EncodeRecursion
  <1>5. e.result \in EncodedValues
    BY <1>1, ClosedAssumption
  <1>6. d = DecodeLevel(e.result, DecodeValueAt(n))
    BY <1>1, <1>2, <1>5, DecodeRecursion
  <1>7. ValueIn(w, Values)
    BY <1>1, ValuesAssumption
  <1>8. w = <<w[1], w[2]>>
    BY <1>7 DEF ValueIn
  <1>9. Restored(room, value) = d.result
    BY DEF Restored
  <1> HIDE DEF e, d, n
  <1>10. CASE w[1] \in Container
    <2> DEFINE ei == [k \in DOMAIN w[2] |-> EncodeValueAt(n)[w[2][k]]]
               r == [k \in DOMAIN w[2] |-> ei[k].result]
               di == [k \in DOMAIN w[2] |-> DecodeValueAt(n)[r[k]]]
    <2>1. \A k \in DOMAIN w[2] : w[2][k] \in Values
      BY <1>7, <1>10 DEF ValueIn
    <2>2. e = ContainerWork(w[1], ei)
      BY <1>4, <1>10, EncodeLevels
    <2>3. (\A k \in DOMAIN w[2] : ei[k].ok) /\ e.result = <<w[1], r>>
      <3> HIDE DEF ei
      <3>1. DOMAIN ei = DOMAIN w[2]
        BY DEF ei
      <3>2. /\ e.ok = \A k \in DOMAIN w[2] : ei[k].ok
            /\ e.result = <<w[1], r>>
        BY <2>2, <3>1 DEF ContainerWork, Work
      <3> QED BY <1>1, <3>2
    <2>4. \A k \in DOMAIN w[2] : Stores(n, w[2][k])
      BY <1>3, <2>1, <2>3 DEF Stores
    <2>5. d = ContainerWork(w[1], di)
      <3> HIDE DEF r
      <3>1. e.result[1] = w[1] /\ e.result[2] = r /\ DOMAIN r = DOMAIN w[2]
        BY <2>3 DEF r
      <3>2. DecodeLevel(e.result, DecodeValueAt(n)) =
              ContainerWork(e.result[1],
                            [k \in DOMAIN e.result[2] |-> DecodeValueAt(n)[e.result[2][k]]])
        BY <1>10, <3>1, DecodeLevels
      <3>3. [k \in DOMAIN r |-> DecodeValueAt(n)[r[k]]] = di
        BY <3>1
      <3> HIDE DEF di
      <3> QED BY <1>6, <3>1, <3>2, <3>3
    <2>6. d.result = <<w[1], [k \in DOMAIN w[2] |-> di[k].result]>>
      <3> HIDE DEF di
      <3>1. DOMAIN di = DOMAIN w[2]
        BY DEF di
      <3> QED BY <2>5, <3>1 DEF ContainerWork, Work
    <2>7. [k \in DOMAIN w[2] |-> di[k].result] = [k \in DOMAIN w[2] |-> Restored(n, w[2][k])]
      BY DEF Restored
    <2> HIDE DEF di
    <2> QED BY <1>9, <1>10, <2>4, <2>6, <2>7 DEF n
  <1>11. CASE w[1] = "bytes"
    <2>1. e = Work(1, Size[w[2]], TRUE, <<"bytes", <<"canonical", w[2]>>>>)
      BY <1>4, <1>11, EncodeLevels
    <2>2. e.result = <<"bytes", <<"canonical", w[2]>>>>
      BY <2>1 DEF Work
    <2>3. e.result[1] = "bytes" /\ e.result[2][1] = "canonical" /\ e.result[2][2] = w[2]
      BY <2>2
    <2>4. d = Work(1, EncodedLength(Size[e.result[2][2]]), e.result[2][1] = "canonical",
                   <<"bytes", e.result[2][2]>>)
      BY <1>6, <2>3, DecodeLevels
    <2>5. d.result = <<"bytes", w[2]>>
      BY <2>3, <2>4 DEF Work
    <2> QED BY <1>8, <1>9, <1>11, <2>5 DEF Container
  <1>12. CASE w[1] \in {"string", "float"} \cup Scalar
    <2>1. \E bytes, ok : e = Work(1, bytes, ok, w)
      BY <1>4, <1>12, EncodeLevels DEF Scalar
    <2>2. d = DecodeLevel(w, DecodeValueAt(n))
      BY <1>6, <2>1 DEF Work
    <2>3. \E bytes, ok : d = Work(1, bytes, ok, w)
      BY <1>12, <2>2, DecodeLevels DEF Scalar
    <2>4. d.result = w
      BY <2>3 DEF Work
    <2> QED BY <1>9, <1>12, <2>4 DEF Container, Scalar
  <1>13. CASE w[1] \notin {"string", "bytes", "float"} \cup Scalar \cup Container
    <2>1. e = Work(1, 0, FALSE, w)
      BY <1>4, <1>13, EncodeLevels
    <2> QED BY <1>1, <2>1 DEF Work
  <1> QED BY <1>10, <1>11, <1>12, <1>13

\* A string, a Boolean and bytes come back.
LEMMA PlainRestored ==
    ASSUME NEW room, NEW value, Stores(room, value), value[1] \in {"string", "bool", "bytes"}
    PROVE  Restored(room, value) = value
  <1>1. value = NormalizeBuiltInValue(value)
    BY NormalizePlain
  <1> QED BY <1>1, RestoredLevel DEF Container

\* The parts of an object or an array are restored one by one.
LEMMA ContainerRestored ==
    ASSUME NEW room, NEW value, Stores(room, value), value[1] \in Container
    PROVE  /\ Restored(room, value) =
                  <<value[1], [k \in DOMAIN value[2] |-> Restored(room - 1, value[2][k])]>>
           /\ \A k \in DOMAIN value[2] : Stores(room - 1, value[2][k])
  <1>1. value = NormalizeBuiltInValue(value)
    BY NormalizePlain DEF Container
  <1> QED BY <1>1, RestoredLevel

\* A container all of whose parts come back comes back.
LEMMA AllPartsRestored ==
    ASSUME NEW room, NEW type \in Container, NEW f, NEW value, value = <<type, f>>,
           f = [k \in DOMAIN f |-> f[k]],
           \A k \in DOMAIN f : \A n : Stores(n, f[k]) => Restored(n, f[k]) = f[k]
    PROVE  Stores(room, value) => Restored(room, value) = value
  <1> SUFFICES ASSUME Stores(room, value) PROVE Restored(room, value) = value
    OBVIOUS
  <1>1. value[1] = type /\ value[2] = f
    OBVIOUS
  <1>2. /\ Restored(room, value) =
               <<value[1], [k \in DOMAIN value[2] |-> Restored(room - 1, value[2][k])]>>
        /\ \A k \in DOMAIN value[2] : Stores(room - 1, value[2][k])
    BY <1>1, ContainerRestored
  <1>3. \A k \in DOMAIN f : Restored(room - 1, f[k]) = f[k]
    BY <1>1, <1>2
  <1>4. [k \in DOMAIN f |-> Restored(room - 1, f[k])] = f
    BY <1>3
  <1> QED BY <1>1, <1>2, <1>4

-----------------------------------------------------------------------------
(***************************************************************************)
(* Typed inputs come back as objects that are parsed to the same input.    *)
(***************************************************************************)

\* The members of a map of values that may be Absent.
LEMMA PRFValuesFields ==
    ASSUME NEW values
    PROVE  \E g : /\ PRFValuesObject(values) = <<"object", g>>
                  /\ g = [name \in DOMAIN g |-> g[name]]
                  /\ DOMAIN g = {name \in {"first", "second"} :
                                    IF name = "first" THEN values.first # Absent
                                    ELSE values.second # Absent}
                  /\ "first" \in DOMAIN g => g["first"] = <<"bytes", values.first>>
                  /\ "second" \in DOMAIN g => g["second"] = <<"bytes", values.second>>
                  /\ \A name \in DOMAIN g : g[name][1] = "bytes"
  <1> DEFINE f == Fields([first |-> values.first, second |-> values.second], {"first", "second"})
             g == [name \in DOMAIN f |-> <<"bytes", f[name]>>]
  <1>1. PRFValuesObject(values) = <<"object", g>>
    BY DEF PRFValuesObject
  <1>2. DOMAIN f = {name \in {"first", "second"} :
                       IF name = "first" THEN values.first # Absent ELSE values.second # Absent}
    BY DEF Fields
  <1>3. /\ "first" \in DOMAIN f => f["first"] = values.first
        /\ "second" \in DOMAIN f => f["second"] = values.second
    BY DEF Fields
  <1> HIDE DEF f
  <1> WITNESS g
  <1> QED BY <1>1, <1>2, <1>3

\* PRF values are stored as an object of byte strings.
LEMMA PRFValuesAreBytes ==
    ASSUME NEW values
    PROVE  \E g : /\ PRFValuesObject(values) = <<"object", g>>
                  /\ g = [name \in DOMAIN g |-> g[name]]
                  /\ \A name \in DOMAIN g : g[name][1] = "bytes"
  <1> DEFINE f == Fields([first |-> values.first, second |-> values.second], {"first", "second"})
             g == [name \in DOMAIN f |-> <<"bytes", f[name]>>]
  <1>1. PRFValuesObject(values) = <<"object", g>>
    BY DEF PRFValuesObject
  <1> HIDE DEF f
  <1>2. g = [name \in DOMAIN g |-> g[name]] /\ \A name \in DOMAIN g : g[name][1] = "bytes"
    OBVIOUS
  <1> WITNESS g
  <1> QED BY <1>1, <1>2

LEMMA PRFValuesObjectRestored ==
    ASSUME NEW room, NEW values, Stores(room, PRFValuesObject(values))
    PROVE  Restored(room, PRFValuesObject(values)) = PRFValuesObject(values)
  <1>1. PICK g : /\ PRFValuesObject(values) = <<"object", g>>
                 /\ g = [name \in DOMAIN g |-> g[name]]
                 /\ \A name \in DOMAIN g : g[name][1] = "bytes"
    BY PRFValuesAreBytes
  <1>2. \A k \in DOMAIN g : \A n : Stores(n, g[k]) => Restored(n, g[k]) = g[k]
    BY <1>1, PlainRestored
  <1> QED BY <1>1, <1>2, AllPartsRestored DEF Container

\* parsePRFValues reads back what prfValuesObject wrote.
LEMMA PRFValuesParsed ==
    ASSUME NEW values, PRFValuesTyped(values), values.first # Absent
    PROVE  ParsePRFValues(PRFValuesObject(values)) = values
  <1> DEFINE object == PRFValuesObject(values)
  <1>1. PICK g : /\ object = <<"object", g>>
                 /\ DOMAIN g = {name \in {"first", "second"} :
                                   IF name = "first" THEN values.first # Absent
                                   ELSE values.second # Absent}
                 /\ "first" \in DOMAIN g => g["first"] = <<"bytes", values.first>>
                 /\ "second" \in DOMAIN g => g["second"] = <<"bytes", values.second>>
    BY PRFValuesFields
  <1> HIDE DEF object
  <1>2. object[1] = "object" /\ object[2] = g
    BY <1>1
  <1>3. "first" \in DOMAIN g /\ Field(g, "first") = values.first /\ FieldTyped(g, "first", "bytes")
    BY <1>1 DEF Field, FieldTyped
  <1>4. Field(g, "second") = values.second /\ FieldTyped(g, "second", "bytes")
    BY <1>1 DEF Field, FieldTyped
  <1>5. ParsePRFValues(object) = [first |-> Field(g, "first"), second |-> Field(g, "second")]
    BY <1>2, <1>3, <1>4 DEF ParsePRFValues
  <1>6. values = [first |-> values.first, second |-> values.second]
    BY DEF PRFValuesTyped
  <1> QED BY <1>3, <1>4, <1>5, <1>6 DEF object

LEMMA PRFValuesRestored ==
    ASSUME NEW room, NEW value, Stores(room, value), ParsePRFValues(value) # Invalid
    PROVE  ParsePRFValues(Restored(room, value)) = ParsePRFValues(value)
  <1>1. value \in Values
    BY DEF Stores
  <1>2. CASE value[1] = "PRFValues"
    <2> DEFINE w == PRFValuesObject(value[2])
    <2>1. ParsePRFValues(value) = value[2] /\ value[2].first # Absent
      BY <1>2 DEF ParsePRFValues
    <2>2. PRFValuesTyped(value[2])
      BY <1>1, <1>2, TypedInputsAssumption
    <2>3. w = NormalizeBuiltInValue(value)
      BY <1>2 DEF NormalizeBuiltInValue
    <2>4. PICK g : /\ w = <<"object", g>>
                   /\ g = [name \in DOMAIN g |-> g[name]]
                   /\ \A name \in DOMAIN g : g[name][1] = "bytes"
      BY PRFValuesAreBytes
    <2>5. ParsePRFValues(w) = value[2]
      BY <2>1, <2>2, PRFValuesParsed
    <2> HIDE DEF w
    <2>6. w[1] \in Container /\ w[2] = g
      BY <2>4 DEF Container
    <2>7. /\ Restored(room, value) = <<w[1], [k \in DOMAIN g |-> Restored(room - 1, g[k])]>>
          /\ \A k \in DOMAIN g : Stores(room - 1, g[k])
      BY <2>3, <2>6, RestoredLevel
    <2>8. \A k \in DOMAIN g : Restored(room - 1, g[k]) = g[k]
      BY <2>4, <2>7, PlainRestored
    <2>9. Restored(room, value) = w
      BY <2>4, <2>6, <2>7, <2>8
    <2> QED BY <2>1, <2>5, <2>9
  <1>3. CASE value[1] = "object"
    <2> DEFINE f == value[2]
               g == [k \in DOMAIN f |-> Restored(room - 1, f[k])]
               r == Restored(room, value)
    <2>1. r = <<"object", g>> /\ \A k \in DOMAIN f : Stores(room - 1, f[k])
      BY <1>3, ContainerRestored DEF Container
    <2>2. /\ "first" \in DOMAIN f
          /\ FieldTyped(f, "first", "bytes") /\ FieldTyped(f, "second", "bytes")
          /\ ParsePRFValues(value) = [first |-> Field(f, "first"), second |-> Field(f, "second")]
      BY <1>3 DEF ParsePRFValues
    <2>3. \A k \in DOMAIN f : f[k][1] = "bytes" => g[k] = f[k]
      BY <2>1, PlainRestored
    <2>4. DOMAIN g = DOMAIN f
      OBVIOUS
    <2>5. r[1] = "object" /\ r[2] = g
      BY <2>1
    <2> HIDE DEF f, g, r
    <2>6. /\ "first" \in DOMAIN g
          /\ FieldTyped(g, "first", "bytes") /\ FieldTyped(g, "second", "bytes")
          /\ Field(g, "first") = Field(f, "first") /\ Field(g, "second") = Field(f, "second")
      BY <2>2, <2>3, <2>4 DEF FieldTyped, Field
    <2>7. ParsePRFValues(r) = [first |-> Field(g, "first"), second |-> Field(g, "second")]
      BY <2>5, <2>6 DEF ParsePRFValues
    <2> QED BY <2>2, <2>6, <2>7 DEF r
  <1>4. CASE value[1] \notin {"PRFValues", "object"}
    BY <1>4 DEF ParsePRFValues
  <1> QED BY <1>2, <1>3, <1>4

\* What is restored is a value again.
LEMMA RestoredValue ==
    ASSUME NEW room, NEW value, Stores(room, value)
    PROVE  Restored(room, value) \in Values /\ Restored(room, value)[2] # Absent
  <1>1. Returns(room, value)
    BY EncodedReturns DEF Stores
  <1>2. Restored(room, value) \in Values
    BY <1>1 DEF Returns, Restored
  <1> QED BY <1>2, ValuesAssumption

\* The parts of prfInputFromFields.
EvalOf(fields) == IF "eval" \in DOMAIN fields THEN ParsePRFValues(fields["eval"]) ELSE Absent

ByOf(entries) ==
    IF entries = Absent THEN Absent ELSE [id \in DOMAIN entries |-> ParsePRFValues(entries[id])]

AllowOf(credentials) ==
    IF credentials = Absent THEN Absent ELSE [i \in DOMAIN credentials |-> credentials[i][2]]

FieldsValid(fields) ==
    LET entries == Field(fields, "evalByCredential")
        credentials == Field(fields, "allowCredentials")
    IN  /\ FieldTyped(fields, "evalByCredential", "object")
        /\ FieldTyped(fields, "allowCredentials", "array")
        /\ EvalOf(fields) # Invalid
        /\ entries # Absent => \A id \in DOMAIN entries : ParsePRFValues(entries[id]) # Invalid
        /\ credentials # Absent => \A i \in DOMAIN credentials : credentials[i][1] = "string"

LEMMA PRFFields ==
    ASSUME NEW fields
    PROVE  PRFInputFromFields(fields) =
               IF FieldsValid(fields)
               THEN [eval |-> EvalOf(fields), by |-> ByOf(Field(fields, "evalByCredential")),
                     allow |-> AllowOf(Field(fields, "allowCredentials"))]
               ELSE Invalid
  <1> DEFINE eval == EvalOf(fields)
             entries == Field(fields, "evalByCredential")
             by == ByOf(entries)
             credentials == Field(fields, "allowCredentials")
             allow == AllowOf(credentials)
             valid == /\ FieldTyped(fields, "evalByCredential", "object")
                      /\ FieldTyped(fields, "allowCredentials", "array")
                      /\ eval # Invalid
                      /\ entries # Absent => \A id \in DOMAIN entries : by[id] # Invalid
                      /\ credentials # Absent =>
                             \A i \in DOMAIN credentials : credentials[i][1] = "string"
  <1>1. PRFInputFromFields(fields) =
            IF valid THEN [eval |-> eval, by |-> by, allow |-> allow] ELSE Invalid
    BY DEF PRFInputFromFields, EvalOf, ByOf, AllowOf
  <1>2. entries # Absent => \A id \in DOMAIN entries : by[id] = ParsePRFValues(entries[id])
    BY DEF ByOf
  <1>3. valid <=> FieldsValid(fields)
    <2> HIDE DEF by
    <2> QED BY <1>2 DEF FieldsValid
  <1> HIDE DEF valid
  <1> QED BY <1>1, <1>3

\* Objects with the same members, as far as the parser looks.
LEMMA PRFFieldsAlike ==
    ASSUME NEW f, NEW g, FieldsValid(f),
           EvalOf(g) = EvalOf(f),
           FieldTyped(g, "evalByCredential", "object"), FieldTyped(g, "allowCredentials", "array"),
           ByOf(Field(g, "evalByCredential")) = ByOf(Field(f, "evalByCredential")),
           (Field(g, "evalByCredential") = Absent) = (Field(f, "evalByCredential") = Absent),
           Field(f, "evalByCredential") # Absent =>
               DOMAIN Field(g, "evalByCredential") = DOMAIN Field(f, "evalByCredential"),
           Field(g, "allowCredentials") = Field(f, "allowCredentials")
    PROVE  PRFInputFromFields(g) = PRFInputFromFields(f)
  <1> DEFINE ef == Field(f, "evalByCredential")
             eg == Field(g, "evalByCredential")
  <1>1. ASSUME ef # Absent, NEW id \in DOMAIN eg PROVE ParsePRFValues(eg[id]) # Invalid
    <2>1. eg # Absent /\ DOMAIN eg = DOMAIN ef
      BY <1>1
    <2>2. ByOf(eg)[id] = ParsePRFValues(eg[id])
      BY <2>1 DEF ByOf
    <2>3. ByOf(ef)[id] = ParsePRFValues(ef[id])
      BY <1>1, <2>1 DEF ByOf
    <2>4. ParsePRFValues(ef[id]) # Invalid
      BY <1>1, <2>1 DEF FieldsValid
    <2> QED BY <2>2, <2>3, <2>4
  <1>2. FieldsValid(g)
    BY <1>1 DEF FieldsValid
  <1> QED BY <1>2, PRFFields

\* An object's members, each restored, are parsed to the same input.
LEMMA PRFObjectRestored ==
    ASSUME NEW room, NEW f, NEW g, g = [k \in DOMAIN f |-> Restored(room, f[k])],
           \A k \in DOMAIN f : Stores(room, f[k]), FieldsValid(f)
    PROVE  PRFInputFromFields(g) = PRFInputFromFields(f)
  <1> DEFINE ef == Field(f, "evalByCredential")
             eg == Field(g, "evalByCredential")
             af == Field(f, "allowCredentials")
             ag == Field(g, "allowCredentials")
  <1>0. DOMAIN g = DOMAIN f /\ \A k \in DOMAIN f : g[k] = Restored(room, f[k]) /\ f[k] \in Values
    BY DEF Stores
  <1>1. EvalOf(g) = EvalOf(f)
    <2>1. CASE "eval" \notin DOMAIN f
      BY <1>0, <2>1 DEF EvalOf
    <2>2. CASE "eval" \in DOMAIN f
      <3>1. ParsePRFValues(f["eval"]) # Invalid
        BY <2>2 DEF FieldsValid, EvalOf
      <3>2. ParsePRFValues(Restored(room, f["eval"])) = ParsePRFValues(f["eval"])
        BY <2>2, <3>1, PRFValuesRestored
      <3> QED BY <1>0, <2>2, <3>2 DEF EvalOf
    <2> QED BY <2>1, <2>2
  <1>2. /\ FieldTyped(g, "evalByCredential", "object")
        /\ ByOf(eg) = ByOf(ef) /\ (eg = Absent) = (ef = Absent)
        /\ ef # Absent => DOMAIN eg = DOMAIN ef
    <2>1. CASE "evalByCredential" \notin DOMAIN f
      BY <1>0, <2>1 DEF FieldTyped, Field
    <2>2. CASE "evalByCredential" \in DOMAIN f
      <3> DEFINE v == f["evalByCredential"]
                 r == Restored(room, v)
                 h == [k \in DOMAIN v[2] |-> Restored(room - 1, v[2][k])]
      <3>1. v[1] = "object" /\ v[1] \in Container /\ Stores(room, v)
        BY <2>2 DEF FieldsValid, FieldTyped, Container
      <3>2. r = <<v[1], h>> /\ \A k \in DOMAIN v[2] : Stores(room - 1, v[2][k])
        BY <3>1, ContainerRestored
      <3>3. r[2] # Absent /\ v[2] # Absent
        BY <1>0, <2>2, <3>1, RestoredValue, ValuesAssumption
      <3>4. ef = v[2] /\ eg = r[2] /\ g["evalByCredential"] = r
        BY <1>0, <2>2 DEF Field
      <3>5. \A k \in DOMAIN v[2] : ParsePRFValues(v[2][k]) # Invalid
        BY <3>3, <3>4 DEF FieldsValid
      <3> HIDE DEF v, r
      <3>6. r[1] = "object" /\ r[2] = h
        BY <3>1, <3>2
      <3>7. \A k \in DOMAIN v[2] : ParsePRFValues(h[k]) = ParsePRFValues(v[2][k])
        BY <3>2, <3>5, PRFValuesRestored
      <3>8. DOMAIN h = DOMAIN v[2]
        OBVIOUS
      <3> HIDE DEF h
      <3>9. ByOf(h) = ByOf(v[2])
        BY <3>3, <3>6, <3>7, <3>8 DEF ByOf
      <3> QED BY <3>3, <3>4, <3>6, <3>8, <3>9 DEF FieldTyped
    <2> QED BY <2>1, <2>2
  <1>3. FieldTyped(g, "allowCredentials", "array") /\ ag = af
    <2>1. CASE "allowCredentials" \notin DOMAIN f
      BY <1>0, <2>1 DEF FieldTyped, Field
    <2>2. CASE "allowCredentials" \in DOMAIN f
      <3> DEFINE v == f["allowCredentials"]
                 r == Restored(room, v)
      <3>1. v[1] = "array" /\ v[1] \in Container /\ v \in Values
        BY <1>0, <2>2 DEF FieldsValid, FieldTyped, Container
      <3>2. v = <<v[1], v[2]>> /\ v[2] = [k \in DOMAIN v[2] |-> v[2][k]] /\ v[2] # Absent
        BY <3>1, ValuesAssumption DEF ValueIn
      <3>3. ag = r[2] /\ af = v[2] /\ g["allowCredentials"] = r
        BY <1>0, <2>2 DEF Field
      <3>4. \A k \in DOMAIN v[2] : v[2][k][1] = "string"
        BY <3>2, <3>3 DEF FieldsValid
      <3>5. Stores(room, v)
        BY <2>2
      <3> HIDE DEF v
      <3>6. \A k \in DOMAIN v[2] : \A n : Stores(n, v[2][k]) => Restored(n, v[2][k]) = v[2][k]
        BY <3>4, PlainRestored
      <3>7. r = v
        BY <3>1, <3>2, <3>5, <3>6, AllPartsRestored
      <3> QED BY <3>1, <3>3, <3>7 DEF FieldTyped
    <2> QED BY <2>1, <2>2
  <1> QED BY <1>1, <1>2, <1>3, PRFFieldsAlike

\* The object g holds the fields of the PRF input r that are present.
FieldsOf(g, r) ==
    /\ g = [name \in DOMAIN g |-> g[name]]
    /\ DOMAIN g \subseteq {"eval", "evalByCredential", "allowCredentials"}
    /\ ("eval" \in DOMAIN g) = (r.eval # Absent)
    /\ ("evalByCredential" \in DOMAIN g) = (r.by # Absent)
    /\ ("allowCredentials" \in DOMAIN g) = (r.allow # Absent)
    /\ r.eval # Absent => g["eval"] = PRFValuesObject(r.eval)
    /\ r.by # Absent =>
           g["evalByCredential"] =
               <<"object", [id \in DOMAIN r.by |-> PRFValuesObject(r.by[id])]>>
    /\ r.allow # Absent =>
           g["allowCredentials"] =
               <<"array", [i \in DOMAIN r.allow |-> <<"string", r.allow[i]>>]>>

\* The members a typed PRF input is stored as.
LEMMA PRFInputFields ==
    ASSUME NEW value \in Values, value[1] = "PRFInput"
    PROVE  \E g : NormalizeBuiltInValue(value) = <<"object", g>> /\ FieldsOf(g, value[2])
  <1> DEFINE r == value[2]
             names == {"eval", "evalByCredential", "allowCredentials"}
             eval == PRFValuesObject(r.eval)
             by == <<"object", [id \in DOMAIN r.by |-> PRFValuesObject(r.by[id])]>>
             allow == <<"array", [i \in DOMAIN r.allow |-> <<"string", r.allow[i]>>]>>
             m == [eval |-> IF r.eval = Absent THEN Absent ELSE eval,
                   evalByCredential |-> IF r.by = Absent THEN Absent ELSE by,
                   allowCredentials |-> IF r.allow = Absent THEN Absent ELSE allow]
             g == Fields(m, names)
  <1>1. NormalizeBuiltInValue(value) = <<"object", g>>
    BY DEF NormalizeBuiltInValue
  <1>2. /\ r.eval # Absent => eval # Absent
        /\ r.by # Absent => by # Absent
        /\ r.allow # Absent => allow # Absent
    <2>1. PRFInputTyped(r)
      BY TypedInputsAssumption
    <2>2. /\ r.eval # Absent => eval \in Values
          /\ r.by # Absent => by \in Values
          /\ r.allow # Absent => allow \in Values
      BY <2>1 DEF PRFInputTyped
    <2> HIDE DEF eval, by, allow
    <2> QED BY <2>2, ValuesAssumption
  <1> HIDE DEF eval, by, allow
  <1>3. /\ (m["eval"] # Absent) = (r.eval # Absent) /\ (r.eval # Absent => m["eval"] = eval)
        /\ (m["evalByCredential"] # Absent) = (r.by # Absent)
        /\ (r.by # Absent => m["evalByCredential"] = by)
        /\ (m["allowCredentials"] # Absent) = (r.allow # Absent)
        /\ (r.allow # Absent => m["allowCredentials"] = allow)
    BY <1>2
  <1> HIDE DEF m
  <1>4. g = [name \in {n \in names : m[n] # Absent} |-> m[name]]
    BY DEF Fields
  <1> HIDE DEF g
  <1>5. DOMAIN g = {n \in names : m[n] # Absent} /\ \A name \in DOMAIN g : g[name] = m[name]
    BY <1>4
  <1>6. g = [name \in DOMAIN g |-> g[name]]
    BY <1>4, <1>5
  <1>7. /\ ("eval" \in DOMAIN g) = (r.eval # Absent)
        /\ ("evalByCredential" \in DOMAIN g) = (r.by # Absent)
        /\ ("allowCredentials" \in DOMAIN g) = (r.allow # Absent)
    BY <1>3, <1>5
  <1>8. /\ r.eval # Absent => g["eval"] = eval
        /\ r.by # Absent => g["evalByCredential"] = by
        /\ r.allow # Absent => g["allowCredentials"] = allow
    BY <1>3, <1>5, <1>7
  <1>9. DOMAIN g \subseteq names
    BY <1>5
  <1>10. FieldsOf(g, r)
    <2> HIDE DEF r
    <2> QED BY <1>6, <1>7, <1>8, <1>9 DEF FieldsOf, eval, by, allow
  <1> WITNESS g
  <1> QED BY <1>1, <1>10

\* A typed PRF input is stored as an object with the same meaning.
LEMMA PRFTypedParsed ==
    ASSUME NEW value \in Values, value[1] = "PRFInput", ParsePRFInput(value) # Invalid, NEW g,
           NormalizeBuiltInValue(value) = <<"object", g>>
    PROVE  PRFInputFromFields(g) = value[2] /\ FieldsValid(g)
  <1> DEFINE r == value[2]
  <1>1. PICK h : NormalizeBuiltInValue(value) = <<"object", h>> /\ FieldsOf(h, value[2])
    BY PRFInputFields
  <1>2. /\ DOMAIN g \subseteq {"eval", "evalByCredential", "allowCredentials"}
        /\ ("eval" \in DOMAIN g) = (r.eval # Absent)
        /\ ("evalByCredential" \in DOMAIN g) = (r.by # Absent)
        /\ ("allowCredentials" \in DOMAIN g) = (r.allow # Absent)
        /\ r.eval # Absent => g["eval"] = PRFValuesObject(r.eval)
        /\ r.by # Absent =>
               g["evalByCredential"] =
                   <<"object", [id \in DOMAIN r.by |-> PRFValuesObject(r.by[id])]>>
        /\ r.allow # Absent =>
               g["allowCredentials"] =
                   <<"array", [i \in DOMAIN r.allow |-> <<"string", r.allow[i]>>]>>
    <2>1. g = h
      BY <1>1
    <2>2. FieldsOf(g, r)
      BY <1>1, <2>1
    <2> HIDE DEF r
    <2> QED BY <2>2 DEF FieldsOf
  <1>3. PRFInputTyped(r)
    BY TypedInputsAssumption
  <1>4. /\ r.eval # Absent => r.eval.first # Absent
        /\ r.by # Absent => \A id \in DOMAIN r.by : r.by[id].first # Absent
    BY DEF ParsePRFInput
  <1> HIDE DEF r
  <1>5. EvalOf(g) = r.eval /\ EvalOf(g) # Invalid
    <2>1. CASE r.eval = Absent
      BY <1>2, <2>1, TypedInputsAssumption DEF EvalOf
    <2>2. CASE r.eval # Absent
      <3>1. EvalOf(g) = ParsePRFValues(PRFValuesObject(r.eval))
        BY <1>2, <2>2 DEF EvalOf
      <3>2. PRFValuesTyped(r.eval)
        BY <1>3, <2>2 DEF PRFInputTyped
      <3>3. EvalOf(g) = r.eval
        BY <1>4, <2>2, <3>1, <3>2, PRFValuesParsed
      <3> QED BY <3>2, <3>3 DEF PRFValuesTyped
    <2> QED BY <2>1, <2>2
  <1>6. /\ FieldTyped(g, "evalByCredential", "object")
        /\ ByOf(Field(g, "evalByCredential")) = r.by
        /\ Field(g, "evalByCredential") # Absent =>
               \A id \in DOMAIN Field(g, "evalByCredential") :
                   ParsePRFValues(Field(g, "evalByCredential")[id]) # Invalid
    <2>1. CASE r.by = Absent
      BY <1>2, <2>1 DEF Field, FieldTyped, ByOf
    <2>2. CASE r.by # Absent
      <3> DEFINE f == [id \in DOMAIN r.by |-> PRFValuesObject(r.by[id])]
      <3>1. g["evalByCredential"] = <<"object", f>> /\ "evalByCredential" \in DOMAIN g
        BY <1>2, <2>2
      <3>2. \A id \in DOMAIN r.by : PRFValuesTyped(r.by[id])
        BY <1>3, <2>2 DEF PRFInputTyped
      <3>3. \A id \in DOMAIN r.by : ParsePRFValues(f[id]) = r.by[id]
        BY <1>4, <2>2, <3>2, PRFValuesParsed
      <3>4. \A id \in DOMAIN r.by : ParsePRFValues(f[id]) # Invalid
        BY <3>2, <3>3 DEF PRFValuesTyped
      <3>5. DOMAIN f = DOMAIN r.by
        OBVIOUS
      <3>6. <<"object", f>> \in Values
        BY <1>3, <2>2 DEF PRFInputTyped
      <3>7. r.by = [id \in DOMAIN r.by |-> r.by[id]]
        BY <1>3, <2>2 DEF PRFInputTyped
      <3> HIDE DEF f
      <3>8. f # Absent
        <4>1. <<"object", f>>[2] # Absent
          BY <3>6, ValuesAssumption
        <4> QED BY <4>1
      <3>9. Field(g, "evalByCredential") = f /\ FieldTyped(g, "evalByCredential", "object")
        BY <3>1 DEF Field, FieldTyped
      <3>10. ByOf(f) = r.by
        BY <3>3, <3>5, <3>7, <3>8 DEF ByOf
      <3> QED BY <3>4, <3>5, <3>9, <3>10
    <2> QED BY <2>1, <2>2
  <1>7. /\ FieldTyped(g, "allowCredentials", "array")
        /\ AllowOf(Field(g, "allowCredentials")) = r.allow
        /\ Field(g, "allowCredentials") # Absent =>
               \A i \in DOMAIN Field(g, "allowCredentials") :
                   Field(g, "allowCredentials")[i][1] = "string"
    <2>1. CASE r.allow = Absent
      BY <1>2, <2>1 DEF Field, FieldTyped, AllowOf
    <2>2. CASE r.allow # Absent
      <3> DEFINE f == [i \in DOMAIN r.allow |-> <<"string", r.allow[i]>>]
      <3>1. g["allowCredentials"] = <<"array", f>> /\ "allowCredentials" \in DOMAIN g
        BY <1>2, <2>2
      <3>2. DOMAIN f = DOMAIN r.allow
            /\ \A i \in DOMAIN f : f[i][1] = "string" /\ f[i][2] = r.allow[i]
        OBVIOUS
      <3>3. <<"array", f>> \in Values /\ r.allow = [i \in DOMAIN r.allow |-> r.allow[i]]
        BY <1>3, <2>2 DEF PRFInputTyped
      <3> HIDE DEF f
      <3>4. f # Absent
        <4>1. <<"array", f>>[2] # Absent
          BY <3>3, ValuesAssumption
        <4> QED BY <4>1
      <3>5. Field(g, "allowCredentials") = f /\ FieldTyped(g, "allowCredentials", "array")
        BY <3>1 DEF Field, FieldTyped
      <3>6. AllowOf(f) = r.allow
        BY <3>2, <3>3, <3>4 DEF AllowOf
      <3> QED BY <3>2, <3>5, <3>6
    <2> QED BY <2>1, <2>2
  <1>8. FieldsValid(g)
    BY <1>5, <1>6, <1>7 DEF FieldsValid
  <1>9. PRFInputFromFields(g) = [eval |-> r.eval, by |-> r.by, allow |-> r.allow]
    BY <1>5, <1>6, <1>7, <1>8, PRFFields
  <1>10. r = [eval |-> r.eval, by |-> r.by, allow |-> r.allow]
    BY <1>3 DEF PRFInputTyped
  <1> QED BY <1>8, <1>9, <1>10 DEF r

\* parsePRFInput does not see whether its input was stored in between.
LEMMA PRFInputRestored ==
    ASSUME NEW room, NEW value, Stores(room, value), ParsePRFInput(value) # Invalid
    PROVE  ParsePRFInput(Restored(room, value)) = ParsePRFInput(value)
  <1>1. value \in Values
    BY DEF Stores
  <1>2. ASSUME NEW f, NormalizeBuiltInValue(value) = <<"object", f>>, FieldsValid(f)
        PROVE  ParsePRFInput(Restored(room, value)) = PRFInputFromFields(f)
    <2> DEFINE w == NormalizeBuiltInValue(value)
               r == Restored(room, value)
               g == [k \in DOMAIN f |-> Restored(room - 1, f[k])]
    <2>1. w[1] = "object" /\ w[1] \in Container /\ w[2] = f
      BY <1>2 DEF Container
    <2>2. r = <<w[1], [k \in DOMAIN w[2] |-> Restored(room - 1, w[2][k])]>>
          /\ \A k \in DOMAIN w[2] : Stores(room - 1, w[2][k])
      <3> HIDE DEF w
      <3>1. w = NormalizeBuiltInValue(value)
        BY DEF w
      <3> QED BY <2>1, <3>1, RestoredLevel
    <2> HIDE DEF w, r
    <2>3. r[1] = "object" /\ r[2] = g
      BY <2>1, <2>2
    <2>4. PRFInputFromFields(g) = PRFInputFromFields(f)
      BY <1>2, <2>1, <2>2, PRFObjectRestored
    <2>5. ParsePRFInput(r) = PRFInputFromFields(r[2])
      BY <2>3 DEF ParsePRFInput
    <2> QED BY <2>3, <2>4, <2>5 DEF r
  <1>3. CASE value[1] = "PRFInput"
    <2>1. PICK g : NormalizeBuiltInValue(value) = <<"object", g>>
      BY <1>1, <1>3, PRFInputFields
    <2>2. PRFInputFromFields(g) = value[2] /\ FieldsValid(g)
      BY <1>1, <1>3, <2>1, PRFTypedParsed
    <2>3. ParsePRFInput(value) = value[2]
      BY <1>3 DEF ParsePRFInput
    <2> QED BY <1>2, <2>1, <2>2, <2>3
  <1>4. CASE value[1] = "object"
    <2>1. NormalizeBuiltInValue(value) = value /\ value = <<"object", value[2]>>
      BY <1>1, <1>4, NormalizePlain, ValuesAssumption DEF ValueIn
    <2>2. ParsePRFInput(value) = PRFInputFromFields(value[2])
      BY <1>4 DEF ParsePRFInput
    <2>3. FieldsValid(value[2])
      BY <2>2, PRFFields
    <2> QED BY <1>2, <2>1, <2>2, <2>3
  <1>5. CASE value[1] \notin {"PRFInput", "object"}
    BY <1>5 DEF ParsePRFInput
  <1> QED BY <1>3, <1>4, <1>5

\* The members a typed large-blob input is stored as.
LEMMA LargeBlobFields ==
    ASSUME NEW value \in Values, value[1] = "LargeBlobInput", NEW r, r = value[2]
    PROVE  \E g : /\ NormalizeBuiltInValue(value) = <<"object", g>>
                  /\ ("support" \in DOMAIN g <=> r.support # "")
                  /\ ("read" \in DOMAIN g <=> r.read # Absent)
                  /\ ("write" \in DOMAIN g <=> r.write # Absent)
                  /\ r.support # "" => g["support"] = <<"string", r.support>>
                  /\ r.read # Absent => g["read"] = <<"bool", r.read>>
                  /\ r.write # Absent => g["write"] = <<"bytes", r.write>>
  <1> DEFINE names == {"support", "read", "write"}
             support == <<"string", r.support>>
             read == <<"bool", r.read>>
             write == <<"bytes", r.write>>
             m == [support |-> IF r.support = "" THEN Absent ELSE support,
                   read |-> IF r.read = Absent THEN Absent ELSE read,
                   write |-> IF r.write = Absent THEN Absent ELSE write]
             g == Fields(m, names)
  <1>1. NormalizeBuiltInValue(value) = <<"object", g>>
    BY DEF NormalizeBuiltInValue
  <1>2. /\ r.support # "" => support # Absent
        /\ r.read # Absent => read # Absent
        /\ r.write # Absent => write # Absent
    <2>1. LargeBlobInputTyped(r)
      BY TypedInputsAssumption
    <2>2. /\ r.support # "" => support \in Values
          /\ r.read # Absent => read \in Values
          /\ r.write # Absent => write \in Values
      BY <2>1 DEF LargeBlobInputTyped
    <2> HIDE DEF support, read, write
    <2> QED BY <2>2, ValuesAssumption
  <1> HIDE DEF support, read, write
  <1>3. /\ (m["support"] # Absent <=> r.support # "") /\ (r.support # "" => m["support"] = support)
        /\ (m["read"] # Absent <=> r.read # Absent) /\ (r.read # Absent => m["read"] = read)
        /\ (m["write"] # Absent <=> r.write # Absent) /\ (r.write # Absent => m["write"] = write)
    BY <1>2
  <1> HIDE DEF m
  <1>4. g = [name \in {n \in names : m[n] # Absent} |-> m[name]]
    BY DEF Fields
  <1> HIDE DEF g
  <1>5. DOMAIN g = {n \in names : m[n] # Absent} /\ \A name \in DOMAIN g : g[name] = m[name]
    BY <1>4
  <1>6. /\ ("support" \in DOMAIN g <=> r.support # "")
        /\ ("read" \in DOMAIN g <=> r.read # Absent)
        /\ ("write" \in DOMAIN g <=> r.write # Absent)
    <2>1. "support" \in DOMAIN g <=> m["support"] # Absent
      BY <1>5
    <2>2. "read" \in DOMAIN g <=> m["read"] # Absent
      BY <1>5
    <2>3. "write" \in DOMAIN g <=> m["write"] # Absent
      BY <1>5
    <2> QED BY <1>3, <2>1, <2>2, <2>3
  <1>7. /\ r.support # "" => g["support"] = support
        /\ r.read # Absent => g["read"] = read
        /\ r.write # Absent => g["write"] = write
    BY <1>3, <1>5, <1>6
  <1> WITNESS g
  <1> QED BY <1>1, <1>6, <1>7 DEF support, read, write

FieldsTyped(fields) ==
    /\ FieldTyped(fields, "support", "string") /\ FieldTyped(fields, "read", "bool")
    /\ FieldTyped(fields, "write", "bytes")

LargeBlobOf(fields) ==
    [support |-> Field(fields, "support"), read |-> Field(fields, "read"),
     write |-> Field(fields, "write")]

\* parseLargeBlobInput does not see whether its input was stored in between.
LEMMA LargeBlobRestored ==
    ASSUME NEW room, NEW value, Stores(room, value), ParseLargeBlobInput(value) # Invalid
    PROVE  ParseLargeBlobInput(Restored(room, value)) = ParseLargeBlobInput(value)
  <1>1. value \in Values
    BY DEF Stores
  <1>2. ASSUME NEW f, NormalizeBuiltInValue(value) = <<"object", f>>, FieldsTyped(f)
        PROVE  ParseLargeBlobInput(Restored(room, value)) = LargeBlobOf(f)
    <2> DEFINE w == NormalizeBuiltInValue(value)
               r == Restored(room, value)
               g == [k \in DOMAIN f |-> Restored(room - 1, f[k])]
    <2>1. w[1] = "object" /\ w[1] \in Container /\ w[2] = f
      BY <1>2 DEF Container
    <2>2. r = <<w[1], [k \in DOMAIN w[2] |-> Restored(room - 1, w[2][k])]>>
          /\ \A k \in DOMAIN w[2] : Stores(room - 1, w[2][k])
      <3> HIDE DEF w
      <3>1. w = NormalizeBuiltInValue(value)
        BY DEF w
      <3> QED BY <2>1, <3>1, RestoredLevel
    <2> HIDE DEF w, r
    <2>3. r[1] = "object" /\ r[2] = g
      BY <2>1, <2>2
    <2>4. DOMAIN g = DOMAIN f
          /\ \A k \in DOMAIN f : f[k][1] \in {"string", "bool", "bytes"} => g[k] = f[k]
      BY <2>1, <2>2, PlainRestored
    <2> HIDE DEF g
    <2>5. FieldsTyped(g) /\ LargeBlobOf(g) = LargeBlobOf(f)
      <3>1. \A k \in DOMAIN f \cap {"support", "read", "write"} : g[k] = f[k]
        BY <1>2, <2>4 DEF FieldsTyped, FieldTyped
      <3>2. FieldsTyped(g)
        BY <1>2, <2>4, <3>1 DEF FieldsTyped, FieldTyped
      <3>3. /\ Field(g, "support") = Field(f, "support") /\ Field(g, "read") = Field(f, "read")
            /\ Field(g, "write") = Field(f, "write")
        BY <2>4, <3>1 DEF Field
      <3> QED BY <3>2, <3>3 DEF LargeBlobOf
    <2>6. ParseLargeBlobInput(r) = LargeBlobOf(g)
      BY <2>3, <2>5 DEF ParseLargeBlobInput, FieldsTyped, LargeBlobOf
    <2> QED BY <2>5, <2>6 DEF r
  <1>3. CASE value[1] = "LargeBlobInput"
    <2> DEFINE r == value[2]
    <2>1. PICK g : /\ NormalizeBuiltInValue(value) = <<"object", g>>
                   /\ ("support" \in DOMAIN g <=> r.support # "")
                   /\ ("read" \in DOMAIN g <=> r.read # Absent)
                   /\ ("write" \in DOMAIN g <=> r.write # Absent)
                   /\ r.support # "" => g["support"] = <<"string", r.support>>
                   /\ r.read # Absent => g["read"] = <<"bool", r.read>>
                   /\ r.write # Absent => g["write"] = <<"bytes", r.write>>
      BY <1>1, <1>3, LargeBlobFields
    <2>2. r = [support |-> r.support, read |-> r.read, write |-> r.write]
      BY <1>1, <1>3, TypedInputsAssumption DEF LargeBlobInputTyped
    <2>3. ParseLargeBlobInput(value) = [r EXCEPT !.support = IF @ = "" THEN Absent ELSE @]
      BY <1>3 DEF ParseLargeBlobInput
    <2> HIDE DEF r
    <2>4. ParseLargeBlobInput(value) =
            [support |-> IF r.support = "" THEN Absent ELSE r.support, read |-> r.read,
             write |-> r.write]
      BY <2>2, <2>3
    <2>8. /\ FieldTyped(g, "support", "string")
          /\ Field(g, "support") = IF r.support = "" THEN Absent ELSE r.support
      <3>1. "support" \in DOMAIN g <=> r.support # ""
        BY <2>1
      <3>2. r.support # "" => g["support"] = <<"string", r.support>>
        BY <2>1
      <3>3. CASE r.support = ""
        BY <3>1, <3>3 DEF FieldTyped, Field
      <3>4. CASE r.support # ""
        <4>0. g["support"] = <<"string", r.support>>
          BY <3>2, <3>4
        <4>1. g["support"][1] = "string" /\ g["support"][2] = r.support
          BY <4>0
        <4> QED BY <3>1, <3>4, <4>1 DEF FieldTyped, Field
      <3> QED BY <3>3, <3>4
    <2>9. FieldTyped(g, "read", "bool") /\ Field(g, "read") = r.read
      <3>1. "read" \in DOMAIN g <=> r.read # Absent
        BY <2>1
      <3>2. r.read # Absent => g["read"] = <<"bool", r.read>>
        BY <2>1
      <3> QED BY <3>1, <3>2 DEF FieldTyped, Field
    <2>10. FieldTyped(g, "write", "bytes") /\ Field(g, "write") = r.write
      <3>1. "write" \in DOMAIN g <=> r.write # Absent
        BY <2>1
      <3>2. r.write # Absent => g["write"] = <<"bytes", r.write>>
        BY <2>1
      <3> QED BY <3>1, <3>2 DEF FieldTyped, Field
    <2>5. FieldsTyped(g)
      BY <2>8, <2>9, <2>10 DEF FieldsTyped
    <2>6. /\ Field(g, "support") = IF r.support = "" THEN Absent ELSE r.support
          /\ Field(g, "read") = r.read /\ Field(g, "write") = r.write
      BY <2>8, <2>9, <2>10
    <2>7. ParseLargeBlobInput(Restored(room, value)) = LargeBlobOf(g)
      BY <1>2, <2>1, <2>5
    <2> QED BY <2>4, <2>6, <2>7 DEF LargeBlobOf
  <1>4. CASE value[1] = "object"
    <2>1. NormalizeBuiltInValue(value) = value /\ value = <<"object", value[2]>>
      BY <1>1, <1>4, NormalizePlain, ValuesAssumption DEF ValueIn
    <2>2. FieldsTyped(value[2]) /\ ParseLargeBlobInput(value) = LargeBlobOf(value[2])
      BY <1>4 DEF ParseLargeBlobInput, FieldsTyped, LargeBlobOf
    <2> QED BY <1>2, <2>1, <2>2
  <1>5. CASE value[1] \notin {"LargeBlobInput", "object"}
    BY <1>5 DEF ParseLargeBlobInput
  <1> QED BY <1>3, <1>4, <1>5

-----------------------------------------------------------------------------
(***************************************************************************)
(* What a handler sees of a stored input.                                  *)
(***************************************************************************)

Room == MaxValueDepth + 1

\* Storage does not change what the code makes of the input of an extension:
\* it comes back as it was, or nobody interprets it, or it is parsed anyway.
Faithful(id, value) ==
    \/ EncodeValue(value).ok => Restored(Room, value) = value
    \/ id \notin DOMAIN BuiltInBinding
    \/ id = "prf" /\ ParsePRFInput(value) # Invalid
    \/ id = "largeBlob" /\ ParseLargeBlobInput(value) # Invalid

\* Two values that mean the same as the input of an extension.
SameInput(id, value, other) ==
    id \in DOMAIN BuiltInBinding =>
        IF id = "prf" THEN ParsePRFInput(value) = ParsePRFInput(other)
        ELSE IF id = "largeBlob" THEN ParseLargeBlobInput(value) = ParseLargeBlobInput(other)
        ELSE value = other

LEMMA RoomInRooms == Room \in Rooms
  BY LimitsAssumption DEF Room, Rooms

LEMMA FaithfulSame ==
    ASSUME NEW id, NEW value \in Values, EncodeValue(value).ok, Faithful(id, value)
    PROVE  SameInput(id, Restored(Room, value), value)
  <1>1. Stores(Room, value)
    BY RoomInRooms DEF Stores, EncodeValue, Room
  <1>2. CASE Restored(Room, value) = value
    BY <1>2 DEF SameInput
  <1>3. CASE id \notin DOMAIN BuiltInBinding
    BY <1>3 DEF SameInput
  <1>4. CASE id = "prf" /\ ParsePRFInput(value) # Invalid
    BY <1>1, <1>4, PRFInputRestored DEF SameInput
  <1>5. CASE id = "largeBlob" /\ ParseLargeBlobInput(value) # Invalid
    BY <1>1, <1>5, LargeBlobRestored DEF SameInput
  <1> QED BY <1>2, <1>3, <1>4, <1>5 DEF Faithful

\* What was read from an envelope is faithful: it is written as it was read.
LEMMA DecodedFaithful ==
    ASSUME NEW encoded \in EncodedValues, DecodeValue(encoded).ok, NEW id
    PROVE  /\ DecodeValue(encoded).result \in Values
           /\ Faithful(id, DecodeValue(encoded).result)
  <1> DEFINE value == DecodeValue(encoded).result
  <1>1. value \in Values
    BY RoomInRooms, ClosedAssumption DEF DecodeValue, Room
  <1>2. EncodeValueAt(Room)[value].result = encoded
    BY RoomInRooms, DecodedStable DEF DecodeValue, Room
  <1>3. Restored(Room, value) = value
    BY <1>2 DEF Restored, DecodeValue, Room
  <1> QED BY <1>1, <1>3 DEF Faithful

BuiltIn == {"appid", "appidExclude", "uvm", "credProps", "largeBlob", "prf",
            "remoteClientDataJSON"}

LEMMA BuiltInDomain == DOMAIN BuiltInBinding = BuiltIn
  BY DEF BuiltInBinding, BuiltIn

\* A handler validates inputs that mean the same alike.
LEMMA SameValidated ==
    ASSUME NEW id \in DOMAIN BuiltInBinding, NEW value, NEW other, SameInput(id, value, other),
           NEW operation
    PROVE  ValidateInput(operation, id, value) = ValidateInput(operation, id, other)
  <1>1. CASE id = "prf"
    <2>1. ParsePRFInput(value) = ParsePRFInput(other)
      BY <1>1 DEF SameInput
    <2>2. ValidatePRFInput(operation, value) = ValidatePRFInput(operation, other)
      BY <2>1 DEF ValidatePRFInput
    <2> QED BY <1>1, <2>2 DEF ValidateInput
  <1>2. CASE id = "largeBlob"
    <2>1. ParseLargeBlobInput(value) = ParseLargeBlobInput(other)
      BY <1>2 DEF SameInput
    <2>2. ValidateLargeBlobInput(operation, value) = ValidateLargeBlobInput(operation, other)
      BY <2>1 DEF ValidateLargeBlobInput
    <2> QED BY <1>2, <2>2 DEF ValidateInput
  <1>3. CASE id \notin {"prf", "largeBlob"}
    BY <1>3 DEF SameInput
  <1> QED BY <1>1, <1>2, <1>3

\* And transforms them alike.
LEMMA SameTransformed ==
    ASSUME NEW id, NEW value, NEW other, SameInput(id, value, other),
           NEW operation, NEW allow
    PROVE  \/ Transform(operation, id, value, allow) = Transform(operation, id, other, allow)
           \/ /\ Transform(operation, id, value, allow) = value
              /\ Transform(operation, id, other, allow) = other
  <1>1. CASE operation = "authentication" /\ id = "prf"
    <2>1. ParsePRFInput(value) = ParsePRFInput(other)
      BY <1>1, BuiltInDomain DEF SameInput, BuiltIn
    <2>2. PRFInputWithCredentials(value, Texts(allow)) = PRFInputWithCredentials(other, Texts(allow))
      BY <2>1 DEF PRFInputWithCredentials
    <2> QED BY <1>1, <2>2 DEF Transform
  <1>2. CASE ~(operation = "authentication" /\ id = "prf")
    BY <1>2 DEF Transform
  <1> QED BY <1>1, <1>2

\* HandlerVerifies sees only what ValidateInput returns.
LEMMA SameVerified ==
    ASSUME NEW id \in DOMAIN BuiltInBinding, NEW value, NEW other, SameInput(id, value, other),
           NEW operation, NEW selected, NEW client, NEW authenticator
    PROVE  HandlerVerifies(id, [operation |-> operation, input |-> value, selected |-> selected,
                                client |-> client, authenticator |-> authenticator])
         = HandlerVerifies(id, [operation |-> operation, input |-> other, selected |-> selected,
                                client |-> client, authenticator |-> authenticator])
  <1> DEFINE r == [operation |-> operation, input |-> value, selected |-> selected,
                   client |-> client, authenticator |-> authenticator]
             s == [operation |-> operation, input |-> other, selected |-> selected,
                   client |-> client, authenticator |-> authenticator]
             i == ValidateInput(operation, id, value)
             j == ValidateInput(operation, id, other)
  <1>1. i = j
    BY SameValidated
  <1> HIDE DEF i, j
  <1>2. ValidateInput(r.operation, id, r.input) = i /\ ValidateInput(s.operation, id, s.input) = j
    BY DEF i, j
  <1>3. [r EXCEPT !.input = i] = [s EXCEPT !.input = j]
    BY <1>1
  <1> HIDE DEF r, s
  <1>4. HandlerVerifies(id, r) = HandlerVerifies(id, s)
    BY <1>1, <1>2, <1>3 DEF HandlerVerifies
  <1> QED BY <1>4 DEF r, s

-----------------------------------------------------------------------------
(***************************************************************************)
(* The results of a ceremony.                                              *)
(***************************************************************************)

\* Results that are not an error: each is what verifyExtension returned.
LEMMA ResultsParts ==
    ASSUME NEW state, NEW response, NEW results, results = Results(state, response),
           results # Invalid
    PROVE  /\ Validates(state)
           /\ state.allow # <<>> => \E i \in DOMAIN state.allow : state.allow[i] = response.selected
           /\ \A id \in DOMAIN results :
                  /\ results[id] = Verified(state, response, Client(response), id)
                  /\ Handled(state, id) => results[id] # Invalid
                  /\ ~Handled(state, id) => ~results[id].accepted
  <1> DEFINE ids == DOMAIN state.inputs \cup Outputs(response)
             verified == VerifyExtensions(state, response)
  <1>1. FinishAccepts(state, response) /\ results = verified
    BY DEF Results
  <1>2. /\ Validates(state)
        /\ state.allow # <<>> => \E i \in DOMAIN state.allow : state.allow[i] = response.selected
        /\ Failing(state, response) = {}
    BY <1>1 DEF FinishAccepts, Accepts
  <1>3. /\ DOMAIN verified = ids
        /\ \A id \in ids : verified[id] = Verified(state, response, Client(response), id)
    BY DEF VerifyExtensions
  <1>4. ASSUME NEW id \in ids, Handled(state, id) PROVE verified[id] # Invalid
    BY <1>2, <1>3, <1>4 DEF Failing
  <1>5. ASSUME NEW id, ~Handled(state, id)
        PROVE  ~Verified(state, response, Client(response), id).accepted
    <2>1. Verified(state, response, Client(response), id) =
              PreserveRaw(state, response, Client(response), id)
      BY <1>5 DEF Verified
    <2>2. PreserveRaw(state, response, Client(response), id).accepted = FALSE
      BY DEF PreserveRaw
    <2> QED BY <2>1, <2>2
  <1> HIDE DEF ids, verified
  <1> QED BY <1>1, <1>2, <1>3, <1>4, <1>5

\* Two states that differ at most in how their inputs are written.
Alike(state, other) ==
    /\ state.kind = other.kind /\ state.expires = other.expires
    /\ state.bindings = other.bindings /\ state.allow = other.allow
    /\ DOMAIN state.inputs = DOMAIN other.inputs
    /\ \A id \in DOMAIN state.inputs :
           /\ SameInput(id, state.inputs[id], other.inputs[id])
           /\ EncodeValue(state.inputs[id]).result = EncodeValue(other.inputs[id]).result
           /\ state.inputs[id] \in Values /\ Clones(state.inputs[id])
           /\ other.inputs[id] \in Values /\ Clones(other.inputs[id])

\* The inputs of such states are passed on alike.
LEMMA AlikeTransformed ==
    ASSUME NEW state, NEW other, Alike(state, other), NEW id \in DOMAIN state.inputs
    PROVE  \/ ClientInput(state, id) = ClientInput(other, id)
           \/ /\ ClientInput(state, id) = state.inputs[id]
              /\ ClientInput(other, id) = other.inputs[id]
              /\ ~InputFails(state, id) /\ ~InputFails(other, id)
  <1> DEFINE v == state.inputs[id]
             u == other.inputs[id]
             i == Transform(Operation(state.kind), id, v, state.allow)
             j == Transform(Operation(other.kind), id, u, other.allow)
  <1>1. /\ SameInput(id, v, u) /\ Clones(v) /\ Clones(u) /\ v \in Values /\ u \in Values
        /\ state.kind = other.kind /\ state.allow = other.allow /\ id \in DOMAIN other.inputs
    BY DEF Alike
  <1>2. ClientInput(state, id) = i /\ ClientInput(other, id) = j
    BY <1>1 DEF ClientInput
  <1>3. v # Invalid /\ u # Invalid
    BY <1>1, TypedInputsAssumption
  <1> HIDE DEF v, u
  <1>4. i = j \/ (i = v /\ j = u)
    BY <1>1, SameTransformed
  <1> HIDE DEF i, j
  <1> QED BY <1>1, <1>2, <1>3, <1>4 DEF InputFails, v, u

LEMMA AlikeFails ==
    ASSUME NEW state, NEW other, Alike(state, other), NEW id
    PROVE  InputFails(state, id) <=> InputFails(other, id)
  <1>1. DOMAIN state.inputs = DOMAIN other.inputs
    BY DEF Alike
  <1>2. CASE id \in DOMAIN state.inputs
    BY <1>1, <1>2, AlikeTransformed DEF InputFails
  <1>3. CASE id \notin DOMAIN state.inputs
    BY <1>1, <1>3 DEF InputFails
  <1> QED BY <1>2, <1>3

\* A handler's answers for them are the same.
LEMMA AlikeVerified ==
    ASSUME NEW state, NEW other, Alike(state, other), NEW response, NEW client,
           NEW id, Handled(state, id)
    PROVE  Verified(state, response, client, id) = Verified(other, response, client, id)
  <1> DEFINE op == Operation(state.kind)
             i == ClientInput(state, id)
             j == ClientInput(other, id)
             request(input) ==
                 [operation |-> op, input |-> input, selected |-> response.selected,
                  client |-> OutputOf(client, id),
                  authenticator |-> OutputOf(response.authenticator, id)]
  <1>1. /\ id \in DOMAIN state.inputs /\ id \in DOMAIN other.inputs /\ Handled(other, id)
        /\ id \in DOMAIN BuiltInBinding
        /\ SameInput(id, state.inputs[id], other.inputs[id]) /\ op = Operation(other.kind)
    BY RegistryAssumption DEF Alike, Handled
  <1>2. /\ Verified(state, response, client, id) =
               IF InputFails(state, id) THEN Invalid ELSE HandlerVerifies(id, request(i))
        /\ Verified(other, response, client, id) =
               IF InputFails(other, id) THEN Invalid ELSE HandlerVerifies(id, request(j))
    BY <1>1 DEF Verified
  <1>3. HandlerVerifies(id, request(state.inputs[id])) = HandlerVerifies(id, request(other.inputs[id]))
    BY <1>1, SameVerified
  <1>4. i = j \/ (i = state.inputs[id] /\ j = other.inputs[id])
    BY <1>1, AlikeTransformed
  <1>5. InputFails(state, id) <=> InputFails(other, id)
    BY AlikeFails
  <1> HIDE DEF i, j, request
  <1> QED BY <1>2, <1>3, <1>4, <1>5

\* What is kept raw is the same but for the Go type of the input.
LEMMA AlikeRaw ==
    ASSUME NEW state, NEW other, Alike(state, other), NEW response, NEW client,
           NEW id, ~Handled(state, id)
    PROVE  SameRaw(Verified(state, response, client, id), Verified(other, response, client, id))
  <1> DEFINE i == ClientInput(state, id)
             j == ClientInput(other, id)
             wanted == id \in DOMAIN state.inputs
             raw(input) ==
                 [accepted |-> FALSE,
                  output |-> [requested |-> wanted, input |-> input, client |-> OutputOf(client, id),
                              authenticator |-> OutputOf(response.authenticator, id)]]
  <1>1. DOMAIN other.inputs = DOMAIN state.inputs /\ ~Handled(other, id)
    BY DEF Alike, Handled
  <1>2. Verified(state, response, client, id) = raw(i) /\ Verified(other, response, client, id) = raw(j)
    BY <1>1 DEF Verified, PreserveRaw
  <1>3. wanted => EncodeValue(i).result = EncodeValue(j).result
    <2> SUFFICES ASSUME wanted PROVE EncodeValue(i).result = EncodeValue(j).result
      OBVIOUS
    <2>1. EncodeValue(state.inputs[id]).result = EncodeValue(other.inputs[id]).result
      BY DEF Alike
    <2>2. i = j \/ (i = state.inputs[id] /\ j = other.inputs[id])
      BY AlikeTransformed
    <2> HIDE DEF i, j
    <2> QED BY <2>1, <2>2
  <1> HIDE DEF i, j
  <1>4. \A input : /\ ~raw(input).accepted /\ (raw(input).output.requested <=> wanted)
                   /\ raw(input).output.input = input
                   /\ raw(input).output.client = OutputOf(client, id)
                   /\ raw(input).output.authenticator = OutputOf(response.authenticator, id)
    OBVIOUS
  <1> HIDE DEF raw, wanted
  <1> QED BY <1>2, <1>3, <1>4 DEF SameRaw

LEMMA AlikeResults ==
    ASSUME NEW state, NEW other, Alike(state, other), Validates(state), Validates(other),
           NEW response,
           NEW results, results = VerifyExtensions(state, response),
           NEW unstored, unstored = VerifyExtensions(other, response)
    PROVE  /\ FinishAccepts(state, response) <=> FinishAccepts(other, response)
           /\ DOMAIN results = DOMAIN unstored
           /\ \A id \in DOMAIN results :
                  IF Handled(state, id) THEN results[id] = unstored[id]
                  ELSE SameRaw(results[id], unstored[id])
  <1> DEFINE ids == DOMAIN state.inputs \cup Outputs(response)
  <1>1. DOMAIN other.inputs = DOMAIN state.inputs /\ \A id : Handled(state, id) <=> Handled(other, id)
    BY DEF Alike, Handled
  <1>2. /\ DOMAIN results = ids /\ DOMAIN unstored = ids
        /\ \A id \in ids :
               /\ results[id] = Verified(state, response, Client(response), id)
               /\ unstored[id] = Verified(other, response, Client(response), id)
    BY <1>1 DEF VerifyExtensions
  <1>3. ASSUME NEW id \in ids
        PROVE  /\ Handled(state, id) => results[id] = unstored[id]
               /\ ~Handled(state, id) => SameRaw(results[id], unstored[id])
    <2> HIDE DEF ids
    <2> QED BY <1>2, AlikeVerified, AlikeRaw
  <1>4. Failing(state, response) = Failing(other, response)
    <2>1. /\ Failing(state, response) =
                 {id \in ids : InputFails(state, id) \/ (Handled(state, id) /\ results[id] = Invalid)}
          /\ Failing(other, response) =
                 {id \in ids : InputFails(other, id) \/ (Handled(other, id) /\ unstored[id] = Invalid)}
      BY <1>1, <1>2 DEF Failing
    <2> HIDE DEF ids
    <2> QED BY <1>1, <1>3, <2>1, AlikeFails
  <1>5. Remote(state.inputs) = Remote(other.inputs)
    <2>1. CASE "remoteClientDataJSON" \notin DOMAIN state.inputs
      BY <1>1, <2>1 DEF Remote
    <2>2. CASE "remoteClientDataJSON" \in DOMAIN state.inputs
      <3>1. state.inputs["remoteClientDataJSON"] = other.inputs["remoteClientDataJSON"]
        BY <2>2, BuiltInDomain DEF Alike, SameInput, BuiltIn
      <3> QED BY <1>1, <2>2, <3>1 DEF Remote
    <2> QED BY <2>1, <2>2
  <1>6. FinishAccepts(state, response) <=> FinishAccepts(other, response)
    <2>1. \A failing : Accepts(state, response, Client(response), failing)
                          <=> Accepts(other, response, Client(response), failing)
      BY <1>1, <1>5 DEF Accepts, Alike
    <2> QED BY <1>4, <2>1 DEF FinishAccepts
  <1> HIDE DEF ids
  <1> QED BY <1>2, <1>3, <1>6

-----------------------------------------------------------------------------
(***************************************************************************)
(* States and records in envelopes.                                        *)
(***************************************************************************)

InputsTyped(inputs) ==
    /\ IsFiniteSet(DOMAIN inputs) /\ DOMAIN inputs \subseteq DOMAIN Size
    /\ \A id \in DOMAIN inputs : inputs[id] \in Values

\* Every state and record in memory.
ItemOK(it) ==
    /\ it.kind \in Kinds
    /\ it.kind \in States =>
           /\ InputsTyped(it.inputs)
           /\ it.allow = [i \in DOMAIN it.allow |-> it.allow[i]]
           /\ \A id \in DOMAIN it.inputs : Faithful(id, it.inputs[id])
    /\ it.kind = "credential-record" => it.key \in DecodableKeys \cup {Absent}

\* What the encoder of a state has checked.
LEMMA StateEncoded ==
    ASSUME NEW inputs, InputsTyped(inputs), ExtensionValuesEncode(inputs),
           NEW id \in DOMAIN inputs
    PROVE  /\ Stores(Room, inputs[id]) /\ EncodeValue(inputs[id]).ok /\ Clones(inputs[id])
           /\ Returns(Room, inputs[id])
           /\ EncodeValue(inputs[id]).nodes <= MaxValueNodes
           /\ EncodeValue(inputs[id]).bytes <= MaxValueBytes
           /\ EncodeValue(inputs[id]).nodes \in Nat /\ EncodeValue(inputs[id]).bytes \in Nat
  <1> DEFINE inner == [k \in DOMAIN inputs |-> EncodeValue(inputs[k])]
             work == ValuesWork(inner)
  <1>1. WithinBudget(work) /\ Clones(inputs[id])
    BY DEF ExtensionValuesEncode
  <1>2. \A k \in DOMAIN inputs : inner[k].nodes \in Nat /\ inner[k].bytes \in Nat
    BY RoomInRooms, EncodeTyped DEF InputsTyped, EncodeValue, Room
  <1>3. DOMAIN inner = DOMAIN inputs
    OBVIOUS
  <1>4. inner[id] = EncodeValue(inputs[id])
    OBVIOUS
  <1> HIDE DEF inner
  <1>5. /\ work.nodes \in Nat /\ work.bytes \in Nat
        /\ inner[id].nodes <= work.nodes /\ inner[id].bytes <= work.bytes
    BY <1>2, <1>3, ValuesWorkTyped DEF InputsTyped
  <1>6. work.ok = \A k \in DOMAIN inner : inner[k].ok
    BY DEF ValuesWork, Work
  <1> HIDE DEF work
  <1>7. work.ok /\ work.nodes <= MaxValueNodes /\ work.bytes <= MaxValueBytes
    BY <1>1 DEF WithinBudget
  <1>8. EncodeValue(inputs[id]).ok
    BY <1>3, <1>4, <1>6, <1>7
  <1>9. Stores(Room, inputs[id])
    BY <1>8, RoomInRooms DEF Stores, InputsTyped, EncodeValue, Room
  <1>10. Returns(Room, inputs[id])
    BY <1>9, EncodedReturns DEF Stores
  <1>11. inner[id].nodes <= MaxValueNodes /\ inner[id].bytes <= MaxValueBytes
    BY <1>2, <1>3, <1>5, <1>7, LimitsAssumption
  <1> QED BY <1>1, <1>2, <1>4, <1>8, <1>9, <1>10, <1>11

\* The decoded inputs of a state.
Loaded(inputs) == [id \in DOMAIN inputs |-> Restored(Room, inputs[id])]

\* A copy of what was restored is within the limits.
LEMMA RestoredClones ==
    ASSUME NEW inputs, InputsTyped(inputs), ExtensionValuesEncode(inputs),
           NEW id \in DOMAIN inputs
    PROVE  /\ Restored(Room, inputs[id]) \in Values
           /\ Clones(Restored(Room, inputs[id]))
  <1> DEFINE v == inputs[id]
             e == EncodeValueAt(Room)[v]
             d == DecodeValueAt(Room)[e.result]
             c == CloneValueAt(Room)[d.result]
  <1>1. /\ Returns(Room, v) /\ Stores(Room, v)
        /\ e.nodes <= MaxValueNodes /\ e.bytes <= MaxValueBytes
    BY StateEncoded DEF EncodeValue, Room
  <1>2. c.ok /\ c.nodes = e.nodes /\ c.bytes = e.bytes
    BY <1>1 DEF Returns
  <1>3. WithinBudget(c)
    <2> HIDE DEF c, e
    <2> QED BY <1>1, <1>2 DEF WithinBudget
  <1>4. Clones(Restored(Room, v))
    BY <1>3 DEF Clones, Restored, Room
  <1> QED BY <1>1, <1>4, RestoredValue

\* What was restored is written as it was before.
LEMMA WrittenAgain ==
    ASSUME NEW inputs, InputsTyped(inputs), ExtensionValuesEncode(inputs),
           NEW id \in DOMAIN inputs
    PROVE  EncodeValue(Restored(Room, inputs[id])).result = EncodeValue(inputs[id]).result
  <1> DEFINE e == EncodeValueAt(Room)[inputs[id]].result
  <1>1. e \in EncodedValues /\ DecodeValueAt(Room)[e].ok
    BY StateEncoded DEF Returns
  <1>2. EncodeValueAt(Room)[DecodeValueAt(Room)[e].result].result = e
    BY <1>1, RoomInRooms, DecodedStable
  <1> QED BY <1>2 DEF Restored, EncodeValue, Room

\* What Marshal makes of a state, Unmarshal returns as the same state with
\* restored inputs.
LEMMA StateUnmarshalled ==
    ASSUME NEW it, it.kind \in States, it.allow = [i \in DOMAIN it.allow |-> it.allow[i]],
           NEW loaded, loaded = Unmarshal(Envelope(it), it.kind)
    PROVE  /\ loaded.kind = it.kind /\ loaded.user = it.user /\ loaded.expires = it.expires
           /\ loaded.challenge = it.challenge
           /\ loaded.bindings = it.bindings /\ loaded.rest = it.rest
           /\ loaded.allow = it.allow /\ loaded.inputs = Loaded(it.inputs)
           /\ loaded = Item(StatePayload(it), it.kind)
           /\ Envelope(it).payloads[it.kind] = StatePayload(it)
  <1> DEFINE p == StatePayload(it)
  <1>1. Envelope(it).payloads[it.kind] = p
    BY DEF Envelope, Payload, States
  <1>2. loaded = StateFrom(p, it.kind)
    BY <1>1 DEF Unmarshal, Item
  <1>3. /\ p.user[2] = it.user /\ p.expires[2] = it.expires /\ p.bindings = it.bindings
        /\ p.rest = it.rest /\ p.challenge[2] = it.challenge
    BY DEF StatePayload, Text
  <1>4. p.inputs = [id \in DOMAIN it.inputs |-> EncodeValue(it.inputs[id]).result]
    BY DEF StatePayload
  <1>5. p.allow = [i \in DOMAIN it.allow |-> Text(it.allow[i])]
    BY DEF StatePayload
  <1> HIDE DEF p
  <1>6. [id \in DOMAIN p.inputs |-> DecodeValue(p.inputs[id]).result] = Loaded(it.inputs)
    BY <1>4 DEF Loaded, Restored, DecodeValue, EncodeValue, Room
  <1>7. [i \in DOMAIN p.allow |-> p.allow[i][2]] = it.allow
    <2>1. DOMAIN p.allow = DOMAIN it.allow
      BY <1>5
    <2>2. \A i \in DOMAIN it.allow : p.allow[i][2] = it.allow[i]
      BY <1>5 DEF Text
    <2> QED BY <2>1, <2>2
  <1>8. /\ loaded.kind = it.kind /\ loaded.user = p.user[2] /\ loaded.expires = p.expires[2]
        /\ loaded.challenge = p.challenge[2]
        /\ loaded.bindings = p.bindings /\ loaded.rest = p.rest
        /\ loaded.inputs = [id \in DOMAIN p.inputs |-> DecodeValue(p.inputs[id]).result]
        /\ loaded.allow = [i \in DOMAIN p.allow |-> p.allow[i][2]]
    BY <1>2 DEF StateFrom
  <1>9. loaded = Item(p, it.kind)
    BY <1>2 DEF Item
  <1> QED BY <1>1, <1>3, <1>6, <1>7, <1>8, <1>9 DEF p

LEMMA StateAlike ==
    ASSUME NEW it, ItemOK(it), it.kind \in States, ExtensionValuesEncode(it.inputs),
           NEW loaded, loaded = Unmarshal(Envelope(it), it.kind)
    PROVE  Alike(loaded, it)
  <1>1. /\ InputsTyped(it.inputs) /\ it.allow = [i \in DOMAIN it.allow |-> it.allow[i]]
        /\ \A id \in DOMAIN it.inputs : Faithful(id, it.inputs[id])
    BY DEF ItemOK
  <1>2. /\ loaded.kind = it.kind /\ loaded.expires = it.expires
        /\ loaded.bindings = it.bindings /\ loaded.allow = it.allow
        /\ loaded.inputs = Loaded(it.inputs)
    BY <1>1, StateUnmarshalled
  <1>3. /\ DOMAIN loaded.inputs = DOMAIN it.inputs
        /\ \A id \in DOMAIN it.inputs : loaded.inputs[id] = Restored(Room, it.inputs[id])
    BY <1>2 DEF Loaded
  <1>4. ASSUME NEW id \in DOMAIN it.inputs
        PROVE  /\ SameInput(id, Restored(Room, it.inputs[id]), it.inputs[id])
               /\ EncodeValue(Restored(Room, it.inputs[id])).result = EncodeValue(it.inputs[id]).result
               /\ it.inputs[id] \in Values /\ Clones(it.inputs[id])
               /\ Restored(Room, it.inputs[id]) \in Values /\ Clones(Restored(Room, it.inputs[id]))
    <2>1. it.inputs[id] \in Values
      BY <1>1 DEF InputsTyped
    <2>2. EncodeValue(it.inputs[id]).ok /\ Clones(it.inputs[id])
      BY <1>1, StateEncoded
    <2>3. SameInput(id, Restored(Room, it.inputs[id]), it.inputs[id])
      BY <1>1, <2>1, <2>2, FaithfulSame
    <2>4. EncodeValue(Restored(Room, it.inputs[id])).result = EncodeValue(it.inputs[id]).result
      BY <1>1, WrittenAgain
    <2> QED BY <1>1, <2>1, <2>2, <2>3, <2>4, RestoredClones
  <1> QED BY <1>2, <1>3, <1>4 DEF Alike

\* States that are alike are validated alike.
LEMMA AlikeValidates ==
    ASSUME NEW state, NEW other, Alike(state, other), state.kind \in States,
           state.user = other.user, state.rest = other.rest, Validates(other)
    PROVE  Validates(state)
  <1>1. /\ state.kind = other.kind /\ state.bindings = other.bindings
        /\ state.allow = other.allow /\ DOMAIN state.inputs = DOMAIN other.inputs
    BY DEF Alike
  <1>2. state.kind # "credential-record"
    BY DEF States
  <1>3. /\ state.kind = "registration-state" => state.user # Absent
        /\ state.rest.valid
        /\ BindingStateValid(DOMAIN state.inputs, state.bindings)
    BY <1>1, <1>2 DEF Validates
  <1>4. ASSUME state.kind = "authentication-state", "largeBlob" \in DOMAIN state.inputs
        PROVE  LET input == ValidateLargeBlobInput("authentication", state.inputs["largeBlob"])
               IN  /\ input # Invalid
                   /\ input[2].write # Absent => Len(state.allow) = 1
    <2>1. ParseLargeBlobInput(state.inputs["largeBlob"])
              = ParseLargeBlobInput(other.inputs["largeBlob"])
      BY <1>4, BuiltInDomain DEF Alike, SameInput, BuiltIn
    <2>2. ValidateLargeBlobInput("authentication", state.inputs["largeBlob"])
              = ValidateLargeBlobInput("authentication", other.inputs["largeBlob"])
      BY <2>1 DEF ValidateLargeBlobInput
    <2>3. LET input == ValidateLargeBlobInput("authentication", other.inputs["largeBlob"])
          IN  /\ input # Invalid
              /\ input[2].write # Absent => Len(other.allow) = 1
      BY <1>1, <1>2, <1>4 DEF Validates
    <2> QED BY <1>1, <2>2, <2>3
  <1> QED BY <1>2, <1>3, <1>4 DEF Validates

\* The decoder's limits hold for what the encoder wrote: it counts as many
\* nodes, and the base64 text it counts is part of the envelope, whose length
\* the encoder limits.
LEMMA ValuesDecode ==
    ASSUME NEW it, ItemOK(it), it.kind \in States, Marshals(it)
    PROVE  /\ ExtensionValuesDecode(StatePayload(it).inputs)
           /\ Envelope(it).size \in 1 .. MaxValueBytes
  <1> DEFINE inputs == it.inputs
             values == [id \in DOMAIN inputs |-> EncodeValue(inputs[id]).result]
             ei == [id \in DOMAIN inputs |-> EncodeValue(inputs[id])]
             di == [id \in DOMAIN inputs |-> DecodeValue(values[id])]
  <1>1. InputsTyped(inputs) /\ ExtensionValuesEncode(inputs)
    BY DEF ItemOK, Marshals
  <1>2. StatePayload(it).inputs = values
    BY DEF StatePayload
  <1>3. DOMAIN values = DOMAIN inputs /\ DOMAIN ei = DOMAIN inputs /\ DOMAIN di = DOMAIN inputs
    OBVIOUS
  <1>4. ASSUME NEW id \in DOMAIN inputs
        PROVE  /\ values[id] \in EncodedValues
               /\ di[id].ok /\ di[id].nodes = ei[id].nodes
               /\ di[id].nodes \in Nat /\ di[id].bytes \in Nat
               /\ Clones(DecodeValue(values[id]).result)
    <2>1. Returns(Room, inputs[id])
      BY <1>1, StateEncoded
    <2>2. /\ values[id] = EncodeValueAt(Room)[inputs[id]].result
          /\ di[id] = DecodeValueAt(Room)[values[id]]
          /\ ei[id] = EncodeValueAt(Room)[inputs[id]]
      BY DEF EncodeValue, DecodeValue, Room
    <2> HIDE DEF values, di, ei
    <2>3. values[id] \in EncodedValues /\ di[id].ok /\ di[id].nodes = ei[id].nodes
      BY <2>1, <2>2 DEF Returns
    <2>4. di[id].nodes \in Nat /\ di[id].bytes \in Nat
      BY <2>2, <2>3, RoomInRooms, DecodeTyped
    <2>5. DecodeValue(values[id]).result = Restored(Room, inputs[id])
      BY <2>2 DEF Restored, DecodeValue, Room
    <2>6. Clones(Restored(Room, inputs[id]))
      BY <1>1, RestoredClones
    <2> QED BY <2>3, <2>4, <2>5, <2>6
  <1>5. [id \in DOMAIN values |-> DecodeValue(values[id])] = di
    OBVIOUS
  <1>6. Envelope(it).size = Overhead + ValuesWork(di).bytes + NodeOverhead * ValuesWork(di).nodes
    <2>1. it.kind # "credential-record"
      BY DEF States
    <2>2. Payload(it).inputs = values
      BY <1>2, <2>1 DEF Payload
    <2>3. EncodedSize(it) = Overhead + ValuesWork(di).bytes + NodeOverhead * ValuesWork(di).nodes
      <3> HIDE DEF values, di
      <3> QED BY <1>5, <2>1, <2>2 DEF EncodedSize
    <2> QED BY <2>3 DEF Envelope
  <1>7. WithinBudget(ValuesWork([id \in DOMAIN inputs |-> EncodeValue(inputs[id])]))
        /\ BoundedIDs(DOMAIN inputs)
    BY <1>1 DEF ExtensionValuesEncode
  <1> HIDE DEF values, ei, di
  <1>8. ValuesWork(di).nodes = ValuesWork(ei).nodes
    BY <1>3, <1>4, ValuesWorkAlike
  <1>9. ValuesWork(di).nodes \in Nat /\ ValuesWork(di).bytes \in Nat
    BY <1>1, <1>3, <1>4, ValuesWorkTyped DEF InputsTyped
  <1>10. ValuesWork(ei).nodes <= MaxValueNodes
    BY <1>7 DEF ei, WithinBudget
  <1>11. ValuesWork(di).ok
    BY <1>3, <1>4 DEF ValuesWork, Work
  <1>12. Envelope(it).size <= MaxValueBytes
    BY DEF Marshals, EnvelopeFits
  <1>13. NodeOverhead * ValuesWork(di).nodes \in Nat
    BY <1>9, OverheadAssumption
  <1>14. Envelope(it).size \in 1 .. MaxValueBytes /\ ValuesWork(di).bytes <= MaxValueBytes
    BY <1>6, <1>9, <1>12, <1>13, OverheadAssumption, LimitsAssumption
  <1>15. WithinBudget(ValuesWork(di))
    BY <1>8, <1>10, <1>11, <1>14 DEF WithinBudget
  <1>16. \A id \in DOMAIN values : Clones(DecodeValue(values[id]).result)
    BY <1>3, <1>4
  <1>17. ExtensionValuesDecode(values)
    BY <1>3, <1>5, <1>7, <1>15, <1>16 DEF ExtensionValuesDecode
  <1> QED BY <1>2, <1>14, <1>17

\* What Marshal wrote, Unmarshal of that kind reads.
LEMMA MarshalledReads ==
    ASSUME NEW it, ItemOK(it), Marshals(it)
    PROVE  Unmarshals(Envelope(it), it.kind)
  <1> DEFINE payload == Envelope(it).payloads[it.kind]
  <1>1. /\ Envelope(it).strict /\ Envelope(it).version = EnvelopeVersion
        /\ Envelope(it).kind = it.kind /\ DOMAIN Envelope(it).payloads = {it.kind}
        /\ payload = Payload(it)
    BY DEF Envelope
  <1>2. CASE it.kind \in States
    <2> DEFINE loaded == Unmarshal(Envelope(it), it.kind)
    <2>1. it.allow = [i \in DOMAIN it.allow |-> it.allow[i]]
      BY <1>2 DEF ItemOK
    <2>2. /\ loaded.kind = it.kind /\ loaded.user = it.user /\ loaded.rest = it.rest
          /\ loaded = Item(payload, it.kind) /\ payload = StatePayload(it)
      BY <1>2, <2>1, StateUnmarshalled
    <2>3. Alike(loaded, it)
      BY <1>2, StateAlike DEF Marshals
    <2>4. Validates(loaded)
      <3> HIDE DEF loaded
      <3>1. Validates(it)
        BY DEF Marshals
      <3> QED BY <1>2, <2>2, <2>3, <3>1, AlikeValidates
    <2>5. ExtensionValuesDecode(StatePayload(it).inputs) /\ Envelope(it).size \in 1 .. MaxValueBytes
      BY <1>2, ValuesDecode
    <2>6. StateDecodes(StatePayload(it))
      <3> DEFINE p == StatePayload(it)
      <3>1. Canonical(p.challenge) /\ Canonical(p.expires) /\ Canonical(p.user)
        BY DEF StatePayload, Text, Canonical
      <3>2. \A i \in DOMAIN p.allow : Canonical(p.allow[i])
        BY DEF StatePayload, Text, Canonical
      <3> HIDE DEF p
      <3>3. ExtensionValuesDecode(p.inputs)
        BY <2>5 DEF p
      <3> QED BY <3>1, <3>2, <3>3 DEF StateDecodes, p
    <2>7. EnvelopeOpens(Envelope(it), it.kind)
      BY <1>1, <2>5 DEF EnvelopeOpens
    <2> HIDE DEF loaded, payload
    <2>8. StateDecodes(payload) /\ Validates(Item(payload, it.kind))
      BY <2>2, <2>4, <2>6
    <2> QED BY <1>2, <2>7, <2>8 DEF Unmarshals, payload
  <1>3. CASE it.kind = "credential-record"
    <2> DEFINE p == RecordPayload(it)
    <2>1. payload = p
      BY <1>1, <1>3 DEF Payload
    <2>2. it.kind \notin States
      BY <1>3 DEF States
    <2>3. it.key # Absent /\ it.rest.valid /\ it.key \in DecodableKeys
      BY <1>3 DEF Marshals, Validates, ItemOK
    <2>4. /\ Canonical(p.id) /\ Canonical(p.user) /\ Canonical(p.key)
          /\ p.key[2] = it.key /\ p.rest = it.rest
      BY DEF RecordPayload, Text, Canonical
    <2>5. Envelope(it).size \in 1 .. MaxValueBytes
      <3>1. Envelope(it).size = Overhead /\ Envelope(it).size <= MaxValueBytes
        BY <1>3 DEF Envelope, EncodedSize, Marshals, EnvelopeFits
      <3> QED BY <3>1, OverheadAssumption, LimitsAssumption
    <2> HIDE DEF p
    <2>6. RecordDecodes(p)
      BY <2>3, <2>4 DEF RecordDecodes
    <2>7. Validates(Item(p, it.kind))
      <3>1. Item(p, it.kind) = RecordFrom(p)
        BY <2>2 DEF Item
      <3>2. RecordFrom(p).kind = "credential-record" /\ RecordFrom(p).key = p.key[2]
            /\ RecordFrom(p).rest = p.rest
        BY DEF RecordFrom
      <3> QED BY <2>3, <2>4, <3>1, <3>2 DEF Validates
    <2>8. EnvelopeOpens(Envelope(it), it.kind)
      BY <1>1, <2>5 DEF EnvelopeOpens
    <2> HIDE DEF payload
    <2> QED BY <2>1, <2>2, <2>6, <2>7, <2>8 DEF Unmarshals, payload
  <1> QED BY <1>2, <1>3 DEF ItemOK, Kinds

-----------------------------------------------------------------------------
(***************************************************************************)
(* What start makes of an input.                                           *)
(***************************************************************************)

PRFReady(input) ==
    /\ input.eval # Absent => input.eval.first # Absent
    /\ input.by # Absent => \A id \in DOMAIN input.by : input.by[id].first # Absent

LEMMA PRFReadyParsed ==
    ASSUME NEW input, PRFReady(input)
    PROVE  ParsePRFInput(<<"PRFInput", input>>) = input
  <1> DEFINE value == <<"PRFInput", input>>
  <1>1. value[1] = "PRFInput" /\ value[2] = input
    OBVIOUS
  <1> HIDE DEF value
  <1>2. ParsePRFInput(value) = value[2]
    BY <1>1 DEF ParsePRFInput, PRFReady
  <1> QED BY <1>1, <1>2 DEF value

LEMMA ParsedValuesReady ==
    ASSUME NEW value \in Values, ParsePRFValues(value) # Invalid
    PROVE  ParsePRFValues(value).first # Absent
  <1>1. CASE value[1] = "PRFValues"
    BY <1>1 DEF ParsePRFValues
  <1>2. CASE value[1] = "object"
    <2> DEFINE f == value[2]
    <2>1. /\ "first" \in DOMAIN f
          /\ ParsePRFValues(value) = [first |-> Field(f, "first"), second |-> Field(f, "second")]
      BY <1>2 DEF ParsePRFValues
    <2>2. f["first"] \in Values
      BY <1>2, <2>1, ValuesAssumption DEF ValueIn, Container
    <2>3. Field(f, "first") = f["first"][2]
      BY <2>1 DEF Field
    <2>4. f["first"][2] # Absent
      BY <2>2, ValuesAssumption
    <2> HIDE DEF f
    <2> QED BY <2>1, <2>3, <2>4
  <1>3. CASE value[1] \notin {"PRFValues", "object"}
    BY <1>3 DEF ParsePRFValues
  <1> QED BY <1>1, <1>2, <1>3

\* A parsed PRF input has a first value wherever it has values.
LEMMA ParsedReady ==
    ASSUME NEW value \in Values, NEW input, input = ParsePRFInput(value), input # Invalid
    PROVE  /\ PRFReady(input)
           /\ input = [eval |-> input.eval, by |-> input.by, allow |-> input.allow]
  <1>1. CASE value[1] = "PRFInput"
    <2>1. input = value[2] /\ PRFReady(input)
      BY <1>1 DEF ParsePRFInput, PRFReady
    <2> QED BY <1>1, <2>1, TypedInputsAssumption DEF PRFInputTyped
  <1>2. CASE value[1] = "object"
    <2> DEFINE f == value[2]
               entries == Field(f, "evalByCredential")
    <2>1. ParsePRFInput(value) = PRFInputFromFields(f)
      BY <1>2 DEF ParsePRFInput
    <2>2. FieldsValid(f)
      BY <2>1, PRFFields
    <2>3. input = [eval |-> EvalOf(f), by |-> ByOf(entries),
                   allow |-> AllowOf(Field(f, "allowCredentials"))]
      BY <2>1, <2>2, PRFFields
    <2>4. \A k \in DOMAIN f : f[k] \in Values
      BY <1>2, ValuesAssumption DEF ValueIn, Container
    <2>5. EvalOf(f) # Absent => EvalOf(f).first # Absent
      <3> SUFFICES ASSUME EvalOf(f) # Absent PROVE EvalOf(f).first # Absent
        OBVIOUS
      <3>1. "eval" \in DOMAIN f /\ EvalOf(f) = ParsePRFValues(f["eval"])
        BY DEF EvalOf
      <3>2. EvalOf(f) # Invalid
        BY <2>2 DEF FieldsValid
      <3> HIDE DEF f
      <3> QED BY <2>4, <3>1, <3>2, ParsedValuesReady
    <2>6. ByOf(entries) # Absent => \A id \in DOMAIN ByOf(entries) : ByOf(entries)[id].first # Absent
      <3> SUFFICES ASSUME ByOf(entries) # Absent, NEW id \in DOMAIN ByOf(entries)
                   PROVE  ByOf(entries)[id].first # Absent
        OBVIOUS
      <3>1. entries # Absent
        BY DEF ByOf
      <3>2. id \in DOMAIN entries /\ ByOf(entries)[id] = ParsePRFValues(entries[id])
        BY <3>1 DEF ByOf
      <3>3. ParsePRFValues(entries[id]) # Invalid
        BY <2>2, <3>1, <3>2 DEF FieldsValid
      <3>4. entries[id] \in Values
        <4>1. "evalByCredential" \in DOMAIN f /\ entries = f["evalByCredential"][2]
          BY <3>1 DEF Field
        <4>2. f["evalByCredential"][1] = "object"
          BY <2>2, <4>1 DEF FieldsValid, FieldTyped
        <4> QED BY <2>4, <3>2, <4>1, <4>2, ValuesAssumption DEF ValueIn, Container
      <3> HIDE DEF entries
      <3> QED BY <3>2, <3>3, <3>4, ParsedValuesReady
    <2> HIDE DEF f, entries
    <2>7. input.eval = EvalOf(f) /\ input.by = ByOf(entries)
      BY <2>3
    <2>8. PRFReady(input)
      BY <2>5, <2>6, <2>7 DEF PRFReady
    <2>9. input = [eval |-> input.eval, by |-> input.by, allow |-> input.allow]
      BY <2>3
    <2> QED BY <2>8, <2>9
  <1>3. CASE value[1] \notin {"PRFInput", "object"}
    BY <1>3 DEF ParsePRFInput
  <1> QED BY <1>1, <1>2, <1>3

\* PRFInputWithCredentials: the input with the credentials of the ceremony.
LEMMA PRFWithCredentials ==
    ASSUME NEW value \in Values, NEW credentials, NEW input, input = ParsePRFInput(value),
           input # Invalid, NEW allow, allow = IF credentials = <<>> THEN Absent ELSE credentials,
           NEW q, q = [eval |-> input.eval, by |-> input.by, allow |-> allow]
    PROVE  /\ PRFInputWithCredentials(value, credentials) = <<"PRFInput", q>>
           /\ ParsePRFInput(<<"PRFInput", q>>) = q
  <1>1. PRFReady(input) /\ input = [eval |-> input.eval, by |-> input.by, allow |-> input.allow]
    BY ParsedReady
  <1>2. [input EXCEPT !.allow = allow] = q
    BY <1>1
  <1>3. PRFInputWithCredentials(value, credentials) = <<"PRFInput", [input EXCEPT !.allow = allow]>>
    BY DEF PRFInputWithCredentials
  <1>4. q.eval = input.eval /\ q.by = input.by
    OBVIOUS
  <1>5. PRFReady(q)
    BY <1>1, <1>4 DEF PRFReady
  <1>6. ParsePRFInput(<<"PRFInput", q>>) = q
    BY <1>5, PRFReadyParsed
  <1> QED BY <1>2, <1>3, <1>6

\* Once it has them, nothing changes.
LEMMA PRFWithSameCredentials ==
    ASSUME NEW value \in Values, NEW credentials, NEW input, input = ParsePRFInput(value),
           input # Invalid, input.allow = IF credentials = <<>> THEN Absent ELSE credentials
    PROVE  PRFInputWithCredentials(value, credentials) = <<"PRFInput", input>>
  <1>1. input = [eval |-> input.eval, by |-> input.by, allow |-> input.allow]
    BY ParsedReady
  <1>2. [input EXCEPT !.allow = input.allow] = input
    BY <1>1
  <1>3. PRFInputWithCredentials(value, credentials) =
            <<"PRFInput", [input EXCEPT !.allow = input.allow]>>
    BY DEF PRFInputWithCredentials
  <1> QED BY <1>2, <1>3

\* A validated large-blob input is parsed to what was validated.
LEMMA LargeBlobValidated ==
    ASSUME NEW value \in Values, NEW operation, NEW input, input = ParseLargeBlobInput(value),
           NEW valid, valid = ValidateLargeBlobInput(operation, value), valid # Invalid
    PROVE  ParseLargeBlobInput(valid) = input /\ valid[2].write = input.write /\ input # Invalid
  <1> DEFINE r == [input EXCEPT !.support = IF @ = Absent THEN "" ELSE @]
  <1>1. /\ input # Invalid /\ input.support \in {Absent, "required", "preferred"}
        /\ valid = <<"LargeBlobInput", r>>
    BY DEF ValidateLargeBlobInput
  <1>2. input = [support |-> input.support, read |-> input.read, write |-> input.write]
    <2>1. CASE value[1] = "LargeBlobInput"
      <3>1. value[2] = [support |-> value[2].support, read |-> value[2].read,
                        write |-> value[2].write]
        BY <2>1, TypedInputsAssumption DEF LargeBlobInputTyped
      <3>2. input = [value[2] EXCEPT !.support = IF @ = "" THEN Absent ELSE @]
        BY <2>1 DEF ParseLargeBlobInput
      <3> QED BY <3>1, <3>2
    <2>2. CASE value[1] = "object"
      <3>1. input = LargeBlobOf(value[2])
        BY <1>1, <2>2 DEF ParseLargeBlobInput, LargeBlobOf
      <3> QED BY <3>1 DEF LargeBlobOf
    <2>3. CASE value[1] \notin {"LargeBlobInput", "object"}
      BY <1>1, <2>3 DEF ParseLargeBlobInput
    <2> QED BY <2>1, <2>2, <2>3
  <1> DEFINE support == IF input.support = Absent THEN "" ELSE input.support
  <1>3. r = [input EXCEPT !.support = support]
    OBVIOUS
  <1> HIDE DEF r, support
  <1>4. r = [support |-> support, read |-> input.read, write |-> input.write]
    BY <1>2, <1>3
  <1>5. valid[1] = "LargeBlobInput" /\ valid[2] = r
    BY <1>1
  <1> DEFINE back == IF r.support = "" THEN Absent ELSE r.support
  <1>6. ParseLargeBlobInput(valid) = [r EXCEPT !.support = back]
    BY <1>5 DEF ParseLargeBlobInput
  <1>7. r.support = support
    BY <1>4
  <1>8. back = input.support
    BY <1>1, <1>7 DEF support
  <1> HIDE DEF back
  <1>9. [r EXCEPT !.support = back] =
            [support |-> back, read |-> input.read, write |-> input.write]
    BY <1>4
  <1> QED BY <1>1, <1>2, <1>4, <1>5, <1>6, <1>8, <1>9

\* A built-in input that start accepted was validated by its handler.
LEMMA StartValidates ==
    ASSUME NEW request \in Requests, StartAccepts(request), NEW id \in DOMAIN request.inputs,
           NEW value, value = Transform(request.operation, id, request.inputs[id], request.allow)
    PROVE  /\ Prepared(request, id) \in Values /\ Prepared(request, id) # Invalid
           /\ id \in DOMAIN BuiltInBinding =>
                  value # Invalid /\ Prepared(request, id) = ValidateInput(request.operation, id, value)
  <1> DEFINE inputs == PreparedInputs(request)
             accepted == [i \in DOMAIN inputs |-> inputs[i] # Invalid]
  <1>1. DOMAIN inputs = DOMAIN request.inputs /\ inputs[id] = Prepared(request, id)
    BY DEF PreparedInputs
  <1>2. PrepareAccepts(accepted, Registry, RejectUnknown) /\ inputs[id] # Invalid
    <2>1. \A i \in DOMAIN inputs : inputs[i] # Invalid
      BY DEF StartAccepts
    <2>2. PrepareAccepts(accepted, Registry, RejectUnknown)
      BY DEF StartAccepts
    <2> QED BY <1>1, <2>1, <2>2
  <1>3. Prepared(request, id) \in Values /\ Prepared(request, id) # Invalid
    BY <1>1, <1>2, RequestsAssumption
  <1>4. ASSUME id \in DOMAIN BuiltInBinding
        PROVE  value # Invalid /\ Prepared(request, id) = ValidateInput(request.operation, id, value)
    <2>1. DOMAIN accepted = DOMAIN request.inputs
      BY <1>1
    <2> HIDE DEF accepted
    <2>2. id \in DOMAIN Registry.handlers
      BY <1>2, <1>4, <2>1 DEF PrepareAccepts
    <2> QED BY <1>3, <2>2 DEF Prepared
  <1> QED BY <1>3, <1>4

LEMMA PreparedFaithful ==
    ASSUME NEW request \in Requests, StartAccepts(request), NEW id \in DOMAIN request.inputs
    PROVE  Prepared(request, id) \in Values /\ Faithful(id, Prepared(request, id))
  <1> DEFINE op == request.operation
             raw == request.inputs[id]
             value == Transform(op, id, raw, request.allow)
             prepared == Prepared(request, id)
  <1>1. prepared \in Values /\ prepared # Invalid
    BY StartValidates
  <1>2. raw \in Values
    BY RequestsAssumption
  <1>3. CASE id \notin DOMAIN BuiltInBinding
    BY <1>1, <1>3 DEF Faithful
  <1>4. CASE id \in DOMAIN BuiltInBinding
    <2>1. value # Invalid /\ prepared = ValidateInput(op, id, value)
      BY <1>4, StartValidates
    <2>2. CASE id = "prf"
      <3>1. prepared = ValidatePRFInput(op, value)
        BY <2>1, <2>2 DEF ValidateInput
      <3>2. ParsePRFInput(value) # Invalid /\ prepared = <<"PRFInput", ParsePRFInput(value)>>
        <4> HIDE DEF value, prepared
        <4> QED BY <1>1, <3>1 DEF ValidatePRFInput
      <3>3. ParsePRFInput(prepared) = ParsePRFInput(value)
        <4>1. CASE op = "authentication"
          <5>1. value = PRFInputWithCredentials(raw, Texts(request.allow))
            BY <2>2, <4>1 DEF Transform
          <5>2. ParsePRFInput(raw) # Invalid
            BY <2>1, <5>1 DEF PRFInputWithCredentials
          <5> DEFINE allow == IF Texts(request.allow) = <<>> THEN Absent ELSE Texts(request.allow)
                     q == [eval |-> ParsePRFInput(raw).eval, by |-> ParsePRFInput(raw).by,
                           allow |-> allow]
          <5>3. value = <<"PRFInput", q>> /\ ParsePRFInput(<<"PRFInput", q>>) = q
            BY <1>2, <5>1, <5>2, PRFWithCredentials
          <5> HIDE DEF value, q
          <5> QED BY <3>2, <5>3
        <4>2. CASE op # "authentication"
          <5>1. value = raw
            BY <4>2 DEF Transform
          <5> HIDE DEF value
          <5>2. PRFReady(ParsePRFInput(value))
            BY <1>2, <3>2, <5>1, ParsedReady
          <5> QED BY <3>2, <5>2, PRFReadyParsed
        <4> QED BY <4>1, <4>2
      <3> QED BY <1>1, <2>2, <3>2, <3>3 DEF Faithful
    <2>3. CASE id = "largeBlob"
      <3>1. value = raw
        BY <2>3 DEF Transform
      <3>2. prepared = ValidateLargeBlobInput(op, raw)
        BY <2>1, <2>3, <3>1 DEF ValidateInput
      <3>3. ParseLargeBlobInput(prepared) # Invalid
        <4> HIDE DEF prepared, raw, op
        <4> QED BY <1>1, <1>2, <3>2, LargeBlobValidated
      <3> QED BY <1>1, <2>3, <3>3 DEF Faithful
    <2>4. CASE id \notin {"prf", "largeBlob"}
      <3> HIDE DEF op, value, prepared
      <3>1. prepared[1] \in {"string", "bool"}
        <4>1. id \in {"appid", "appidExclude", "uvm", "credProps", "remoteClientDataJSON"}
          BY <1>4, <2>4, BuiltInDomain DEF BuiltIn
        <4>2. CASE id = "appid"
          BY <1>1, <2>1, <4>2 DEF ValidateInput, ValidateAppID, IsString
        <4>3. CASE id = "appidExclude"
          BY <1>1, <2>1, <4>3 DEF ValidateInput, ValidateAppIDExclude, IsString
        <4>4. CASE id = "uvm"
          <5>1. prepared = ValidateUVM(op, value)
            BY <2>1, <4>4 DEF ValidateInput
          <5>2. prepared = True
            BY <1>1, <5>1 DEF ValidateUVM
          <5> QED BY <5>2 DEF True
        <4>5. CASE id = "credProps"
          <5>1. prepared = ValidateCredProps(op, value)
            BY <2>1, <4>5 DEF ValidateInput
          <5>2. prepared = True
            BY <1>1, <5>1 DEF ValidateCredProps
          <5> QED BY <5>2 DEF True
        <4>6. CASE id = "remoteClientDataJSON"
          <5>1. prepared = ValidateRemoteClientData(op, value)
            BY <2>1, <4>6 DEF ValidateInput
          <5>2. prepared = value /\ IsString(value)
            BY <1>1, <5>1 DEF ValidateRemoteClientData
          <5> QED BY <5>2 DEF IsString
        <4> QED BY <4>1, <4>2, <4>3, <4>4, <4>5, <4>6
      <3>2. EncodeValue(prepared).ok => Restored(Room, prepared) = prepared
        <4>1. EncodeValue(prepared).ok => Stores(Room, prepared)
          BY <1>1, RoomInRooms DEF Stores, EncodeValue, Room
        <4> QED BY <3>1, <4>1, PlainRestored
      <3> QED BY <1>1, <3>2 DEF Faithful, prepared
    <2> QED BY <2>2, <2>3, <2>4
  <1> QED BY <1>3, <1>4

-----------------------------------------------------------------------------
(***************************************************************************)
(* The inductive invariant.                                                *)
(***************************************************************************)

\* The state in memory belongs to the request behind it: its inputs mean what
\* start made of the caller's.
AskedOK(it, request) ==
    request # Absent =>
        /\ request \in Requests /\ StartAccepts(request)
        /\ it.kind = Kind(request.operation) /\ it.allow = request.allow
        /\ DOMAIN it.inputs = DOMAIN request.inputs
        /\ \A id \in DOMAIN it.inputs : SameInput(id, it.inputs[id], Prepared(request, id))

\* An envelope this process wrote, and the state or record it wrote.
Written(envelope, written) ==
    /\ envelope = Envelope(written.item)
    /\ ItemOK(written.item) /\ Marshals(written.item)
    /\ AskedOK(written.item, written.request)

ItemInv == item # Absent => ItemOK(item) /\ AskedOK(item, asked)

StoreInv ==
    /\ saved # Absent => Written(store, saved)
    /\ store # Absent => store \in Foreign \/ Written(store, saved)
    /\ ~loadFailed

OutcomeInv ==
    outcome # Absent =>
        \E it : /\ outcome.results = Results(it, outcome.response)
                /\ ItemOK(it) /\ it.kind \in States
                /\ AskedOK(it, outcome.request)

StoredInv == ItemInv /\ StoreInv /\ OutcomeInv

-----------------------------------------------------------------------------

\* The payloads of an envelope whose values are values of the instance.
PayloadsOK(envelope) ==
    \A kind \in DOMAIN envelope.payloads \cap States :
        LET inputs == envelope.payloads[kind].inputs IN
        /\ IsFiniteSet(DOMAIN inputs) /\ DOMAIN inputs \subseteq DOMAIN Size
        /\ \A id \in DOMAIN inputs : inputs[id] \in EncodedValues

LEMMA WrittenPayloads ==
    ASSUME NEW it, ItemOK(it), Marshals(it)
    PROVE  PayloadsOK(Envelope(it))
  <1> SUFFICES ASSUME NEW kind \in DOMAIN Envelope(it).payloads \cap States, NEW inputs,
                      inputs = Envelope(it).payloads[kind].inputs
               PROVE  /\ IsFiniteSet(DOMAIN inputs) /\ DOMAIN inputs \subseteq DOMAIN Size
                      /\ \A id \in DOMAIN inputs : inputs[id] \in EncodedValues
    BY DEF PayloadsOK
  <1>1. kind = it.kind /\ it.kind \in States /\ Envelope(it).payloads[kind] = Payload(it)
    BY DEF Envelope
  <1>2. Payload(it) = StatePayload(it)
    BY <1>1 DEF Payload, States
  <1>3. inputs = [id \in DOMAIN it.inputs |-> EncodeValue(it.inputs[id]).result]
    BY <1>1, <1>2 DEF StatePayload
  <1>4. InputsTyped(it.inputs) /\ ExtensionValuesEncode(it.inputs)
    BY <1>1 DEF ItemOK, Marshals
  <1>5. ASSUME NEW id \in DOMAIN it.inputs PROVE EncodeValue(it.inputs[id]).result \in EncodedValues
    <2>1. Returns(Room, it.inputs[id])
      BY <1>4, StateEncoded
    <2> QED BY <2>1 DEF Returns, EncodeValue, Room
  <1> QED BY <1>3, <1>4, <1>5 DEF InputsTyped

\* Whatever Unmarshal accepts is a state or record as those in memory are.
LEMMA UnmarshalledOK ==
    ASSUME NEW envelope, PayloadsOK(envelope), NEW kind \in Kinds, Unmarshals(envelope, kind)
    PROVE  ItemOK(Unmarshal(envelope, kind))
  <1> DEFINE p == envelope.payloads[kind]
             it == Unmarshal(envelope, kind)
  <1>1. kind \in DOMAIN envelope.payloads
    BY DEF Unmarshals, EnvelopeOpens
  <1>2. CASE kind \in States
    <2> DEFINE e == p.inputs
    <2>1. it = StateFrom(p, kind) /\ StateDecodes(p)
      BY <1>2 DEF Unmarshal, Item, Unmarshals
    <2>2. /\ IsFiniteSet(DOMAIN e) /\ DOMAIN e \subseteq DOMAIN Size
          /\ \A id \in DOMAIN e : e[id] \in EncodedValues
      BY <1>1, <1>2 DEF PayloadsOK
    <2>3. \A id \in DOMAIN e : DecodeValue(e[id]).ok
      <3> DEFINE inner == [id \in DOMAIN e |-> DecodeValue(e[id])]
      <3>1. WithinBudget(ValuesWork(inner))
        BY <2>1 DEF StateDecodes, ExtensionValuesDecode
      <3>2. DOMAIN inner = DOMAIN e /\ \A id \in DOMAIN e : inner[id] = DecodeValue(e[id])
        OBVIOUS
      <3> HIDE DEF inner, e
      <3>3. ValuesWork(inner).ok = \A id \in DOMAIN inner : inner[id].ok
        BY DEF ValuesWork, Work
      <3> QED BY <3>1, <3>2, <3>3 DEF WithinBudget
    <2> HIDE DEF it, p
    <2>4. /\ it.kind = kind /\ it.inputs = [id \in DOMAIN e |-> DecodeValue(e[id]).result]
          /\ it.allow = [i \in DOMAIN p.allow |-> p.allow[i][2]]
      BY <2>1 DEF StateFrom
    <2> HIDE DEF e
    <2>5. ASSUME NEW id \in DOMAIN e
          PROVE  it.inputs[id] \in Values /\ Faithful(id, it.inputs[id])
      BY <2>2, <2>3, <2>4, DecodedFaithful
    <2>6. DOMAIN it.inputs = DOMAIN e
      BY <2>4
    <2>7. it.allow = [i \in DOMAIN it.allow |-> it.allow[i]]
      BY <2>4
    <2>8. it.kind # "credential-record"
      BY <1>2, <2>4 DEF States
    <2>9. InputsTyped(it.inputs)
      BY <2>2, <2>5, <2>6 DEF InputsTyped
    <2>10. ItemOK(it)
      BY <2>4, <2>5, <2>6, <2>7, <2>8, <2>9 DEF ItemOK
    <2> QED BY <2>10 DEF it
  <1>3. CASE kind \notin States
    <2>1. it = RecordFrom(p) /\ RecordDecodes(p)
      BY <1>3 DEF Unmarshal, Item, Unmarshals
    <2> HIDE DEF it, p
    <2>2. it.kind = "credential-record" /\ it.key = p.key[2] /\ p.key[2] \in DecodableKeys
      BY <2>1 DEF RecordFrom, RecordDecodes
    <2>3. ItemOK(it)
      BY <2>2 DEF ItemOK, Kinds, States
    <2> QED BY <2>3 DEF it
  <1> QED BY <1>2, <1>3

\* What the decoder of a state's values accepted, its encoder accepts, and writes
\* as it was.
LEMMA ValuesEncode ==
    ASSUME NEW values, IsFiniteSet(DOMAIN values), DOMAIN values \subseteq DOMAIN Size,
           \A id \in DOMAIN values : values[id] \in EncodedValues,
           ExtensionValuesDecode(values),
           NEW inputs, inputs = [id \in DOMAIN values |-> DecodeValue(values[id]).result]
    PROVE  /\ ExtensionValuesEncode(inputs)
           /\ \A id \in DOMAIN values : EncodeValue(inputs[id]).result = values[id]
  <1> DEFINE di == [id \in DOMAIN values |-> DecodeValue(values[id])]
             ei == [id \in DOMAIN values |-> EncodeValue(inputs[id])]
  <1>1. /\ BoundedIDs(DOMAIN values) /\ WithinBudget(ValuesWork(di))
        /\ \A id \in DOMAIN values : Clones(DecodeValue(values[id]).result)
    BY DEF ExtensionValuesDecode
  <1>2. /\ DOMAIN di = DOMAIN values /\ DOMAIN ei = DOMAIN values /\ DOMAIN inputs = DOMAIN values
        /\ \A id \in DOMAIN values :
               /\ di[id] = DecodeValueAt(Room)[values[id]]
               /\ ei[id] = EncodeValueAt(Room)[inputs[id]]
               /\ inputs[id] = di[id].result
               /\ di[id] = DecodeValue(values[id]) /\ ei[id] = EncodeValue(inputs[id])
    BY DEF DecodeValue, EncodeValue, Room
  <1>3. [id \in DOMAIN inputs |-> EncodeValue(inputs[id])] = ei
    BY <1>2
  <1> HIDE DEF di, ei
  <1>4. ValuesWork(di).ok = \A id \in DOMAIN di : di[id].ok
    BY DEF ValuesWork, Work
  <1>5. \A id \in DOMAIN values : di[id].ok
    BY <1>1, <1>2, <1>4 DEF WithinBudget
  <1>6. ASSUME NEW id \in DOMAIN values
        PROVE  /\ ei[id].result = values[id] /\ ei[id].ok /\ ei[id].nodes = di[id].nodes
               /\ ei[id].bytes \in Nat /\ di[id].bytes \in Nat /\ ei[id].bytes <= di[id].bytes
    <2>1. inputs[id] \in Values
      BY <1>2, <1>5, RoomInRooms, ClosedAssumption
    <2>2. ei[id].result = values[id] /\ ei[id].ok /\ ei[id].bytes <= di[id].bytes
      BY <1>2, <1>5, RoomInRooms, DecodedStable
    <2>3. Returns(Room, inputs[id])
      BY <1>2, <2>1, <2>2, RoomInRooms, EncodedReturns
    <2>4. ei[id].nodes = di[id].nodes
      <3>1. DecodeValueAt(Room)[EncodeValueAt(Room)[inputs[id]].result].nodes =
                EncodeValueAt(Room)[inputs[id]].nodes
        BY <2>3 DEF Returns
      <3>2. EncodeValueAt(Room)[inputs[id]] = ei[id] /\ DecodeValueAt(Room)[values[id]] = di[id]
        BY <1>2
      <3> QED BY <2>2, <3>1, <3>2
    <2>5. ei[id].bytes \in Nat /\ di[id].bytes \in Nat
      BY <1>2, <2>1, RoomInRooms, EncodeTyped, DecodeTyped
    <2> QED BY <2>2, <2>4, <2>5
  <1>7. ValuesWork(ei).nodes = ValuesWork(di).nodes
    BY <1>2, <1>6, ValuesWorkAlike
  <1>8. ValuesWork(ei).bytes <= ValuesWork(di).bytes
    BY <1>2, <1>6, ValuesWorkGrows
  <1>9. ValuesWork(ei).ok
    BY <1>2, <1>6 DEF ValuesWork, Work
  <1>10. ValuesWork(ei).bytes \in Nat /\ ValuesWork(di).bytes \in Nat
    <2>1. \A id \in DOMAIN values :
              /\ ei[id].nodes \in Nat /\ ei[id].bytes \in Nat
              /\ di[id].nodes \in Nat /\ di[id].bytes \in Nat
      BY <1>2, <1>6, RoomInRooms, DecodeTyped
    <2> QED BY <1>2, <2>1, ValuesWorkTyped
  <1>11. WithinBudget(ValuesWork(ei))
    BY <1>1, <1>7, <1>8, <1>9, <1>10, LimitsAssumption DEF WithinBudget
  <1>12. \A id \in DOMAIN inputs : Clones(inputs[id])
    BY <1>1, <1>2
  <1>13. ExtensionValuesEncode(inputs)
    BY <1>1, <1>2, <1>3, <1>11, <1>12 DEF ExtensionValuesEncode
  <1> QED BY <1>2, <1>6, <1>13

\* Two payloads that decode to the same state.
LEMMA SameState ==
    ASSUME NEW p, NEW q, NEW kind, NEW state, state = StateFrom(p, kind),
           NEW other, other = StateFrom(q, kind),
           state.challenge = other.challenge, state.user = other.user,
           state.expires = other.expires, state.inputs = other.inputs,
           state.bindings = other.bindings, state.allow = other.allow, state.rest = other.rest
    PROVE  state = other
  BY DEF StateFrom

\* Whatever Unmarshal accepts can be written back, and reads the same again.
LEMMA WrittenBack ==
    ASSUME NEW envelope, PayloadsOK(envelope), NEW kind \in Kinds, Unmarshals(envelope, kind),
           NEW loaded, loaded = Unmarshal(envelope, kind), EnvelopeFits(Envelope(loaded))
    PROVE  /\ Marshals(loaded)
           /\ Unmarshals(Envelope(loaded), kind)
           /\ Unmarshal(Envelope(loaded), kind) = loaded
  <1> DEFINE p == envelope.payloads[kind]
             again == Unmarshal(Envelope(loaded), kind)
  <1>1. ItemOK(loaded)
    BY UnmarshalledOK
  <1>2. loaded = Item(p, kind) /\ Validates(loaded) /\ kind \in DOMAIN envelope.payloads
    BY DEF Unmarshal, Unmarshals, EnvelopeOpens
  <1>3. loaded.kind = kind
    <2>1. CASE kind \in States
      <3>1. loaded = StateFrom(p, kind)
        BY <1>2, <2>1 DEF Item
      <3> HIDE DEF p
      <3> QED BY <3>1 DEF StateFrom
    <2>2. CASE kind \notin States
      <3>1. loaded = RecordFrom(p) /\ kind = "credential-record"
        BY <1>2, <2>2 DEF Item, Kinds
      <3> HIDE DEF p
      <3> QED BY <3>1 DEF RecordFrom
    <2> QED BY <2>1, <2>2
  <1>4. CASE kind \in States
    <2>1. loaded = StateFrom(p, kind) /\ StateDecodes(p)
      BY <1>2, <1>4 DEF Item, Unmarshals
    <2>2. /\ IsFiniteSet(DOMAIN p.inputs) /\ DOMAIN p.inputs \subseteq DOMAIN Size
          /\ \A id \in DOMAIN p.inputs : p.inputs[id] \in EncodedValues
      BY <1>2, <1>4 DEF PayloadsOK
    <2> HIDE DEF p
    <2>3. loaded.inputs = [id \in DOMAIN p.inputs |-> DecodeValue(p.inputs[id]).result]
      BY <2>1 DEF StateFrom
    <2>4. /\ ExtensionValuesEncode(loaded.inputs)
          /\ \A id \in DOMAIN p.inputs : EncodeValue(loaded.inputs[id]).result = p.inputs[id]
      <3>1. ExtensionValuesDecode(p.inputs)
        BY <2>1 DEF StateDecodes
      <3> QED BY <2>2, <2>3, <3>1, ValuesEncode
    <2>5. Marshals(loaded)
      BY <1>2, <2>4 DEF Marshals
    <2>6. Unmarshals(Envelope(loaded), kind)
      BY <1>1, <1>3, <2>5, MarshalledReads
    <2>7. Loaded(loaded.inputs) = loaded.inputs
      <3>1. ASSUME NEW id \in DOMAIN p.inputs
            PROVE  Restored(Room, loaded.inputs[id]) = loaded.inputs[id]
        <4>1. Restored(Room, loaded.inputs[id]) =
                  DecodeValue(EncodeValue(loaded.inputs[id]).result).result
          BY DEF Restored, EncodeValue, DecodeValue, Room
        <4>2. EncodeValue(loaded.inputs[id]).result = p.inputs[id]
          BY <2>4
        <4>3. loaded.inputs[id] = DecodeValue(p.inputs[id]).result
          BY <2>3
        <4> QED BY <4>1, <4>2, <4>3
      <3>2. DOMAIN loaded.inputs = DOMAIN p.inputs
        BY <2>3
      <3> QED BY <2>3, <3>1, <3>2 DEF Loaded
    <2>8. loaded.allow = [i \in DOMAIN loaded.allow |-> loaded.allow[i]]
      BY <1>1, <1>3, <1>4 DEF ItemOK
    <2>9. /\ again.challenge = loaded.challenge /\ again.user = loaded.user
          /\ again.expires = loaded.expires /\ again.bindings = loaded.bindings
          /\ again.rest = loaded.rest /\ again.allow = loaded.allow
          /\ again.inputs = loaded.inputs /\ again = Item(StatePayload(loaded), kind)
      BY <1>3, <1>4, <2>7, <2>8, StateUnmarshalled
    <2>10. again = StateFrom(StatePayload(loaded), kind)
      BY <1>4, <2>9 DEF Item
    <2> HIDE DEF again
    <2>11. again = loaded
      BY <2>1, <2>9, <2>10, SameState
    <2> QED BY <2>5, <2>6, <2>11 DEF again
  <1>5. CASE kind \notin States
    <2>1. kind = "credential-record" /\ loaded = RecordFrom(p)
      BY <1>2, <1>5 DEF Kinds, Item
    <2>2. Marshals(loaded)
      BY <1>2, <1>3, <1>5 DEF Marshals
    <2>3. Unmarshals(Envelope(loaded), kind)
      BY <1>1, <1>3, <2>2, MarshalledReads
    <2>4. again = RecordFrom(RecordPayload(loaded))
      BY <1>3, <1>5, <2>1 DEF Unmarshal, Envelope, Payload, Item
    <2>5. RecordFrom(RecordPayload(loaded)) = loaded
      BY <2>1 DEF RecordFrom, RecordPayload, Text
    <2> QED BY <2>2, <2>3, <2>4, <2>5
  <1> QED BY <1>4, <1>5

\* What Marshal wrote is written back as it was.
LEMMA WrittenAsItWas ==
    ASSUME NEW it, ItemOK(it), Marshals(it), NEW loaded, loaded = Unmarshal(Envelope(it), it.kind)
    PROVE  Envelope(loaded) = Envelope(it)
  <1>1. SUFFICES loaded.kind = it.kind /\ Payload(loaded) = Payload(it)
    BY DEF Envelope, EncodedSize
  <1>2. CASE it.kind \in States
    <2>1. InputsTyped(it.inputs) /\ ExtensionValuesEncode(it.inputs)
          /\ it.allow = [i \in DOMAIN it.allow |-> it.allow[i]]
      BY <1>2 DEF ItemOK, Marshals
    <2>2. /\ loaded.kind = it.kind /\ loaded.challenge = it.challenge /\ loaded.user = it.user
          /\ loaded.expires = it.expires /\ loaded.bindings = it.bindings
          /\ loaded.rest = it.rest /\ loaded.allow = it.allow /\ loaded.inputs = Loaded(it.inputs)
      BY <1>2, <2>1, StateUnmarshalled
    <2>3. DOMAIN loaded.inputs = DOMAIN it.inputs
      BY <2>2 DEF Loaded
    <2>4. ASSUME NEW id \in DOMAIN it.inputs
          PROVE  EncodeValue(loaded.inputs[id]).result = EncodeValue(it.inputs[id]).result
      <3>1. loaded.inputs[id] = Restored(Room, it.inputs[id])
        BY <2>2 DEF Loaded
      <3> QED BY <2>1, <3>1, WrittenAgain
    <2>5. [id \in DOMAIN loaded.inputs |-> EncodeValue(loaded.inputs[id]).result]
              = [id \in DOMAIN it.inputs |-> EncodeValue(it.inputs[id]).result]
      BY <2>3, <2>4
    <2>6. StatePayload(loaded) = StatePayload(it)
      BY <2>2, <2>5 DEF StatePayload
    <2> QED BY <1>2, <2>2, <2>6 DEF Payload, States
  <1>3. CASE it.kind = "credential-record"
    <2>1. loaded = RecordFrom(RecordPayload(it))
      BY <1>3 DEF Unmarshal, Envelope, Payload, Item, States
    <2>2. /\ loaded.kind = it.kind /\ loaded.id = it.id /\ loaded.user = it.user
          /\ loaded.key = it.key /\ loaded.rest = it.rest
      BY <1>3, <2>1 DEF RecordFrom, RecordPayload, Text
    <2>3. RecordPayload(loaded) = RecordPayload(it)
      BY <2>2 DEF RecordPayload
    <2> QED BY <1>3, <2>2, <2>3 DEF Payload
  <1> QED BY <1>2, <1>3 DEF ItemOK, Kinds

\* A state that start made is as those in memory are.
LEMMA StartedOK ==
    ASSUME NEW request \in Requests, StartAccepts(request)
    PROVE  ItemOK(Started(request)) /\ AskedOK(Started(request), request)
  <1> DEFINE it == Started(request)
  <1>1. /\ it.kind = Kind(request.operation) /\ it.inputs = PreparedInputs(request)
        /\ it.allow = request.allow
    BY DEF Started
  <1> HIDE DEF it
  <1>2. it.kind \in States /\ it.kind # "credential-record"
    BY <1>1 DEF Kind, States
  <1>3. /\ DOMAIN it.inputs = DOMAIN request.inputs
        /\ \A id \in DOMAIN it.inputs : it.inputs[id] = Prepared(request, id)
    BY <1>1 DEF PreparedInputs
  <1>4. \A id \in DOMAIN it.inputs : it.inputs[id] \in Values /\ Faithful(id, it.inputs[id])
    BY <1>3, PreparedFaithful
  <1>5. InputsTyped(it.inputs)
    BY <1>3, <1>4, RequestsAssumption DEF InputsTyped
  <1>6. it.allow = [i \in DOMAIN it.allow |-> it.allow[i]]
    BY <1>1, RequestsAssumption
  <1>7. ItemOK(it)
    BY <1>2, <1>4, <1>5, <1>6 DEF ItemOK, Kinds
  <1>8. \A id \in DOMAIN it.inputs : SameInput(id, it.inputs[id], Prepared(request, id))
    BY <1>3 DEF SameInput
  <1>9. AskedOK(it, request)
    BY <1>1, <1>3, <1>8 DEF AskedOK
  <1> QED BY <1>7, <1>9 DEF it

\* A state loaded from its envelope belongs to the same request.
LEMMA LoadedAsked ==
    ASSUME NEW it, NEW request, ItemOK(it), Marshals(it), AskedOK(it, request), NEW kind,
           Unmarshals(Envelope(it), kind)
    PROVE  AskedOK(Unmarshal(Envelope(it), kind), request)
  <1> SUFFICES ASSUME request # Absent PROVE AskedOK(Unmarshal(Envelope(it), kind), request)
    BY DEF AskedOK
  <1> DEFINE loaded == Unmarshal(Envelope(it), kind)
  <1>1. kind = it.kind
    BY DEF Unmarshals, EnvelopeOpens, Envelope
  <1>2. /\ request \in Requests /\ StartAccepts(request)
        /\ it.kind = Kind(request.operation) /\ it.allow = request.allow
        /\ DOMAIN it.inputs = DOMAIN request.inputs
        /\ \A id \in DOMAIN it.inputs : SameInput(id, it.inputs[id], Prepared(request, id))
    BY DEF AskedOK
  <1>3. it.kind \in States
    BY <1>2 DEF Kind, States
  <1>4. Alike(loaded, it)
    BY <1>1, <1>3, StateAlike DEF Marshals
  <1> HIDE DEF loaded
  <1>5. ASSUME NEW id \in DOMAIN loaded.inputs
        PROVE  SameInput(id, loaded.inputs[id], Prepared(request, id))
    <2>1. SameInput(id, loaded.inputs[id], it.inputs[id]) /\ id \in DOMAIN it.inputs
      BY <1>4 DEF Alike
    <2>2. SameInput(id, it.inputs[id], Prepared(request, id))
      BY <1>2, <2>1
    <2> QED BY <2>1, <2>2 DEF SameInput
  <1>6. AskedOK(loaded, request)
    BY <1>2, <1>4, <1>5 DEF AskedOK, Alike
  <1> QED BY <1>6 DEF loaded

LEMMA InitStored == Init => StoredInv
  BY DEF Init, StoredInv, ItemInv, StoreInv, OutcomeInv

LEMMA StartStored ==
    ASSUME StoredInv, NEW request \in Requests, Start(request)
    PROVE  StoredInv'
  <1>1. ItemInv'
    <2>1. item' = Started(request) /\ asked' = request /\ StartAccepts(request)
      BY DEF Start
    <2> QED BY <2>1, StartedOK DEF ItemInv
  <1> QED BY <1>1 DEF StoredInv, StoreInv, OutcomeInv, Start

LEMMA RegisterStored ==
    ASSUME StoredInv, NEW record \in Records, Register(record)
    PROVE  StoredInv'
  <1>1. ItemOK(record)
    BY RecordsAssumption DEF ItemOK, Kinds, States
  <1>2. ItemInv'
    BY <1>1 DEF ItemInv, AskedOK, Register
  <1> QED BY <1>2 DEF StoredInv, StoreInv, OutcomeInv, Register

LEMMA SaveStored ==
    ASSUME StoredInv, Save
    PROVE  StoredInv'
  <1>1. ItemOK(item) /\ AskedOK(item, asked) /\ Marshals(item)
    BY DEF StoredInv, ItemInv, Save
  <1>2. store' = Envelope(item) /\ saved' = [item |-> item, request |-> asked]
    BY DEF Save
  <1>3. saved'.item = item /\ saved'.request = asked
    BY <1>2
  <1>4. Written(store', saved')
    BY <1>1, <1>2, <1>3 DEF Written
  <1>5. StoreInv'
    BY <1>4 DEF StoreInv, StoredInv, Save
  <1> QED BY <1>5 DEF StoredInv, ItemInv, OutcomeInv, Save

LEMMA ArriveStored ==
    ASSUME StoredInv, NEW envelope \in Foreign, Arrive(envelope)
    PROVE  StoredInv'
  BY DEF StoredInv, ItemInv, StoreInv, OutcomeInv, Arrive

\* The payloads in the store, written by this process or not.
LEMMA StoredPayloads ==
    ASSUME StoredInv, store # Absent
    PROVE  PayloadsOK(store)
  <1>1. CASE store \in Foreign
    BY <1>1, ForeignAssumption DEF PayloadsOK
  <1>2. CASE Written(store, saved)
    BY <1>2, WrittenPayloads DEF Written
  <1> QED BY <1>1, <1>2 DEF StoredInv, StoreInv

LEMMA LoadStored ==
    ASSUME StoredInv, NEW kind \in Kinds, Load(kind)
    PROVE  StoredInv'
  <1>2. PayloadsOK(store)
    BY StoredPayloads DEF Load
  <1>3. ItemInv'
    <2> SUFFICES ASSUME item' # Absent PROVE ItemOK(item') /\ AskedOK(item', asked')
      BY DEF ItemInv
    <2>1. Unmarshals(store, kind) /\ item' = Unmarshal(store, kind)
      BY DEF Load
    <2>2. ItemOK(item')
      BY <1>2, <2>1, UnmarshalledOK
    <2>3. CASE saved = Absent
      <3>1. asked' = Absent
        BY <2>3 DEF Load
      <3> QED BY <2>2, <3>1 DEF AskedOK
    <2>4. CASE saved # Absent
      <3>1. Written(store, saved) /\ asked' = saved.request
        BY <2>4 DEF Load, StoredInv, StoreInv
      <3>2. AskedOK(Unmarshal(Envelope(saved.item), kind), saved.request)
        BY <2>1, <3>1, LoadedAsked DEF Written
      <3> QED BY <2>1, <2>2, <3>1, <3>2 DEF Written
    <2> QED BY <2>3, <2>4
  <1>4. StoreInv'
    <2>1. ~(saved # Absent /\ saved.item.kind = kind /\ ~Unmarshals(store, kind))
      <3> SUFFICES ASSUME saved # Absent, saved.item.kind = kind PROVE Unmarshals(store, kind)
        OBVIOUS
      <3>1. Written(store, saved)
        BY DEF StoredInv, StoreInv
      <3> QED BY <3>1, MarshalledReads DEF Written
    <2> QED BY <2>1 DEF StoreInv, Load
  <1> QED BY <1>3, <1>4 DEF StoredInv, OutcomeInv, Load

LEMMA CrashStored ==
    ASSUME StoredInv, Crash
    PROVE  StoredInv'
  BY DEF StoredInv, ItemInv, StoreInv, OutcomeInv, Crash

LEMMA FinishStored ==
    ASSUME StoredInv, NEW response \in Responses, Finish(response)
    PROVE  StoredInv'
  <1> DEFINE o == [request |-> asked, response |-> response, results |-> Results(item, response)]
  <1>1. ItemOK(item) /\ AskedOK(item, asked) /\ item.kind \in States
    BY DEF StoredInv, ItemInv, Finish
  <1>2. outcome' = o
    BY DEF Finish
  <1>3. o.request = asked /\ o.response = response /\ o.results = Results(item, response)
    OBVIOUS
  <1> HIDE DEF o
  <1>4. OutcomeInv'
    BY <1>1, <1>2, <1>3 DEF OutcomeInv
  <1> QED BY <1>4 DEF StoredInv, ItemInv, StoreInv, Finish

LEMMA ReturnStored ==
    ASSUME StoredInv, Return
    PROVE  StoredInv'
  BY DEF StoredInv, ItemInv, StoreInv, OutcomeInv, Return

LEMMA NextStored == StoredInv /\ [Next]_vars => StoredInv'
  <1> SUFFICES ASSUME StoredInv, [Next]_vars PROVE StoredInv'
    OBVIOUS
  <1>1. CASE UNCHANGED vars
    BY <1>1 DEF StoredInv, ItemInv, StoreInv, OutcomeInv, vars
  <1>2. CASE Next
    BY <1>2, StartStored, RegisterStored, ArriveStored, LoadStored, FinishStored, SaveStored,
       CrashStored, ReturnStored DEF Next
  <1> QED BY <1>1, <1>2

\* The inductive invariant: a state in memory, in the store or behind an
\* outcome has inputs that mean what start made of the caller's, and an
\* envelope this process wrote holds such a state (Start, Marshal, Unmarshal).
THEOREM StoredInvariant == Spec => []StoredInv
  BY InitStored, NextStored, PTL DEF Spec

-----------------------------------------------------------------------------
(***************************************************************************)
(* Theorems.                                                               *)
(***************************************************************************)

\* What Marshal wrote, Unmarshal of that kind reads, whatever the limits are;
\* and no envelope is read as two kinds (marshalEnvelope, unmarshalEnvelope,
\* encodeValueAt, decodeValueAt).
THEOREM EnvelopesHaveOneReading == Spec => []OneReading
  <1>1. ASSUME StoredInv PROVE OneReading
    <2> DEFINE readings == {kind \in Kinds : Unmarshals(store, kind)}
    <2>1. readings \subseteq {store.kind}
      BY DEF Unmarshals, EnvelopeOpens
    <2> HIDE DEF readings
    <2>2. IsFiniteSet({store.kind}) /\ Cardinality({store.kind}) = 1
      BY FS_Singleton
    <2>3. Cardinality(readings) <= 1
      BY <2>1, <2>2, FS_Subset
    <2>4. ~loadFailed
      BY <1>1 DEF StoredInv, StoreInv
    <2> QED BY <2>3, <2>4 DEF OneReading, readings
  <1> QED BY <1>1, StoredInvariant, PTL

\* What can be read can be written back and reads the same again, and what this
\* library wrote is written back as it was, whatever the limits are
\* (encodeValueAt, decodeValueAt, marshalEnvelope, unmarshalEnvelope).
THEOREM EnvelopesAreStoredAgain == Spec => []StoredAgain
  <1>1. ASSUME StoredInv PROVE StoredAgain
    <2> SUFFICES ASSUME store # Absent, NEW kind \in Kinds, Unmarshals(store, kind),
                        NEW loaded, loaded = Unmarshal(store, kind)
                 PROVE  /\ EnvelopeFits(Envelope(loaded)) =>
                               /\ Marshals(loaded)
                               /\ Unmarshals(Envelope(loaded), kind)
                               /\ Unmarshal(Envelope(loaded), kind) = loaded
                        /\ saved # Absent => Envelope(loaded) = store
      BY DEF StoredAgain
    <2>1. PayloadsOK(store)
      BY <1>1, StoredPayloads
    <2>2. ASSUME saved # Absent PROVE Envelope(loaded) = store
      <3>1. store = Envelope(saved.item) /\ ItemOK(saved.item) /\ Marshals(saved.item)
        BY <1>1, <2>2 DEF StoredInv, StoreInv, Written
      <3>2. kind = saved.item.kind
        BY <3>1 DEF Unmarshals, EnvelopeOpens, Envelope
      <3> QED BY <3>1, <3>2, WrittenAsItWas
    <2> QED BY <2>1, <2>2, WrittenBack
  <1> QED BY <1>1, StoredInvariant, PTL

\* Whatever the browser answers, a ceremony finished from its stored state ends
\* as it would have in the process that started it: both are refused or neither,
\* handlers return the same, and what is kept raw differs at most in the Go type
\* of the input (normalizeBuiltInValue, parsePRFInput, parseLargeBlobInput,
\* PreserveRaw).
THEOREM StorageIsTransparent == Spec => []StorageTransparent
  <1>1. ASSUME StoredInv PROVE StorageTransparent
    <2> SUFFICES ASSUME saved # Absent, saved.item.kind \in States,
                        NEW loaded, loaded = Unmarshal(store, saved.item.kind),
                        Unmarshals(store, saved.item.kind), NEW response,
                        NEW results, results = VerifyExtensions(loaded, response),
                        NEW unstored, unstored = VerifyExtensions(saved.item, response)
                 PROVE  /\ FinishAccepts(loaded, response) <=> FinishAccepts(saved.item, response)
                        /\ FinishAccepts(loaded, response) =>
                               /\ DOMAIN results = DOMAIN unstored
                               /\ \A id \in DOMAIN results :
                                      IF Handled(loaded, id) THEN results[id] = unstored[id]
                                      ELSE SameRaw(results[id], unstored[id])
      BY DEF StorageTransparent, SameEnd
    <2>1. Written(store, saved)
      BY <1>1 DEF StoredInv, StoreInv
    <2>2. store = Envelope(saved.item) /\ ItemOK(saved.item) /\ Marshals(saved.item)
      BY <2>1 DEF Written
    <2>3. Alike(loaded, saved.item)
      BY <2>2, StateAlike DEF Marshals
    <2>4. Validates(loaded) /\ Validates(saved.item)
      BY <2>2 DEF Unmarshals, Unmarshal, Marshals
    <2> QED BY <2>3, <2>4, AlikeResults
  <1> QED BY <1>1, StoredInvariant, PTL

\* What a finished login says of an accepted output: its handler verified it
\* against the input that start prepared.
LEMMA AcceptedVerified ==
    ASSUME StoredInv, Finished("authentication"), NEW id \in BuiltIn, AcceptedOutput(id)
    PROVE  \E it : /\ AskedOK(it, outcome.request) /\ ItemOK(it)
                   /\ Operation(it.kind) = "authentication" /\ it.kind = "authentication-state"
                   /\ Validates(it) /\ Handled(it, id)
                   /\ it.allow # <<>> =>
                          \E i \in DOMAIN it.allow : it.allow[i] = outcome.response.selected
                   /\ outcome.results[id] =
                          Verified(it, outcome.response, Client(outcome.response), id)
                   /\ outcome.results[id] # Invalid
  <1> DEFINE results == outcome.results
  <1>1. PICK it : /\ results = Results(it, outcome.response)
                  /\ ItemOK(it) /\ it.kind \in States
                  /\ AskedOK(it, outcome.request)
    BY DEF StoredInv, OutcomeInv, Finished
  <1>2. results # Invalid /\ outcome.request # Absent /\ outcome.request.operation = "authentication"
    BY DEF Finished
  <1>3. id \in DOMAIN results /\ results[id].accepted
    BY DEF AcceptedOutput
  <1> HIDE DEF results
  <1>4. /\ Validates(it)
        /\ it.allow # <<>> => \E i \in DOMAIN it.allow : it.allow[i] = outcome.response.selected
        /\ results[id] = Verified(it, outcome.response, Client(outcome.response), id)
        /\ Handled(it, id) => results[id] # Invalid
        /\ ~Handled(it, id) => ~results[id].accepted
    BY <1>1, <1>2, <1>3, ResultsParts
  <1>5. Handled(it, id)
    BY <1>3, <1>4
  <1>6. it.kind = "authentication-state" /\ Operation(it.kind) = "authentication"
    BY <1>1, <1>2 DEF AskedOK, Kind, Operation
  <1> QED BY <1>1, <1>4, <1>5, <1>6 DEF results

\* What start prepares for a login's PRF input: the caller's values with the
\* credentials of the ceremony.
LEMMA PreparedPRF ==
    ASSUME NEW request \in Requests, StartAccepts(request), "prf" \in DOMAIN request.inputs,
           request.operation = "authentication",
           NEW input, input = ParsePRFInput(request.inputs["prf"]),
           NEW allow, allow = IF Texts(request.allow) = <<>> THEN Absent ELSE Texts(request.allow),
           NEW q, q = [eval |-> input.eval, by |-> input.by, allow |-> allow]
    PROVE  /\ ParsePRFInput(Prepared(request, "prf")) = q
           /\ ParsePRFInput(<<"PRFInput", q>>) = q
  <1> DEFINE raw == request.inputs["prf"]
             value == Transform("authentication", "prf", raw, request.allow)
             prepared == Prepared(request, "prf")
  <1>1. raw \in Values
    BY RequestsAssumption
  <1>2. /\ prepared # Invalid /\ value # Invalid
        /\ prepared = ValidateInput("authentication", "prf", value)
    BY StartValidates, BuiltInDomain DEF BuiltIn
  <1>3. value = PRFInputWithCredentials(raw, Texts(request.allow))
    BY DEF Transform
  <1>4. input # Invalid
    BY <1>2, <1>3 DEF PRFInputWithCredentials
  <1> HIDE DEF value, raw, prepared
  <1>5. input = ParsePRFInput(raw)
    BY DEF raw
  <1>6. value = <<"PRFInput", q>> /\ ParsePRFInput(<<"PRFInput", q>>) = q
    BY <1>1, <1>3, <1>4, <1>5, PRFWithCredentials
  <1>7. prepared = ValidatePRFInput("authentication", value)
    BY <1>2 DEF ValidateInput
  <1>8. prepared = <<"PRFInput", ParsePRFInput(value)>>
    BY <1>2, <1>7 DEF ValidatePRFInput
  <1>9. prepared = <<"PRFInput", q>>
    BY <1>6, <1>8
  <1> QED BY <1>6, <1>9 DEF prepared

LEMMA VerifyPRFAccepted ==
    ASSUME NEW request, NEW result, result = VerifyPRF(request), result # Invalid, result.accepted,
           request.operation = "authentication", result.output.results # Absent
    PROVE  PRFResultMatches(SelectedPRFInput(request.input[2], request.selected),
                            result.output.results)
  <1> DEFINE fields == request.client[2]
             enabled == Field(fields, "enabled")
             results == IF "results" \in DOMAIN fields THEN ParsePRFValues(fields.results)
                        ELSE Absent
  <1>1. /\ PRFOutputValid(request, enabled, results)
        /\ result = [accepted |-> TRUE, output |-> [enabled |-> enabled, results |-> results]]
    <2>1. result # [accepted |-> FALSE, output |-> Absent]
      <3> SUFFICES ASSUME result = [accepted |-> FALSE, output |-> Absent] PROVE FALSE
        OBVIOUS
      <3>1. result.accepted = FALSE
        OBVIOUS
      <3> QED BY <3>1
    <2> QED BY <2>1 DEF VerifyPRF
  <1> HIDE DEF enabled, results
  <1>2. result.output.results = results
    BY <1>1
  <1> QED BY <1>1, <1>2 DEF PRFOutputValid

\* What the code verified: the handler's answer, for the input it normalised.
LEMMA VerifiedMeaning ==
    ASSUME NEW it, NEW response, NEW client, NEW id, Handled(it, id),
           NEW result, result = Verified(it, response, client, id), result # Invalid,
           NEW input, input = Transform(Operation(it.kind), id, it.inputs[id], it.allow),
           NEW valid, valid = ValidateInput(Operation(it.kind), id, input)
    PROVE  /\ input # Invalid /\ valid # Invalid
           /\ \E request : /\ request.operation = Operation(it.kind) /\ request.input = valid
                           /\ request.selected = response.selected
                           /\ result = VerifyOutput(id, request)
  <1> DEFINE r == [operation |-> Operation(it.kind), input |-> input,
                   selected |-> response.selected, client |-> OutputOf(client, id),
                   authenticator |-> OutputOf(response.authenticator, id)]
             request == [r EXCEPT !.input = valid]
  <1>1. input # Invalid /\ result = HandlerVerifies(id, r)
    BY DEF Verified, Handled, ClientInput, InputFails
  <1>2. r.operation = Operation(it.kind) /\ r.input = input
    OBVIOUS
  <1>3. /\ request.operation = Operation(it.kind) /\ request.input = valid
        /\ request.selected = response.selected
    OBVIOUS
  <1> HIDE DEF r
  <1>4. valid # Invalid /\ result = VerifyOutput(id, request)
    BY <1>1, <1>2 DEF HandlerVerifies
  <1> HIDE DEF request
  <1> QED BY <1>1, <1>3, <1>4

\* PRF results that a login accepts answer what the caller asked for the
\* credential that signed, stored in between or not, and values by credential
\* are only for credentials of the ceremony (PRFInputWithCredentials,
\* selectedPRFInput, parsePRFInput).
THEOREM PRFResultsAnswerTheRequest == Spec => []PRFResultsAsAsked
  <1>1. ASSUME StoredInv PROVE PRFResultsAsAsked
    <2> SUFFICES ASSUME Finished("authentication"), AcceptedOutput("prf")
                 PROVE  PRFResultsAsAsked
      BY DEF PRFResultsAsAsked
    <2> DEFINE request == outcome.request
               input == ParsePRFInput(request.inputs["prf"])
               own == CredentialText[outcome.response.selected]
               keys == IF input.by = Absent THEN {} ELSE DOMAIN input.by
               values == IF own \in keys THEN input.by[own] ELSE input.eval
               result == outcome.results["prf"]
               allow == IF Texts(request.allow) = <<>> THEN Absent ELSE Texts(request.allow)
               q == [eval |-> input.eval, by |-> input.by, allow |-> allow]
    <2>1. PICK it : /\ AskedOK(it, request) /\ ItemOK(it)
                    /\ Operation(it.kind) = "authentication" /\ it.kind = "authentication-state"
                    /\ Validates(it) /\ Handled(it, "prf")
                    /\ it.allow # <<>> =>
                           \E i \in DOMAIN it.allow : it.allow[i] = outcome.response.selected
                    /\ result = Verified(it, outcome.response, Client(outcome.response), "prf")
                    /\ result # Invalid
      BY <1>1, AcceptedVerified DEF BuiltIn
    <2>2. request # Absent /\ request.operation = "authentication" /\ result.accepted
      BY DEF Finished, AcceptedOutput
    <2>3. /\ request \in Requests /\ StartAccepts(request) /\ "prf" \in DOMAIN request.inputs
          /\ it.allow = request.allow
          /\ SameInput("prf", it.inputs["prf"], Prepared(request, "prf"))
      BY <2>1, <2>2 DEF AskedOK, Handled
    <2>4. it.inputs["prf"] \in Values
      BY <2>1 DEF ItemOK, InputsTyped, States, Handled
    <2> HIDE DEF request, input, result, allow
    <2>5. input = ParsePRFInput(request.inputs["prf"])
      BY DEF input
    <2>6. allow = IF Texts(request.allow) = <<>> THEN Absent ELSE Texts(request.allow)
      BY DEF allow
    <2>7. ParsePRFInput(Prepared(request, "prf")) = q /\ ParsePRFInput(<<"PRFInput", q>>) = q
      BY <2>2, <2>3, <2>5, <2>6, PreparedPRF
    <2>8. ParsePRFInput(it.inputs["prf"]) = q
      BY <2>3, <2>7, BuiltInDomain DEF SameInput, BuiltIn
    <2>9. q.eval = input.eval /\ q.by = input.by /\ q.allow = allow
      OBVIOUS
    <2> HIDE DEF q
    <2> DEFINE sent == Transform("authentication", "prf", it.inputs["prf"], it.allow)
               valid == ValidateInput("authentication", "prf", sent)
    <2>11. /\ sent # Invalid /\ valid # Invalid
           /\ \E r : /\ r.operation = "authentication" /\ r.input = valid
                     /\ r.selected = outcome.response.selected
                     /\ result = VerifyOutput("prf", r)
      BY <2>1, VerifiedMeaning
    <2>12. sent = PRFInputWithCredentials(it.inputs["prf"], Texts(request.allow))
      BY <2>3 DEF Transform
    <2>13. q # Invalid
      BY <2>8, <2>11, <2>12 DEF PRFInputWithCredentials
    <2>14. sent = <<"PRFInput", q>>
      <3> DEFINE v == it.inputs["prf"]
                 credentials == Texts(request.allow)
      <3>1. v \in Values /\ q = ParsePRFInput(v) /\ q # Invalid
        BY <2>4, <2>8, <2>13
      <3>2. allow = IF credentials = <<>> THEN Absent ELSE credentials
        BY <2>6
      <3>3. sent = PRFInputWithCredentials(v, credentials)
        BY <2>12
      <3> HIDE DEF v, credentials, sent
      <3>4. PRFInputWithCredentials(v, credentials) = <<"PRFInput", q>>
        BY <2>9, <3>1, <3>2, PRFWithSameCredentials
      <3> QED BY <3>3, <3>4
    <2> HIDE DEF sent
    <2>15. valid = ValidatePRFInput("authentication", sent)
      BY DEF ValidateInput
    <2> HIDE DEF valid
    <2>16. ParsePRFInput(sent) = q
      BY <2>7, <2>14
    <2>17. valid = <<"PRFInput", q>>
      BY <2>11, <2>15, <2>16 DEF ValidatePRFInput
    <2>18. keys \subseteq IF q.allow = Absent THEN {} ELSE {q.allow[i] : i \in DOMAIN q.allow}
      <3> DEFINE allowed == IF q.allow = Absent THEN {} ELSE {q.allow[i] : i \in DOMAIN q.allow}
      <3>1. (IF q.by = Absent THEN {} ELSE DOMAIN q.by) \subseteq allowed \ {""}
        <4> HIDE DEF allowed
        <4>1. ValidatePRFInput("authentication", sent) # Invalid
          BY <2>11, <2>15
        <4> QED BY <2>16, <4>1 DEF ValidatePRFInput, allowed
      <3> QED BY <2>9, <3>1
    <2>19. keys \subseteq {Texts(request.allow)[i] : i \in DOMAIN request.allow}
      <3>1. DOMAIN Texts(request.allow) = DOMAIN request.allow
        BY DEF Texts
      <3> QED BY <2>6, <2>9, <2>18, <3>1
    <2>20. ASSUME result.output.results # Absent
           PROVE  /\ values # Absent
                  /\ (values.second = Absent) = (result.output.results.second = Absent)
      <3> DEFINE results == result.output.results
      <3>1. PICK r : /\ r.operation = "authentication" /\ r.input = valid
                     /\ r.selected = outcome.response.selected
                     /\ result = VerifyOutput("prf", r)
        BY <2>11
      <3>2. result = VerifyPRF(r)
        BY <3>1 DEF VerifyOutput
      <3>3. r.input[2] = q
        BY <2>17, <3>1
      <3>4. result # Invalid
        BY <2>1
      <3>5. PRFResultMatches(SelectedPRFInput(q, outcome.response.selected), results)
        BY <2>2, <2>20, <3>1, <3>2, <3>3, <3>4, VerifyPRFAccepted
      <3> HIDE DEF results
      <3>6. SelectedPRFInput(q, outcome.response.selected) # Absent
        BY <3>5 DEF PRFResultMatches
      <3>7. SelectedPRFInput(q, outcome.response.selected) = values
        BY <2>9, <3>6 DEF SelectedPRFInput
      <3> HIDE DEF values
      <3> QED BY <3>5, <3>6, <3>7 DEF PRFResultMatches, results
    <2> QED BY <2>19, <2>20 DEF PRFResultsAsAsked, request, input, result
  <1> QED BY <1>1, StoredInvariant, PTL

LEMMA VerifyLargeBlobAccepted ==
    ASSUME NEW request, NEW result, result = VerifyLargeBlob(request), result # Invalid,
           result.accepted, request.operation = "authentication", request.input[2].write # Absent
    PROVE  result.output.written # Absent
  <1> DEFINE fields == request.client[2]
             output == [supported |-> Field(fields, "supported"), blob |-> Field(fields, "blob"),
                        written |-> Field(fields, "written")]
  <1>1. /\ LargeBlobOutputValid(request.operation, request.input[2], output)
        /\ result = [accepted |-> TRUE, output |-> output]
    <2>1. result # [accepted |-> FALSE, output |-> Absent]
      <3> SUFFICES ASSUME result = [accepted |-> FALSE, output |-> Absent] PROVE FALSE
        OBVIOUS
      <3>1. result.accepted = FALSE
        OBVIOUS
      <3> QED BY <3>1
    <2> QED BY <2>1 DEF VerifyLargeBlob
  <1> HIDE DEF output
  <1>2. result.output = output
    BY <1>1
  <1> QED BY <1>1, <1>2 DEF LargeBlobOutputValid

\* A sequence of one element that is somewhere in it.
LEMMA OnlyElement ==
    ASSUME NEW S, NEW s \in Seq(S), Len(s) = 1, NEW x, \E i \in DOMAIN s : s[i] = x
    PROVE  s = <<x>>
  <1>1. DOMAIN s = {1}
    OBVIOUS
  <1>2. s[1] = x
    BY <1>1
  <1> QED BY <1>1, <1>2

\* An accepted largeBlob output of a login that asked to write says whether it
\* was written, and comes from the one credential the caller named, stored in
\* between or not (validateLargeBlobOutput, parseLargeBlobInput and
\* validateLargeBlobCredentialContext).
THEOREM WritesAreAnswered == Spec => []WriteAnswered
  <1>1. ASSUME StoredInv PROVE WriteAnswered
    <2> DEFINE request == outcome.request
               input == ParseLargeBlobInput(request.inputs["largeBlob"])
               result == outcome.results["largeBlob"]
    <2> SUFFICES ASSUME Finished("authentication"), AcceptedOutput("largeBlob"),
                        input.write # Absent
                 PROVE  /\ result.output.written # Absent
                        /\ request.allow = <<outcome.response.selected>>
      BY DEF WriteAnswered
    <2>1. PICK it : /\ AskedOK(it, request) /\ ItemOK(it)
                    /\ Operation(it.kind) = "authentication" /\ it.kind = "authentication-state"
                    /\ Validates(it) /\ Handled(it, "largeBlob")
                    /\ it.allow # <<>> =>
                           \E i \in DOMAIN it.allow : it.allow[i] = outcome.response.selected
                    /\ result = Verified(it, outcome.response, Client(outcome.response), "largeBlob")
                    /\ result # Invalid
      BY <1>1, AcceptedVerified DEF BuiltIn
    <2>2. request # Absent /\ request.operation = "authentication" /\ result.accepted
      BY DEF Finished, AcceptedOutput
    <2>3. /\ request \in Requests /\ StartAccepts(request) /\ "largeBlob" \in DOMAIN request.inputs
          /\ it.allow = request.allow
          /\ SameInput("largeBlob", it.inputs["largeBlob"], Prepared(request, "largeBlob"))
      BY <2>1, <2>2 DEF AskedOK, Handled
    <2> DEFINE v == it.inputs["largeBlob"]
               raw == request.inputs["largeBlob"]
               prepared == Prepared(request, "largeBlob")
    <2>4. v \in Values /\ raw \in Values
      BY <2>1, <2>3, RequestsAssumption DEF ItemOK, InputsTyped, States, Handled
    <2>5. ParseLargeBlobInput(v) = input
      <3>1. Transform("authentication", "largeBlob", raw, request.allow) = raw
        BY DEF Transform
      <3>2. prepared # Invalid /\ prepared = ValidateInput("authentication", "largeBlob", raw)
        BY <2>2, <2>3, <3>1, StartValidates, BuiltInDomain DEF BuiltIn
      <3>3. prepared = ValidateLargeBlobInput("authentication", raw)
        BY <3>2 DEF ValidateInput
      <3>4. ParseLargeBlobInput(v) = ParseLargeBlobInput(prepared)
        BY <2>3, BuiltInDomain DEF SameInput, BuiltIn
      <3> HIDE DEF prepared, v
      <3>5. ParseLargeBlobInput(prepared) = input
        BY <2>4, <3>2, <3>3, LargeBlobValidated
      <3> QED BY <3>4, <3>5
    <2> DEFINE sent == Transform("authentication", "largeBlob", v, it.allow)
               valid == ValidateInput("authentication", "largeBlob", sent)
    <2> HIDE DEF result, request
    <2>6. /\ sent # Invalid /\ valid # Invalid
          /\ \E r : /\ r.operation = "authentication" /\ r.input = valid
                    /\ r.selected = outcome.response.selected
                    /\ result = VerifyOutput("largeBlob", r)
      BY <2>1, VerifiedMeaning
    <2>7. sent = v
      BY DEF Transform
    <2>8. valid = ValidateLargeBlobInput("authentication", v)
      BY <2>7 DEF ValidateInput
    <2> HIDE DEF v, sent, valid, input
    <2>9. valid[2].write # Absent
      <3>1. valid[2].write = input.write
        BY <2>4, <2>5, <2>6, <2>8, LargeBlobValidated
      <3>2. input.write # Absent
        BY DEF input, request
      <3> QED BY <3>1, <3>2
    <2>10. result.output.written # Absent
      <3>1. PICK r : /\ r.operation = "authentication" /\ r.input = valid
                     /\ result = VerifyOutput("largeBlob", r)
        BY <2>6
      <3>2. result = VerifyLargeBlob(r)
        BY <3>1 DEF VerifyOutput
      <3> QED BY <2>1, <2>2, <2>9, <3>1, <3>2, VerifyLargeBlobAccepted
    <2>11. Len(it.allow) = 1
      <3>1. it.kind # "credential-record"
        BY <2>1
      <3> QED BY <2>1, <2>8, <2>9, <3>1 DEF Validates, Handled, v
    <2>12. it.allow \in Seq(DOMAIN CredentialText)
      BY <2>3, RequestsAssumption
    <2>13. it.allow # <<>>
      <3> SUFFICES ASSUME it.allow = <<>> PROVE FALSE
        OBVIOUS
      <3>1. Len(it.allow) = 0
        OBVIOUS
      <3> QED BY <2>11, <3>1
    <2>14. it.allow = <<outcome.response.selected>>
      BY <2>1, <2>11, <2>12, <2>13, OnlyElement
    <2> QED BY <2>3, <2>10, <2>14 DEF result, request
  <1> QED BY <1>1, StoredInvariant, PTL
=============================================================================
