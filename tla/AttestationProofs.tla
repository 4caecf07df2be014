-------------------------- MODULE AttestationProofs --------------------------
(***************************************************************************)
(* Theorems about Attestation: what an accepted attestation rests on, when *)
(* a compound statement is accepted, and what trust policies and the TPM's *)
(* primality test compute.                                                 *)
(***************************************************************************)
EXTENDS Attestation, FiniteSetTheorems, SequenceTheorems, WellFoundedInduction, TLAPS

-----------------------------------------------------------------------------
(***************************************************************************)
(* Induction and recursion, for sets and functions instead of operators.   *)
(***************************************************************************)

\* A nonempty set of naturals has a least element.
LEMMA LeastNatural ==
    ASSUME NEW T, T \subseteq Nat, T # {}
    PROVE  \E i \in T : \A j \in T : i <= j
  <1> DEFINE R == OpToRel(<, Nat)
  <1>1. \E i \in T : \A j \in T : ~(<<j, i>> \in R)
    <2> HIDE DEF R
    <2>1. IsWellFoundedOn(R, Nat)
      BY NatLessThanWellFounded DEF R
    <2> QED BY <2>1, WFMin
  <1>2. \A i, j \in Nat : j < i => <<j, i>> \in R
    BY DEF OpToRel
  <1> HIDE DEF R
  <1>3. PICK i \in T : \A j \in T : ~(<<j, i>> \in R)
    BY <1>1
  <1>4. ASSUME NEW j \in T PROVE i <= j
    <2>1. i \in Nat /\ j \in Nat /\ ~(j < i)
      BY <1>2, <1>3, <1>4
    <2> QED BY <2>1
  <1> QED BY <1>4

\* A set of naturals with zero that is closed under successor has them all.
LEMMA SetInduction ==
    ASSUME NEW T, 0 \in T, \A n \in Nat : n \in T => n + 1 \in T
    PROVE  Nat \subseteq T
  <1> SUFFICES ASSUME Nat \ T # {} PROVE FALSE
    OBVIOUS
  <1>1. PICK n \in Nat \ T : \A m \in Nat \ T : n <= m
    BY LeastNatural
  <1>2. n # 0 /\ n - 1 \in Nat
    OBVIOUS
  <1>3. n - 1 \in T
    BY <1>1, <1>2
  <1>4. (n - 1) + 1 = n
    BY <1>2
  <1> QED BY <1>2, <1>3, <1>4

\* An element is in the set once everything below it is.
Inductive(P, depth, T) ==
    \A p \in P : (\A q \in P : depth[q] < depth[p] => q \in T) => p \in T

LEMMA DepthInduction ==
    ASSUME NEW P, NEW depth \in [P -> Nat], NEW T, Inductive(P, depth, T)
    PROVE  P \subseteq T
  <1> SUFFICES ASSUME P \ T # {} PROVE FALSE
    OBVIOUS
  <1> DEFINE D == {depth[p] : p \in P \ T}
  <1>1. D \subseteq Nat /\ D # {}
    OBVIOUS
  <1>2. PICK d \in D : \A m \in D : d <= m
    <2> HIDE DEF D
    <2> QED BY <1>1, LeastNatural
  <1>3. PICK p \in P \ T : d = depth[p]
    OBVIOUS
  <1>4. ASSUME NEW q \in P, depth[q] < depth[p] PROVE q \in T
    <2> SUFFICES ASSUME q \notin T PROVE FALSE
      OBVIOUS
    <2>1. depth[q] \in D
      OBVIOUS
    <2>2. depth[p] <= depth[q]
      BY <1>2, <1>3, <2>1
    <2>3. depth[p] \in Nat /\ depth[q] \in Nat
      OBVIOUS
    <2> QED BY <1>4, <2>2, <2>3
  <1> QED BY <1>4 DEF Inductive

\* A recursion: the step gives the value at an element from a function of all
\* elements, of which it looks at the values of the element's children only.
IsRecursion(P, V, depth, kids, step) ==
    /\ V # {}
    /\ depth \in [P -> Nat]
    /\ kids \in [P -> SUBSET P]
    /\ \A p \in P : \A c \in kids[p] : depth[c] < depth[p]
    /\ step \in [P -> [[P -> V] -> V]]
    /\ \A p \in P : \A g, h \in [P -> V] :
           (\A c \in kids[p] : g[c] = h[c]) => step[p][g] = step[p][h]

LEMMA RecursionOnDepth ==
    ASSUME NEW P, NEW V, NEW depth, NEW kids, NEW step,
           IsRecursion(P, V, depth, kids, step)
    PROVE  \E f \in [P -> V] : \A p \in P : f[p] = step[p][f]
  <1> USE DEF IsRecursion
  <1> DEFINE Good(n) ==
                 {f \in [P -> V] : \A p \in P : depth[p] < n => f[p] = step[p][f]}
  <1>1. \A n \in Nat : Good(n) # {}
    <2> DEFINE T == {n \in Nat : Good(n) # {}}
    <2>1. 0 \in T
      <3>1. PICK v \in V : TRUE
        OBVIOUS
      <3>2. [p \in P |-> v] \in Good(0)
        OBVIOUS
      <3> QED BY <3>2
    <2>2. ASSUME NEW n \in Nat, n \in T PROVE n + 1 \in T
      <3>1. PICK f : f \in Good(n)
        BY <2>2
      <3> DEFINE g == [p \in P |-> step[p][f]]
      <3>2. g \in [P -> V]
        BY <3>1
      <3>3. ASSUME NEW p \in P, depth[p] < n + 1 PROVE g[p] = step[p][g]
        <4>1. \A c \in kids[p] : f[c] = g[c]
          BY <3>1, <3>3
        <4>2. step[p][f] = step[p][g]
          BY <3>1, <3>2, <4>1
        <4> QED BY <4>2
      <3> HIDE DEF g
      <3>4. g \in Good(n + 1)
        BY <3>2, <3>3
      <3> HIDE DEF Good
      <3> QED BY <3>4
    <2> HIDE DEF T
    <2>3. Nat \subseteq T
      BY <2>1, <2>2, SetInduction
    <2> QED BY <2>3 DEF T
  <1>2. ASSUME NEW n \in Nat, NEW m \in Nat, NEW f \in Good(n), NEW g \in Good(m),
               NEW x \in P, depth[x] < n, depth[x] < m
        PROVE  f[x] = g[x]
    <2> DEFINE T == {p \in P : (depth[p] < n /\ depth[p] < m) => f[p] = g[p]}
    <2>1. ASSUME NEW p \in P, \A q \in P : depth[q] < depth[p] => q \in T
          PROVE  p \in T
      <3> SUFFICES ASSUME depth[p] < n, depth[p] < m PROVE f[p] = g[p]
        OBVIOUS
      <3>1. ASSUME NEW c \in kids[p] PROVE f[c] = g[c]
        <4>1. /\ c \in P /\ depth[c] < depth[p]
              /\ depth[c] \in Nat /\ depth[p] \in Nat
          OBVIOUS
        <4>2. c \in T /\ depth[c] < n /\ depth[c] < m
          BY <2>1, <4>1
        <4> QED BY <4>2
      <3>2. f \in [P -> V] /\ g \in [P -> V]
        OBVIOUS
      <3>3. step[p][f] = step[p][g]
        BY <3>1, <3>2
      <3>4. f[p] = step[p][f] /\ g[p] = step[p][g]
        OBVIOUS
      <3> QED BY <3>3, <3>4
    <2> HIDE DEF T, Good
    <2>2. Inductive(P, depth, T)
      BY <2>1 DEF Inductive
    <2>3. P \subseteq T
      BY <2>2, DepthInduction
    <2> QED BY <1>2, <2>3 DEF T
  <1> DEFINE at(p) == CHOOSE f : f \in Good(depth[p] + 1)
             F == [p \in P |-> at(p)[p]]
  <1>3. ASSUME NEW p \in P PROVE at(p) \in Good(depth[p] + 1)
    <2> HIDE DEF Good
    <2>1. depth[p] + 1 \in Nat
      OBVIOUS
    <2> QED BY <1>1, <2>1
  <1>4. F \in [P -> V]
    BY <1>3
  <1>5. ASSUME NEW p \in P PROVE F[p] = step[p][F]
    <2>1. at(p) \in [P -> V] /\ at(p)[p] = step[p][at(p)]
      <3> HIDE DEF at
      <3> QED BY <1>3
    <2>2. ASSUME NEW c \in kids[p] PROVE F[c] = at(p)[c]
      <3>1. c \in P /\ at(c) \in Good(depth[c] + 1) /\ at(p) \in Good(depth[p] + 1)
        BY <1>3
      <3>2. /\ depth[c] \in Nat /\ depth[p] \in Nat /\ depth[c] < depth[p]
            /\ depth[c] < depth[c] + 1 /\ depth[c] < depth[p] + 1
            /\ depth[c] + 1 \in Nat /\ depth[p] + 1 \in Nat
        BY <3>1
      <3> HIDE DEF at, Good
      <3> QED BY <1>2, <3>1, <3>2
    <2> HIDE DEF F, at
    <2>3. step[p][F] = step[p][at(p)]
      BY <1>4, <2>1, <2>2
    <2> QED BY <2>1, <2>3 DEF F
  <1> QED BY <1>4, <1>5

-----------------------------------------------------------------------------
(***************************************************************************)
(* What the trust policies compute.                                        *)
(***************************************************************************)

\* Either no child ends the search, or one that does decides.
LEMMA FirstOfDecides ==
    ASSUME NEW n \in Nat, NEW outcomes, DOMAIN outcomes = 1 .. n, NEW ends, NEW otherwise
    PROVE  \/ /\ \A i \in 1 .. n : outcomes[i] \notin ends
              /\ FirstOf(outcomes, ends, otherwise) = otherwise
           \/ \E i \in 1 .. n : /\ outcomes[i] \in ends
                                /\ FirstOf(outcomes, ends, otherwise) = outcomes[i]
  <1> DEFINE stops == {i \in DOMAIN outcomes : outcomes[i] \in ends}
  <1>1. FirstOf(outcomes, ends, otherwise) =
            IF stops = {} THEN otherwise ELSE outcomes[Min(stops)]
    BY DEF FirstOf
  <1>2. CASE stops = {}
    BY <1>1, <1>2
  <1>3. CASE stops # {}
    <2>1. stops \subseteq Nat
      OBVIOUS
    <2>2. Min(stops) \in stops
      <3> HIDE DEF stops
      <3>1. \E i \in stops : \A j \in stops : i <= j
        BY <1>3, <2>1, LeastNatural
      <3> QED BY <3>1 DEF Min
    <2> QED BY <1>1, <1>3, <2>2
  <1> QED BY <1>2, <1>3

LEMMA FirstOfOutcome ==
    ASSUME NEW n \in Nat, NEW outcomes \in [1 .. n -> Outcomes], NEW ends,
           NEW otherwise \in Outcomes
    PROVE  FirstOf(outcomes, ends, otherwise) \in Outcomes
  <1>1. DOMAIN outcomes = 1 .. n
    OBVIOUS
  <1> QED BY <1>1, FirstOfDecides

\* The children of a combination, as a list.
LEMMA ChildrenListed ==
    ASSUME NEW p \in Policies, p # Nil, p.op \in {"all", "any"}
    PROVE  /\ Len(p.policies) \in Nat
           /\ DOMAIN p.policies = 1 .. Len(p.policies)
           /\ p.policies = <<>> <=> Len(p.policies) = 0
           /\ \A i \in 1 .. Len(p.policies) :
                  /\ p.policies[i] \in Children(p)
                  /\ p.policies[i] \in Policies
                  /\ PolicyDepth[p.policies[i]] < PolicyDepth[p]
  <1>1. p.policies \in Seq(Children(p))
    BY PolicyAssumption
  <1>2. Len(p.policies) \in Nat /\ DOMAIN p.policies = 1 .. Len(p.policies)
    BY <1>1, LenProperties
  <1>3. p.policies = <<>> <=> Len(p.policies) = 0
    BY <1>1, EmptySeq
  <1>4. \A i \in 1 .. Len(p.policies) : p.policies[i] \in Children(p)
    BY <1>1, ElementOfSeq
  <1> QED BY <1>2, <1>3, <1>4, PolicyAssumption

LEMMA LeafOutcome ==
    ASSUME NEW p, NEW request
    PROVE  EvaluateLeaf(p, request) \in Outcomes
  BY DEF EvaluateLeaf, Decide, Outcomes

LEMMA EvaluateStepOutcome ==
    ASSUME NEW p \in Policies, NEW request, NEW outcome \in [Policies -> Outcomes]
    PROVE  EvaluateStep(p, request, outcome) \in Outcomes
  <1> DEFINE outcomes == [i \in DOMAIN p.policies |-> outcome[p.policies[i]]]
  <1>1. CASE p = Nil
    BY <1>1 DEF EvaluateStep, Outcomes
  <1>2. CASE p # Nil /\ p.op \notin {"all", "any"}
    BY <1>2, LeafOutcome DEF EvaluateStep
  <1>3. CASE p # Nil /\ p.op \in {"all", "any"}
    <2>1. outcomes \in [1 .. Len(p.policies) -> Outcomes] /\ Len(p.policies) \in Nat
      BY <1>3, ChildrenListed
    <2>2. "accept" \in Outcomes /\ "reject" \in Outcomes /\ "error" \in Outcomes
      BY DEF Outcomes
    <2>3. /\ EvaluateStep(p, request, outcome) \in
                 {"error", AllOfOutcome(outcomes), AnyOfOutcome(outcomes)}
      BY <1>3 DEF EvaluateStep
    <2> HIDE DEF outcomes
    <2>4. AllOfOutcome(outcomes) \in Outcomes /\ AnyOfOutcome(outcomes) \in Outcomes
      BY <2>1, <2>2, FirstOfOutcome DEF AllOfOutcome, AnyOfOutcome
    <2> QED BY <2>2, <2>3, <2>4
  <1> QED BY <1>1, <1>2, <1>3

\* Evaluate satisfies its recursive definition.
LEMMA EvaluateDef ==
    ASSUME NEW request
    PROVE  \E outcome :
               /\ \A p : Evaluate(p, request) = outcome[p]
               /\ outcome = [p \in Policies |-> EvaluateStep(p, request, outcome)]
  <1> DEFINE F == CHOOSE outcome :
                 outcome = [p \in Policies |-> EvaluateStep(p, request, outcome)]
             kids == [p \in Policies |-> Children(p)]
             step == [p \in Policies |-> [g \in [Policies -> Outcomes] |->
                                             EvaluateStep(p, request, g)]]
  <1>1. \A p : Evaluate(p, request) = F[p]
    BY DEF Evaluate
  <1>2. kids \in [Policies -> SUBSET Policies]
        /\ \A p \in Policies : \A c \in kids[p] : PolicyDepth[c] < PolicyDepth[p]
    BY PolicyAssumption
  <1>3. step \in [Policies -> [[Policies -> Outcomes] -> Outcomes]]
    BY EvaluateStepOutcome
  <1>4. ASSUME NEW p \in Policies, NEW g \in [Policies -> Outcomes],
               NEW h \in [Policies -> Outcomes], \A c \in kids[p] : g[c] = h[c]
        PROVE  step[p][g] = step[p][h]
    <2>1. EvaluateStep(p, request, g) = EvaluateStep(p, request, h)
      <3>1. CASE p = Nil \/ p.op \notin {"all", "any"}
        BY <3>1 DEF EvaluateStep
      <3>2. CASE p # Nil /\ p.op \in {"all", "any"}
        <4>1. \A i \in DOMAIN p.policies : p.policies[i] \in kids[p]
          BY <3>2 DEF Children
        <4>2. [i \in DOMAIN p.policies |-> g[p.policies[i]]]
                  = [i \in DOMAIN p.policies |-> h[p.policies[i]]]
          BY <1>4, <4>1
        <4> QED BY <3>2, <4>2 DEF EvaluateStep
      <3> QED BY <3>1, <3>2
    <2> QED BY <2>1
  <1>5. PICK f \in [Policies -> Outcomes] : \A p \in Policies : f[p] = step[p][f]
    <2>1. Outcomes # {} /\ PolicyDepth \in [Policies -> Nat]
      BY PolicyAssumption DEF Outcomes
    <2>2. \A p \in Policies : \A g, h \in [Policies -> Outcomes] :
              (\A c \in kids[p] : g[c] = h[c]) => step[p][g] = step[p][h]
      <3> HIDE DEF kids, step
      <3> QED BY <1>4
    <2> HIDE DEF kids, step
    <2>3. IsRecursion(Policies, Outcomes, PolicyDepth, kids, step)
      BY <1>2, <1>3, <2>1, <2>2 DEF IsRecursion
    <2> QED BY <2>3, RecursionOnDepth
  <1>6. f = [p \in Policies |-> EvaluateStep(p, request, f)]
    BY <1>5
  <1>7. F = [p \in Policies |-> EvaluateStep(p, request, F)]
    BY <1>6
  <1> HIDE DEF F
  <1> QED BY <1>1, <1>7

LEMMA MeansDef ==
    ASSUME NEW request
    PROVE  \E means :
               /\ \A p : Means(p, request) = means[p]
               /\ means = [p \in Policies |-> MeansStep(p, request, means)]
  <1> DEFINE F == CHOOSE means :
                 means = [p \in Policies |-> MeansStep(p, request, means)]
             kids == [p \in Policies |-> Children(p)]
             step == [p \in Policies |-> [g \in [Policies -> BOOLEAN] |->
                                             MeansStep(p, request, g)]]
  <1>1. \A p : Means(p, request) = F[p]
    BY DEF Means
  <1>2. kids \in [Policies -> SUBSET Policies]
        /\ \A p \in Policies : \A c \in kids[p] : PolicyDepth[c] < PolicyDepth[p]
    BY PolicyAssumption
  <1>3. step \in [Policies -> [[Policies -> BOOLEAN] -> BOOLEAN]]
    <2>1. ASSUME NEW p \in Policies, NEW g \in [Policies -> BOOLEAN]
          PROVE  MeansStep(p, request, g) \in BOOLEAN
      BY DEF MeansStep
    <2> QED BY <2>1
  <1>4. ASSUME NEW p \in Policies, NEW g \in [Policies -> BOOLEAN],
               NEW h \in [Policies -> BOOLEAN], \A c \in kids[p] : g[c] = h[c]
        PROVE  step[p][g] = step[p][h]
    <2>1. MeansStep(p, request, g) = MeansStep(p, request, h)
      <3>1. CASE p = Nil \/ p.op \notin {"all", "any"}
        BY <3>1 DEF MeansStep
      <3>2. CASE p # Nil /\ p.op \in {"all", "any"}
        <4>1. \A i \in DOMAIN p.policies : p.policies[i] \in kids[p]
          BY <3>2 DEF Children
        <4>2. \A i \in DOMAIN p.policies : g[p.policies[i]] = h[p.policies[i]]
          BY <1>4, <4>1
        <4> QED BY <3>2, <4>2 DEF MeansStep
      <3> QED BY <3>1, <3>2
    <2> QED BY <2>1
  <1>5. PICK f \in [Policies -> BOOLEAN] : \A p \in Policies : f[p] = step[p][f]
    <2>1. PolicyDepth \in [Policies -> Nat]
      BY PolicyAssumption
    <2>2. \A p \in Policies : \A g, h \in [Policies -> BOOLEAN] :
              (\A c \in kids[p] : g[c] = h[c]) => step[p][g] = step[p][h]
      <3> HIDE DEF kids, step
      <3> QED BY <1>4
    <2> HIDE DEF kids, step
    <2>3. IsRecursion(Policies, BOOLEAN, PolicyDepth, kids, step)
      BY <1>2, <1>3, <2>1, <2>2 DEF IsRecursion
    <2> QED BY <2>3, RecursionOnDepth
  <1>6. f = [p \in Policies |-> MeansStep(p, request, f)]
    BY <1>5
  <1>7. F = [p \in Policies |-> MeansStep(p, request, F)]
    BY <1>6
  <1> HIDE DEF F
  <1> QED BY <1>1, <1>7

LEMMA MayFailDef ==
    \E mayFail :
        /\ \A p : MayFail(p) = mayFail[p]
        /\ mayFail = [p \in Policies |-> MayFailStep(p, mayFail)]
  <1> DEFINE F == CHOOSE mayFail : mayFail = [p \in Policies |-> MayFailStep(p, mayFail)]
             kids == [p \in Policies |-> Children(p)]
             step == [p \in Policies |-> [g \in [Policies -> BOOLEAN] |-> MayFailStep(p, g)]]
  <1>1. \A p : MayFail(p) = F[p]
    BY DEF MayFail
  <1>2. kids \in [Policies -> SUBSET Policies]
        /\ \A p \in Policies : \A c \in kids[p] : PolicyDepth[c] < PolicyDepth[p]
    BY PolicyAssumption
  <1>3. step \in [Policies -> [[Policies -> BOOLEAN] -> BOOLEAN]]
    <2>1. ASSUME NEW p \in Policies, NEW g \in [Policies -> BOOLEAN]
          PROVE  MayFailStep(p, g) \in BOOLEAN
      BY DEF MayFailStep
    <2> QED BY <2>1
  <1>4. ASSUME NEW p \in Policies, NEW g \in [Policies -> BOOLEAN],
               NEW h \in [Policies -> BOOLEAN], \A c \in kids[p] : g[c] = h[c]
        PROVE  step[p][g] = step[p][h]
    <2>1. MayFailStep(p, g) = MayFailStep(p, h)
      <3>1. CASE p = Nil \/ p.op \notin {"all", "any"}
        BY <3>1 DEF MayFailStep
      <3>2. CASE p # Nil /\ p.op \in {"all", "any"}
        <4>1. \A i \in DOMAIN p.policies : p.policies[i] \in kids[p]
          BY <3>2 DEF Children
        <4>2. \A i \in DOMAIN p.policies : g[p.policies[i]] = h[p.policies[i]]
          BY <1>4, <4>1
        <4> QED BY <3>2, <4>2 DEF MayFailStep
      <3> QED BY <3>1, <3>2
    <2> QED BY <2>1
  <1>5. PICK f \in [Policies -> BOOLEAN] : \A p \in Policies : f[p] = step[p][f]
    <2>1. PolicyDepth \in [Policies -> Nat]
      BY PolicyAssumption
    <2>2. \A p \in Policies : \A g, h \in [Policies -> BOOLEAN] :
              (\A c \in kids[p] : g[c] = h[c]) => step[p][g] = step[p][h]
      <3> HIDE DEF kids, step
      <3> QED BY <1>4
    <2> HIDE DEF kids, step
    <2>3. IsRecursion(Policies, BOOLEAN, PolicyDepth, kids, step)
      BY <1>2, <1>3, <2>1, <2>2 DEF IsRecursion
    <2> QED BY <2>3, RecursionOnDepth
  <1>6. f = [p \in Policies |-> MayFailStep(p, f)]
    BY <1>5
  <1>7. F = [p \in Policies |-> MayFailStep(p, F)]
    BY <1>6
  <1> HIDE DEF F
  <1> QED BY <1>1, <1>7

\* What AllOf and AnyOf say, given their children's outcomes.
LEMMA AllOfDecides ==
    ASSUME NEW n \in Nat, NEW outcomes \in [1 .. n -> Outcomes]
    PROVE  /\ AllOfOutcome(outcomes) = "accept" <=> \A i \in 1 .. n : outcomes[i] = "accept"
           /\ (\A i \in 1 .. n : outcomes[i] # "error") => AllOfOutcome(outcomes) # "error"
  <1>1. DOMAIN outcomes = 1 .. n
    OBVIOUS
  <1>2. \/ /\ \A i \in 1 .. n : outcomes[i] \notin {"reject", "error"}
           /\ AllOfOutcome(outcomes) = "accept"
        \/ \E i \in 1 .. n : /\ outcomes[i] \in {"reject", "error"}
                             /\ AllOfOutcome(outcomes) = outcomes[i]
    BY <1>1, FirstOfDecides DEF AllOfOutcome
  <1> QED BY <1>2 DEF Outcomes

LEMMA AnyOfDecides ==
    ASSUME NEW n \in Nat, NEW outcomes \in [1 .. n -> Outcomes]
    PROVE  /\ AnyOfOutcome(outcomes) = "accept" => \E i \in 1 .. n : outcomes[i] = "accept"
           /\ (\A i \in 1 .. n : outcomes[i] # "error") =>
                  /\ AnyOfOutcome(outcomes) # "error"
                  /\ (\E i \in 1 .. n : outcomes[i] = "accept") =>
                         AnyOfOutcome(outcomes) = "accept"
  <1>1. DOMAIN outcomes = 1 .. n
    OBVIOUS
  <1>2. \/ /\ \A i \in 1 .. n : outcomes[i] \notin {"accept", "error"}
           /\ AnyOfOutcome(outcomes) = "reject"
        \/ \E i \in 1 .. n : /\ outcomes[i] \in {"accept", "error"}
                             /\ AnyOfOutcome(outcomes) = outcomes[i]
    BY <1>1, FirstOfDecides DEF AnyOfOutcome
  <1> QED BY <1>2 DEF Outcomes

\* A leaf: what it says is what it means when its provider answers, and it
\* accepts nothing when the provider does not.
LEMMA LeafMeans ==
    ASSUME NEW p \in Policies, NEW request, p # Nil, p.op \notin {"all", "any"},
           NEW means, NEW mayFail
    PROVE  /\ EvaluateLeaf(p, request) = "accept" => MeansStep(p, request, means)
           /\ ~MayFailStep(p, mayFail) =>
                  /\ EvaluateLeaf(p, request) # "error"
                  /\ MeansStep(p, request, means) => EvaluateLeaf(p, request) = "accept"
  <1>1. CASE p.op \notin {"roots", "metadata", "status"}
    <2>1. EvaluateLeaf(p, request) = Decide(LeafAccepts(p, request))
      BY <1>1 DEF EvaluateLeaf
    <2>2. MeansStep(p, request, means) <=> LeafAccepts(p, request)
      BY <1>1, Zenon DEF MeansStep
    <2> QED BY <2>1, <2>2 DEF Decide
  <1>2. CASE p.op \in {"roots", "metadata", "status"}
    <2>1. p.provider \in {"nil", "failing", "up"}
      BY <1>2, PolicyAssumption
    <2>2. MeansStep(p, request, means) <=> p.provider = "up" /\ LeafAccepts(p, request)
      BY <1>2 DEF MeansStep
    <2>3. MayFailStep(p, mayFail) <=> p.provider # "up"
      BY <1>2 DEF MayFailStep
    <2>4. LeafAccepts(p, request) => p.op = "metadata" \/ HasX5C(request)
      BY <1>2 DEF LeafAccepts
    <2> QED BY <1>2, <2>1, <2>2, <2>3, <2>4 DEF EvaluateLeaf, Decide
  <1> QED BY <1>1, <1>2

\* Evaluate accepts no more than a policy means, and exactly that when nothing
\* in the policy can fail.
LEMMA EvaluateMeans ==
    ASSUME NEW policy \in Policies, NEW request
    PROVE  /\ Evaluate(policy, request) = "accept" => Means(policy, request)
           /\ ~MayFail(policy) /\ Means(policy, request) =>
                  Evaluate(policy, request) = "accept"
  <1>1. PICK outcome : /\ \A p : Evaluate(p, request) = outcome[p]
                       /\ outcome = [p \in Policies |-> EvaluateStep(p, request, outcome)]
    BY EvaluateDef
  <1>2. PICK means : /\ \A p : Means(p, request) = means[p]
                     /\ means = [p \in Policies |-> MeansStep(p, request, means)]
    BY MeansDef
  <1>3. PICK mayFail : /\ \A p : MayFail(p) = mayFail[p]
                       /\ mayFail = [p \in Policies |-> MayFailStep(p, mayFail)]
    BY MayFailDef
  <1>4. \A p \in Policies : /\ outcome[p] = EvaluateStep(p, request, outcome)
                            /\ means[p] = MeansStep(p, request, means)
                            /\ mayFail[p] = MayFailStep(p, mayFail)
    BY <1>1, <1>2, <1>3
  <1> DEFINE Says(p) == /\ outcome[p] \in Outcomes
                        /\ outcome[p] = "accept" => means[p]
                        /\ ~mayFail[p] => /\ outcome[p] # "error"
                                          /\ means[p] => outcome[p] = "accept"
             T == {p \in Policies : Says(p)}
  <1>5. ASSUME NEW p \in Policies, \A q \in Policies : PolicyDepth[q] < PolicyDepth[p] => q \in T
        PROVE  Says(p)
    <2>1. CASE p = Nil
      BY <1>4, <2>1 DEF EvaluateStep, MayFailStep, Outcomes
    <2>2. CASE p # Nil /\ p.op \notin {"all", "any"}
      <3>1. outcome[p] = EvaluateLeaf(p, request)
        BY <1>4, <2>2 DEF EvaluateStep
      <3> QED BY <1>4, <2>2, <3>1, LeafMeans, LeafOutcome
    <2>3. CASE p # Nil /\ p.op \in {"all", "any"}
      <3> DEFINE n == Len(p.policies)
                 outcomes == [i \in DOMAIN p.policies |-> outcome[p.policies[i]]]
      <3>1. /\ n \in Nat /\ DOMAIN p.policies = 1 .. n
            /\ p.policies = <<>> <=> n = 0
            /\ \A i \in 1 .. n : Says(p.policies[i])
        BY <1>5, <2>3, ChildrenListed
      <3>2. /\ outcomes \in [1 .. n -> Outcomes]
            /\ \A i \in 1 .. n : outcomes[i] = outcome[p.policies[i]]
        BY <3>1
      <3>3. mayFail[p] <=> p.policies = <<>> \/ \E i \in 1 .. n : mayFail[p.policies[i]]
        BY <1>4, <2>3, <3>1 DEF MayFailStep
      <3>4. CASE p.policies = <<>>
        <4>1. outcome[p] = "error"
          BY <1>4, <2>3, <3>4 DEF EvaluateStep
        <4> QED BY <3>3, <3>4, <4>1 DEF Outcomes
      <3>5. CASE p.policies # <<>> /\ p.op = "all"
        <4>1. outcome[p] = AllOfOutcome(outcomes)
          BY <1>4, <2>3, <3>5 DEF EvaluateStep
        <4>2. means[p] <=> \A i \in 1 .. n : means[p.policies[i]]
          BY <1>4, <2>3, <3>1, <3>5 DEF MeansStep
        <4>3. AllOfOutcome(outcomes) \in Outcomes
          <5> HIDE DEF outcomes, n
          <5>1. "accept" \in Outcomes
            BY DEF Outcomes
          <5> QED BY <3>1, <3>2, <5>1, FirstOfOutcome DEF AllOfOutcome
        <4> HIDE DEF outcomes, n
        <4>4. /\ outcome[p] = "accept" <=> \A i \in 1 .. n : outcomes[i] = "accept"
              /\ (\A i \in 1 .. n : outcomes[i] # "error") => outcome[p] # "error"
          BY <3>1, <3>2, <4>1, AllOfDecides
        <4> QED BY <3>1, <3>2, <3>3, <3>5, <4>1, <4>2, <4>3, <4>4
      <3>6. CASE p.policies # <<>> /\ p.op = "any"
        <4>1. outcome[p] = AnyOfOutcome(outcomes)
          BY <1>4, <2>3, <3>6 DEF EvaluateStep
        <4>2. means[p] <=> \E i \in 1 .. n : means[p.policies[i]]
          BY <1>4, <2>3, <3>1, <3>6 DEF MeansStep
        <4>3. AnyOfOutcome(outcomes) \in Outcomes
          <5> HIDE DEF outcomes, n
          <5>1. "reject" \in Outcomes
            BY DEF Outcomes
          <5> QED BY <3>1, <3>2, <5>1, FirstOfOutcome DEF AnyOfOutcome
        <4> HIDE DEF outcomes, n
        <4>4. /\ outcome[p] = "accept" => \E i \in 1 .. n : outcomes[i] = "accept"
              /\ (\A i \in 1 .. n : outcomes[i] # "error") =>
                     /\ outcome[p] # "error"
                     /\ (\E i \in 1 .. n : outcomes[i] = "accept") => outcome[p] = "accept"
          BY <3>1, <3>2, <4>1, AnyOfDecides
        <4> QED BY <3>1, <3>2, <3>3, <3>6, <4>1, <4>2, <4>3, <4>4
      <3> QED BY <2>3, <3>4, <3>5, <3>6
    <2> QED BY <2>1, <2>2, <2>3
  <1>6. Policies \subseteq T
    <2>1. ASSUME NEW p \in Policies, \A q \in Policies : PolicyDepth[q] < PolicyDepth[p] => q \in T
          PROVE  p \in T
      BY <1>5, <2>1
    <2> HIDE DEF T
    <2>2. Inductive(Policies, PolicyDepth, T)
      BY <2>1 DEF Inductive
    <2> QED BY <2>2, DepthInduction, PolicyAssumption
  <1>7. Says(policy)
    BY <1>6
  <1> QED BY <1>1, <1>2, <1>3, <1>7

-----------------------------------------------------------------------------
(***************************************************************************)
(* What the trial division of the TPM format computes.                     *)
(***************************************************************************)

TrialStep(e, divisor, trial) ==
    \/ divisor > e \div divisor
    \/ e % divisor # 0 /\ trial[divisor + 2]

\* The trial division satisfies its recursive definition: it ends, at the
\* latest when the divisor exceeds the exponent.
LEMMA TrialDef ==
    ASSUME NEW e \in Nat
    PROVE  \E trial :
               /\ PrimeExponent(e) <=> e >= 3 /\ e % 2 = 1 /\ trial[3]
               /\ trial = [divisor \in Nat |-> TrialStep(e, divisor, trial)]
  <1> DEFINE F == CHOOSE trial : trial = [divisor \in Nat |-> TrialStep(e, divisor, trial)]
             depth == [d \in Nat |-> IF d <= e THEN e + 1 - d ELSE 0]
             kids == [d \in Nat |-> IF d <= e THEN {d + 2} ELSE {}]
             step == [d \in Nat |-> [g \in [Nat -> BOOLEAN] |-> TrialStep(e, d, g)]]
  <1>1. PrimeExponent(e) <=> e >= 3 /\ e % 2 = 1 /\ F[3]
    BY Zenon DEF PrimeExponent, TrialStep
  <1>2. depth \in [Nat -> Nat] /\ kids \in [Nat -> SUBSET Nat]
        /\ \A d \in Nat : \A c \in kids[d] : depth[c] < depth[d]
    OBVIOUS
  <1>3. step \in [Nat -> [[Nat -> BOOLEAN] -> BOOLEAN]]
    <2>1. ASSUME NEW d \in Nat, NEW g \in [Nat -> BOOLEAN]
          PROVE  TrialStep(e, d, g) \in BOOLEAN
      BY DEF TrialStep
    <2> QED BY <2>1
  <1>4. ASSUME NEW d \in Nat, NEW g \in [Nat -> BOOLEAN],
               NEW h \in [Nat -> BOOLEAN], \A c \in kids[d] : g[c] = h[c]
        PROVE  step[d][g] = step[d][h]
    <2>1. TrialStep(e, d, g) = TrialStep(e, d, h)
      <3>1. CASE d <= e
        <4>1. g[d + 2] = h[d + 2]
          BY <1>4, <3>1
        <4> QED BY <4>1 DEF TrialStep
      <3>2. CASE d > e
        <4>1. d > e \div d
          BY <3>2
        <4> QED BY <4>1 DEF TrialStep
      <3> QED BY <3>1, <3>2
    <2> QED BY <2>1
  <1>5. PICK f \in [Nat -> BOOLEAN] : \A d \in Nat : f[d] = step[d][f]
    <2>1. \A d \in Nat : \A g, h \in [Nat -> BOOLEAN] :
              (\A c \in kids[d] : g[c] = h[c]) => step[d][g] = step[d][h]
      <3> HIDE DEF kids, step
      <3> QED BY <1>4
    <2> HIDE DEF kids, step, depth
    <2>2. IsRecursion(Nat, BOOLEAN, depth, kids, step)
      BY <1>2, <1>3, <2>1 DEF IsRecursion
    <2> QED BY <2>2, RecursionOnDepth
  <1>6. f = [d \in Nat |-> TrialStep(e, d, f)]
    BY <1>5
  <1>7. F = [d \in Nat |-> TrialStep(e, d, F)]
    BY <1>6
  <1> HIDE DEF F
  <1> QED BY <1>1, <1>7

\* Arithmetic of division.
LEMMA SquareQuotient ==
    ASSUME NEW e \in Nat, NEW k \in Nat, k > 0, k * k <= e
    PROVE  ~(k > e \div k)
  OBVIOUS

LEMMA DivisorProduct ==
    ASSUME NEW e \in Nat, NEW d \in Nat, d > 0, e % d = 0
    PROVE  e \div d \in Nat /\ e = d * (e \div d)
  OBVIOUS

LEMMA ProductDivisible ==
    ASSUME NEW k \in Nat, NEW m \in Nat, k > 0
    PROVE  (k * m) % k = 0
  OBVIOUS

\* An exponent that passes has no divisor up to its square root.
LEMMA NoSmallDivisor ==
    ASSUME NEW e \in Nat, PrimeExponent(e), NEW k \in Nat, k >= 2, k * k <= e
    PROVE  e % k # 0
  <1>1. PICK trial : /\ e >= 3 /\ e % 2 = 1 /\ trial[3]
                     /\ trial = [divisor \in Nat |-> TrialStep(e, divisor, trial)]
    BY TrialDef
  <1>2. \A d \in Nat : trial[d] => d > e \div d \/ (e % d # 0 /\ trial[d + 2])
    BY <1>1 DEF TrialStep
  <1>3. ASSUME NEW d \in Nat, d >= 3, trial[d], d * d <= e
        PROVE  e % d # 0 /\ trial[d + 2]
    <2>1. ~(d > e \div d)
      BY <1>3, SquareQuotient
    <2> QED BY <1>2, <1>3, <2>1
  <1> DEFINE T == {h \in Nat : (2 * h + 3) * (2 * h + 3) <= e => trial[2 * h + 3]}
  <1>4. \A h \in Nat : h \in T
    <2>1. 0 \in T
      BY <1>1
    <2>2. ASSUME NEW h \in Nat, h \in T PROVE h + 1 \in T
      <3> DEFINE d == 2 * h + 3
      <3>1. d \in Nat /\ d >= 3 /\ 2 * (h + 1) + 3 = d + 2
        OBVIOUS
      <3>2. d * d <= e => trial[d]
        BY <2>2
      <3> HIDE DEF d
      <3>3. (d + 2) * (d + 2) = d * d + 4 * d + 4 /\ d * d \in Nat
        BY <3>1
      <3>4. (d + 2) * (d + 2) <= e => d * d <= e
        BY <3>1, <3>3
      <3>5. (d + 2) * (d + 2) <= e => trial[d + 2]
        BY <1>3, <3>1, <3>2, <3>4
      <3> QED BY <3>1, <3>5
    <2> HIDE DEF T
    <2>3. Nat \subseteq T
      BY <2>1, <2>2, SetInduction
    <2> QED BY <2>3
  <1>5. CASE k % 2 = 1
    <2>1. k \div 2 \in Nat /\ k = 2 * (k \div 2) + 1
      BY <1>5
    <2>2. PICK h \in Nat : k = 2 * h + 3
      <3>1. (k \div 2) - 1 \in Nat /\ k = 2 * ((k \div 2) - 1) + 3
        BY <2>1
      <3> QED BY <3>1
    <2>3. h \in T
      BY <1>4
    <2>4. trial[k] /\ k >= 3
      BY <2>2, <2>3
    <2> QED BY <1>3, <2>4
  <1>6. CASE k % 2 # 1
    <2> SUFFICES ASSUME e % k = 0 PROVE FALSE
      OBVIOUS
    <2>1. k % 2 = 0
      BY <1>6
    <2>2. PICK h \in Nat : k = 2 * h
      BY <2>1, DivisorProduct
    <2>3. PICK m \in Nat : e = k * m
      BY DivisorProduct
    <2>4. e = 2 * (h * m) /\ h * m \in Nat
      BY <2>2, <2>3
    <2> HIDE DEF T
    <2>5. e % 2 = 0
      BY <2>4, ProductDivisible
    <2> QED BY <1>1, <2>5
  <1> QED BY <1>5, <1>6

\* validTPMRSAExponent lets primes pass only: an odd number above one, when
\* nothing between one and the number divides it.
THEOREM PrimeExponentIsPrime ==
    ASSUME NEW e \in Nat, PrimeExponent(e)
    PROVE  e > 2 /\ \A d \in 2 .. e - 1 : e % d # 0
  <1>1. e >= 3
    BY TrialDef
  <1>2. ASSUME NEW d \in 2 .. e - 1, e % d = 0 PROVE FALSE
    <2>1. PICK m \in Nat : e = d * m
      BY <1>2, DivisorProduct
    <2>2. m >= 2
      <3>1. m # 0 /\ m # 1
        BY <1>1, <2>1
      <3> QED BY <3>1
    <2>3. CASE d * d <= e
      BY <1>2, <2>3, NoSmallDivisor
    <2>4. CASE ~(d * d <= e)
      <3>1. m < d
        <4> SUFFICES ASSUME m >= d PROVE FALSE
          OBVIOUS
        <4>1. d * m >= d * d
          OBVIOUS
        <4> QED BY <2>1, <2>4, <4>1
      <3>2. m * m <= e
        <4>1. m * m <= d * m
          BY <3>1
        <4> QED BY <2>1, <4>1
      <3>3. e = m * d
        BY <2>1
      <3>4. e % m = 0
        BY <2>2, <3>3, ProductDivisible
      <3> QED BY <2>2, <3>2, <3>4, NoSmallDivisor
    <2> QED BY <2>3, <2>4
  <1>3. \A d \in 2 .. e - 1 : e % d # 0
    BY <1>2, Zenon
  <1> QED BY <1>1, <1>3

-----------------------------------------------------------------------------
(***************************************************************************)
(* The inductive invariant.                                                *)
(***************************************************************************)

\* The statement verified for the ceremony at hand, some time since the start.
Vouched(object) ==
    \E t \in Start .. now : FormatVerifies(Request(input.ceremony, object), t, TRUE)

\* What the sub-statements of the inputs may result in.
SubStatements ==
    UNION {{i.object.statement.subs[k] : k \in DOMAIN i.object.statement.subs} :
               i \in {i \in Inputs : i.object.format = "compound"}}
SubResults == {FormatResult(Request(c, o)) : c \in Ceremonies, o \in SubStatements}

IsCompound == input.object.format = "compound"

\* The format has verified the statement: the policy is next, or has agreed.
Verified == stage = "policy" \/ Accepted

TypeInv ==
    /\ stage \in {"idle", "verify", "statement", "sub", "policy", "done"}
    /\ now \in Nat /\ Start <= now
    /\ live \in BOOLEAN
    /\ next \in Nat
    /\ results \in Seq(SubResults)
    /\ stage = "idle" => live /\ input = Absent
    /\ stage # "idle" => input \in Inputs
    /\ Accepted => stage = "done"
    /\ stage \in {"idle", "verify"} => next = 1 /\ results = <<>> /\ counted = {}
    /\ stage \notin {"idle", "done"} \/ Accepted => input.object.format \in Registered
    /\ stage \in {"statement", "sub"} => IsCompound

\* The loop over the sub-statements counts each one that verified, once.
LoopInv ==
    (stage \in {"statement", "sub"} \/ (Verified /\ IsCompound)) =>
        /\ SubStatementsParse(input.object.statement)
        /\ ThresholdValid(input.threshold, Len(Subs))
        /\ next \in 1 .. Len(Subs) + 1
        /\ counted \subseteq 1 .. next - 1
        /\ IsFiniteSet(counted) /\ Cardinality(counted) = Len(results)
        /\ \A i \in counted : Subs[i].format \in SubRegistered /\ Vouched(Subs[i])

\* In its body the next statement has a verifier; after it none is left and
\* there are enough.
SubInv == stage = "sub" => next <= Len(Subs) /\ Subs[next].format \in SubRegistered

VerifiedInv ==
    Verified =>
        IF IsCompound
        THEN /\ next = Len(Subs) + 1
             /\ Len(results) >= RequiredSuccesses(input.threshold, Len(Subs))
        ELSE Vouched(input.object)

\* Where the context was cancelled: the loop has gone no further.
CancelInv ==
    ~live =>
        /\ stage \in {"verify", "statement"} => doneAt = next
        /\ stage = "sub" => doneAt = next + 1
        /\ Verified /\ IsCompound => doneAt = next

\* The policy's answer is the verdict.
PolicyInv ==
    (stage = "done" /\ verdict \in {"accepted", "ErrRejectedAttestationPolicy"}) =>
        (Accepted <=> input.policy # Nil /\ Evaluate(input.policy, TrustRequest) = "accept")

AttInv == TypeInv /\ LoopInv /\ SubInv /\ VerifiedInv /\ CancelInv /\ PolicyInv

\* A verifier that accepts would have accepted with a live context.
LEMMA VerifiesLive ==
    ASSUME NEW req, req.format \in Formats, NEW t, NEW l \in BOOLEAN,
           FormatVerifies(req, t, l)
    PROVE  FormatVerifies(req, t, TRUE)
  <1>1. CASE l
    BY <1>1
  <1>2. CASE ~l
    <2>1. \A alg, key, signed, signature : ~VerifySignature(alg, key, signed, signature, l)
      BY <1>2 DEF VerifySignature
    <2>2. /\ ~PackedVerifies(req, l) /\ ~FidoU2FVerifies(req, l)
          /\ ~AndroidKeyVerifies(req, l) /\ ~TPMVerifies(req, l)
      BY <2>1 DEF PackedVerifies, PackedX5C, PackedSelf, FidoU2FVerifies,
                  AndroidKeyVerifies, TPMVerifies
    <2> QED BY <2>2 DEF FormatVerifies, Formats
  <1> QED BY <1>1, <1>2

\* What has verified stays verified.
LEMMA VouchedStays ==
    ASSUME NEW object, Vouched(object), now \in Nat, now' \in Nat, Start \in Nat,
           now <= now', input' = input
    PROVE  \E t \in Start .. now' : FormatVerifies(Request(input'.ceremony, object), t, TRUE)
  <1>1. PICK t \in Start .. now : FormatVerifies(Request(input.ceremony, object), t, TRUE)
    BY DEF Vouched
  <1>2. t \in Start .. now'
    OBVIOUS
  <1> QED BY <1>1, <1>2, Zenon

\* The sub-statements of a compound input, as a list.
LEMMA SubsListed ==
    ASSUME input \in Inputs, IsCompound
    PROVE  /\ Len(Subs) \in Nat
           /\ DOMAIN Subs = 1 .. Len(Subs)
           /\ \A i \in 1 .. Len(Subs) : FormatResult(SubRequest(i)) \in SubResults
  <1>1. Subs \in Seq({Subs[k] : k \in DOMAIN Subs})
    BY InputsAssumption DEF IsCompound, Subs
  <1>2. Len(Subs) \in Nat /\ DOMAIN Subs = 1 .. Len(Subs)
    BY <1>1, LenProperties
  <1>3. \A i \in 1 .. Len(Subs) : Subs[i] \in SubStatements
    BY <1>2 DEF IsCompound, Subs, SubStatements
  <1>4. input.ceremony \in Ceremonies
    BY DEF Ceremonies
  <1> QED BY <1>2, <1>3, <1>4 DEF SubRequest, SubResults

LEMMA AttInvInit == Init => AttInv
  <1> SUFFICES ASSUME Init PROVE AttInv
    OBVIOUS
  <1>1. TypeInv
    BY AttestationAssumption DEF Init, TypeInv, Accepted
  <1>2. LoopInv /\ SubInv /\ VerifiedInv /\ CancelInv /\ PolicyInv
    BY DEF Init, LoopInv, SubInv, VerifiedInv, CancelInv, PolicyInv, Verified, Accepted
  <1> QED BY <1>1, <1>2 DEF AttInv

\* A refusal rests on nothing.
LEMMA FailInv ==
    ASSUME AttInv, NEW error \in {"ErrInvalidAttestation"}, Fail(error), UNCHANGED Context,
           stage # "idle"
    PROVE  AttInv'
  <1>1. TypeInv'
    BY DEF AttInv, TypeInv, Fail, Context, Accepted
  <1>2. ~Verified' /\ ~(stage' \in {"verify", "statement", "sub"})
    BY DEF Fail, Verified, Accepted
  <1>3. LoopInv' /\ SubInv' /\ VerifiedInv' /\ CancelInv' /\ PolicyInv'
    BY <1>2 DEF Fail, LoopInv, SubInv, VerifiedInv, CancelInv, PolicyInv
  <1> QED BY <1>1, <1>3 DEF AttInv

LEMMA PresentInv ==
    ASSUME AttInv, NEW presented \in Inputs, Present(presented)
    PROVE  AttInv'
  <1>1. TypeInv'
    BY DEF AttInv, TypeInv, Present, Context, Accepted
  <1>2. ~Verified' /\ stage' \in {"verify", "done"} /\ live'
    BY DEF AttInv, TypeInv, Present, Context, Verified, Accepted
  <1>3. LoopInv' /\ SubInv' /\ VerifiedInv' /\ CancelInv'
    BY <1>2 DEF LoopInv, SubInv, VerifiedInv, CancelInv
  <1>4. PolicyInv'
    BY DEF Present, PolicyInv
  <1> QED BY <1>1, <1>3, <1>4 DEF AttInv

LEMMA VerifyStatementInv ==
    ASSUME AttInv, VerifyStatement
    PROVE  AttInv'
  <1> DEFINE req == Request(input.ceremony, input.object)
  <1>1. CASE ~FormatVerifies(req, now, live)
    BY <1>1, FailInv DEF VerifyStatement
  <1>2. CASE FormatVerifies(req, now, live)
    <2>1. /\ stage = "verify" /\ stage' = "policy"
          /\ UNCHANGED <<input, next, results, counted, verdict, live, doneAt, now>>
          /\ input.object.format # "compound"
      BY <1>2 DEF VerifyStatement, Context
    <2>2. TypeInv'
      BY <2>1 DEF AttInv, TypeInv, Accepted, IsCompound
    <2>3. ~IsCompound' /\ ~IsCompound
      BY <2>1 DEF IsCompound
    <2>4. Vouched(input.object)
      <3>1. req.format = input.object.format
        BY DEF Request
      <3>2. req.format \in Formats
        BY <2>1, <3>1, RegistryAssumption DEF AttInv, TypeInv
      <3>3. now \in Start .. now /\ live \in BOOLEAN
        BY AttestationAssumption DEF AttInv, TypeInv
      <3>4. FormatVerifies(req, now, TRUE)
        BY <1>2, <3>2, <3>3, VerifiesLive
      <3> QED BY <3>3, <3>4 DEF Vouched
    <2>5. VerifiedInv'
      BY <2>1, <2>3, <2>4 DEF VerifiedInv, Vouched
    <2>6. LoopInv' /\ SubInv' /\ CancelInv' /\ PolicyInv'
      BY <2>1, <2>3 DEF LoopInv, SubInv, CancelInv, PolicyInv
    <2> QED BY <2>2, <2>5, <2>6 DEF AttInv
  <1> QED BY <1>1, <1>2

LEMMA BeginCompoundInv ==
    ASSUME AttInv, BeginCompound
    PROVE  AttInv'
  <1>1. CASE ~(/\ SubStatementsParse(input.object.statement)
               /\ ThresholdValid(input.threshold, Len(Subs)))
    BY <1>1, FailInv DEF BeginCompound
  <1>2. CASE /\ SubStatementsParse(input.object.statement)
             /\ ThresholdValid(input.threshold, Len(Subs))
    <2>1. /\ stage = "verify" /\ stage' = "statement" /\ IsCompound
          /\ UNCHANGED <<input, next, results, counted, verdict, result, live, doneAt, now>>
      BY <1>2 DEF BeginCompound, Context, IsCompound
    <2>2. TypeInv'
      BY <2>1 DEF AttInv, TypeInv, Accepted, IsCompound
    <2>3. input \in Inputs /\ next = 1 /\ results = <<>> /\ counted = {} /\ ~Accepted
      BY <2>1 DEF AttInv, TypeInv
    <2>4. LoopInv'
      <3>1. IsFiniteSet({}) /\ Cardinality({}) = 0 /\ Len(<<>>) = 0
        BY FS_EmptySet
      <3>2. 1 \in 1 .. Len(Subs) + 1
        BY <2>1, <2>3, SubsListed
      <3> QED BY <1>2, <2>1, <2>3, <3>1, <3>2 DEF LoopInv, Subs
    <2>5. ~Verified' /\ SubInv' /\ PolicyInv'
      BY <2>1, <2>3 DEF Verified, Accepted, SubInv, PolicyInv
    <2>6. VerifiedInv' /\ CancelInv'
      BY <2>1, <2>5 DEF AttInv, VerifiedInv, CancelInv
    <2> QED BY <2>2, <2>4, <2>5, <2>6 DEF AttInv
  <1> QED BY <1>1, <1>2

LEMMA NextStatementInv ==
    ASSUME AttInv, NextStatement
    PROVE  AttInv'
  <1>0. /\ stage = "statement" /\ next <= Len(Subs) /\ UNCHANGED <<live, doneAt, now>>
        /\ input \in Inputs /\ IsCompound /\ ~Accepted /\ next \in Nat
        /\ Len(Subs) \in Nat
    BY SubsListed DEF NextStatement, AttInv, TypeInv, Context
  <1>1. CASE ~live \/ Subs[next].format = "compound"
    BY <1>1, FailInv DEF NextStatement
  <1>2. CASE live /\ UNCHANGED <<input, results, counted, result, verdict>>
             /\ \/ stage' = stage /\ next' = next + 1
                \/ /\ stage' = "sub" /\ next' = next
                   /\ Subs[next].format \in SubRegistered
    <2>1. TypeInv'
      BY <1>0, <1>2 DEF AttInv, TypeInv, Accepted, IsCompound
    <2>2. Subs' = Subs /\ ~Verified' /\ live'
      BY <1>0, <1>2 DEF Subs, Verified, Accepted
    <2>3. LoopInv'
      <3>1. /\ SubStatementsParse(input.object.statement)
            /\ ThresholdValid(input.threshold, Len(Subs))
            /\ next \in 1 .. Len(Subs) + 1
            /\ counted \subseteq 1 .. next - 1
            /\ IsFiniteSet(counted) /\ Cardinality(counted) = Len(results)
            /\ \A i \in counted : Subs[i].format \in SubRegistered /\ Vouched(Subs[i])
        BY <1>0 DEF AttInv, LoopInv
      <3>2. next' \in 1 .. Len(Subs) + 1 /\ counted \subseteq 1 .. next' - 1
        BY <1>0, <1>2, <3>1
      <3>3. \A i \in counted : Vouched(Subs[i])'
        BY <1>0, <1>2, <2>2, <3>1 DEF Vouched
      <3> QED BY <1>2, <2>2, <3>1, <3>2, <3>3 DEF LoopInv
    <2>4. SubInv' /\ VerifiedInv' /\ CancelInv' /\ PolicyInv'
      BY <1>0, <1>2, <2>2 DEF SubInv, VerifiedInv, CancelInv, PolicyInv
    <2> QED BY <2>1, <2>3, <2>4 DEF AttInv
  <1> QED BY <1>1, <1>2 DEF NextStatement

LEMMA VerifySubStatementInv ==
    ASSUME AttInv, VerifySubStatement
    PROVE  AttInv'
  <1>1. /\ stage = "sub" /\ stage' = "statement" /\ next' = next + 1
        /\ UNCHANGED <<input, result, verdict, live, doneAt, now>>
        /\ input \in Inputs /\ IsCompound /\ ~Accepted /\ next \in Nat
        /\ now \in Nat /\ Start <= now /\ live \in BOOLEAN
        /\ Len(Subs) \in Nat /\ next <= Len(Subs) /\ Subs[next].format \in SubRegistered
    BY SubsListed DEF VerifySubStatement, AttInv, TypeInv, SubInv, Context
  <1>2. Subs' = Subs /\ ~Verified' /\ IsCompound'
    BY <1>1 DEF Subs, Verified, Accepted, IsCompound
  <1>3. /\ SubStatementsParse(input.object.statement)
        /\ ThresholdValid(input.threshold, Len(Subs))
        /\ next \in 1 .. Len(Subs) + 1
        /\ counted \subseteq 1 .. next - 1
        /\ IsFiniteSet(counted) /\ Cardinality(counted) = Len(results)
        /\ \A i \in counted : Subs[i].format \in SubRegistered /\ Vouched(Subs[i])
        /\ results \in Seq(SubResults)
    BY <1>1 DEF AttInv, LoopInv, TypeInv
  <1>4. next' \in 1 .. Len(Subs) + 1 /\ next \in 1 .. next' - 1
        /\ counted \subseteq 1 .. next' - 1 /\ next \notin counted
    BY <1>1, <1>3
  <1>5. /\ results' \in Seq(SubResults)
        /\ counted' \subseteq counted \cup {next}
        /\ IsFiniteSet(counted') /\ Cardinality(counted') = Len(results')
        /\ \A i \in counted' : Subs[i].format \in SubRegistered /\ Vouched(Subs[i])
    <2>1. CASE ~FormatVerifies(SubRequest(next), now, live)
      BY <1>3, <2>1 DEF VerifySubStatement
    <2>2. CASE FormatVerifies(SubRequest(next), now, live)
      <3>1. /\ results' = Append(results, FormatResult(SubRequest(next)))
            /\ counted' = counted \cup {next}
        BY <2>2 DEF VerifySubStatement
      <3>2. FormatResult(SubRequest(next)) \in SubResults
        BY <1>1, <1>3, SubsListed
      <3>3. results' \in Seq(SubResults) /\ Len(results') = Len(results) + 1
        BY <1>3, <3>1, <3>2, AppendProperties
      <3>4. IsFiniteSet(counted') /\ Cardinality(counted') = Cardinality(counted) + 1
        BY <1>3, <1>4, <3>1, FS_AddElement
      <3>5. Vouched(Subs[next])
        <4>1. SubRequest(next).format \in Formats
          BY <1>1, RegistryAssumption DEF SubRequest, Request
        <4>2. FormatVerifies(SubRequest(next), now, TRUE)
          BY <1>1, <2>2, <4>1, VerifiesLive
        <4>3. now \in Start .. now
          BY <1>1, AttestationAssumption
        <4> QED BY <4>2, <4>3 DEF Vouched, SubRequest
      <3> QED BY <1>1, <1>3, <3>1, <3>3, <3>4, <3>5
    <2> QED BY <2>1, <2>2
  <1>6. TypeInv'
    BY <1>1, <1>2, <1>5 DEF TypeInv, AttInv, Accepted
  <1>7. LoopInv'
    <2>1. counted' \subseteq 1 .. next' - 1
      BY <1>4, <1>5
    <2>2. \A i \in counted' : Vouched(Subs[i])'
      BY <1>1, <1>2, <1>5 DEF Vouched
    <2> QED BY <1>1, <1>2, <1>3, <1>4, <1>5, <2>1, <2>2 DEF LoopInv
  <1>8. SubInv' /\ VerifiedInv' /\ PolicyInv'
    BY <1>1, <1>2 DEF SubInv, VerifiedInv, PolicyInv
  <1>9. CancelInv'
    BY <1>1, <1>2 DEF AttInv, CancelInv
  <1> QED BY <1>6, <1>7, <1>8, <1>9 DEF AttInv

LEMMA FinishCompoundInv ==
    ASSUME AttInv, FinishCompound
    PROVE  AttInv'
  <1>0. /\ stage = "statement" /\ next > Len(Subs) /\ UNCHANGED <<live, doneAt, now>>
        /\ input \in Inputs /\ IsCompound /\ ~Accepted /\ next \in Nat
        /\ Len(Subs) \in Nat
    BY SubsListed DEF FinishCompound, AttInv, TypeInv, Context
  <1>1. CASE ~(Len(results) >= RequiredSuccesses(input.threshold, Len(Subs)))
    BY <1>0, <1>1, FailInv DEF FinishCompound
  <1>2. CASE Len(results) >= RequiredSuccesses(input.threshold, Len(Subs))
    <2>1. stage' = "policy" /\ UNCHANGED <<input, next, results, counted, verdict>>
      BY <1>2 DEF FinishCompound
    <2>2. Subs' = Subs /\ IsCompound' /\ Verified' /\ ~Accepted'
      BY <1>0, <2>1 DEF Subs, IsCompound, Verified, Accepted
    <2>3. TypeInv'
      BY <1>0, <2>1, <2>2 DEF AttInv, TypeInv
    <2>4. LoopInv'
      BY <1>0, <2>1, <2>2 DEF AttInv, LoopInv, Vouched
    <2>5. next = Len(Subs) + 1
      BY <1>0 DEF AttInv, LoopInv
    <2>6. VerifiedInv'
      BY <1>2, <2>1, <2>2, <2>5 DEF VerifiedInv
    <2>7. SubInv' /\ PolicyInv' /\ CancelInv'
      BY <1>0, <2>1, <2>2 DEF AttInv, SubInv, PolicyInv, CancelInv
    <2> QED BY <2>3, <2>4, <2>6, <2>7 DEF AttInv
  <1> QED BY <1>1, <1>2

LEMMA EvaluateTrustInv ==
    ASSUME AttInv, EvaluateTrust
    PROVE  AttInv'
  <1>1. /\ stage = "policy" /\ stage' = "done"
        /\ verdict' = IF input.policy # Nil /\ Evaluate(input.policy, TrustRequest) = "accept"
                      THEN "accepted" ELSE "ErrRejectedAttestationPolicy"
        /\ UNCHANGED <<input, next, results, counted, result, live, doneAt, now>>
    BY DEF EvaluateTrust, Context
  <1>2. Verified /\ Subs' = Subs /\ IsCompound' = IsCompound /\ TrustRequest' = TrustRequest
    BY <1>1 DEF Verified, Subs, IsCompound, TrustRequest
  <1>3. TypeInv'
    BY <1>1 DEF AttInv, TypeInv, Accepted
  <1>4. LoopInv'
    BY <1>1, <1>2 DEF AttInv, LoopInv, Vouched
  <1>5. VerifiedInv'
    BY <1>1, <1>2 DEF AttInv, VerifiedInv, Vouched
  <1>6. SubInv' /\ CancelInv'
    BY <1>1, <1>2 DEF AttInv, SubInv, CancelInv
  <1>7. PolicyInv'
    BY <1>1, <1>2 DEF PolicyInv, Accepted
  <1> QED BY <1>3, <1>4, <1>5, <1>6, <1>7 DEF AttInv

LEMMA ReturnInv ==
    ASSUME AttInv, Return
    PROVE  AttInv'
  <1>1. TypeInv'
    BY DEF AttInv, TypeInv, Return, Accepted
  <1>2. LoopInv' /\ SubInv' /\ VerifiedInv' /\ CancelInv' /\ PolicyInv'
    BY DEF Return, LoopInv, SubInv, VerifiedInv, CancelInv, PolicyInv, Verified, Accepted
  <1> QED BY <1>1, <1>2 DEF AttInv

LEMMA CancelledInv ==
    ASSUME AttInv, Cancel
    PROVE  AttInv'
  <1>1. /\ live /\ stage \in {"verify", "statement", "sub", "policy"}
        /\ doneAt' = IF stage = "sub" THEN next + 1 ELSE next
        /\ live' = FALSE
        /\ UNCHANGED <<stage, input, next, results, counted, result, verdict, now>>
    BY DEF Cancel
  <1>2. /\ Verified' = Verified /\ Subs' = Subs /\ IsCompound' = IsCompound
        /\ TrustRequest' = TrustRequest /\ Accepted' = Accepted
    BY <1>1 DEF Verified, Accepted, Subs, IsCompound, TrustRequest
  <1>3. TypeInv'
    BY <1>1, <1>2 DEF AttInv, TypeInv
  <1>4. LoopInv'
    BY <1>1, <1>2 DEF AttInv, LoopInv, Vouched
  <1>5. VerifiedInv'
    BY <1>1, <1>2 DEF AttInv, VerifiedInv, Vouched
  <1>6. CancelInv'
    <2>1. Verified => stage = "policy"
      BY <1>1 DEF AttInv, TypeInv, Verified
    <2> QED BY <1>1, <1>2, <2>1 DEF CancelInv
  <1>7. SubInv' /\ PolicyInv'
    BY <1>1, <1>2 DEF AttInv, SubInv, PolicyInv
  <1> QED BY <1>3, <1>4, <1>5, <1>6, <1>7 DEF AttInv

LEMMA TickInv ==
    ASSUME AttInv, Tick
    PROVE  AttInv'
  <1>1. /\ now' = now + 1 /\ now \in Nat /\ Start <= now /\ Start \in Nat
        /\ UNCHANGED <<stage, input, next, results, counted, result, verdict, live, doneAt>>
    BY AttestationAssumption DEF Tick, AttInv, TypeInv
  <1>2. /\ Verified' = Verified /\ Subs' = Subs /\ IsCompound' = IsCompound
        /\ TrustRequest' = TrustRequest /\ Accepted' = Accepted
    BY <1>1 DEF Verified, Accepted, Subs, IsCompound, TrustRequest
  <1>3. TypeInv'
    BY <1>1, <1>2 DEF AttInv, TypeInv
  <1>4. ASSUME NEW object, Vouched(object)
        PROVE  \E t \in Start .. now' : FormatVerifies(Request(input'.ceremony, object), t, TRUE)
    <2>1. now' \in Nat /\ now <= now' /\ input' = input
      BY <1>1
    <2> QED BY <1>1, <1>4, <2>1, VouchedStays
  <1>5. LoopInv'
    <2>1. ASSUME NEW i, Vouched(Subs[i]) PROVE Vouched(Subs[i])'
      BY <1>2, <1>4, <2>1 DEF Vouched
    <2> QED BY <1>1, <1>2, <2>1 DEF AttInv, LoopInv
  <1>6. VerifiedInv'
    <2>1. Vouched(input.object) => Vouched(input.object)'
      BY <1>1, <1>4 DEF Vouched
    <2> QED BY <1>1, <1>2, <2>1 DEF AttInv, VerifiedInv
  <1>7. SubInv' /\ CancelInv' /\ PolicyInv'
    BY <1>1, <1>2 DEF AttInv, SubInv, CancelInv, PolicyInv
  <1> QED BY <1>3, <1>5, <1>6, <1>7 DEF AttInv

LEMMA AttInvNext == AttInv /\ [Next]_vars => AttInv'
  <1> SUFFICES ASSUME AttInv, [Next]_vars PROVE AttInv'
    OBVIOUS
  <1>1. ASSUME NEW presented \in Inputs, Present(presented) PROVE AttInv'
    BY <1>1, PresentInv
  <1>2. CASE VerifyStatement
    BY <1>2, VerifyStatementInv
  <1>3. CASE BeginCompound
    BY <1>3, BeginCompoundInv
  <1>4. CASE NextStatement
    BY <1>4, NextStatementInv
  <1>5. CASE VerifySubStatement
    BY <1>5, VerifySubStatementInv
  <1>6. CASE FinishCompound
    BY <1>6, FinishCompoundInv
  <1>7. CASE EvaluateTrust
    BY <1>7, EvaluateTrustInv
  <1>8. CASE Return
    BY <1>8, ReturnInv
  <1>9. CASE Cancel
    BY <1>9, CancelledInv
  <1>10. CASE Tick
    BY <1>10, TickInv
  <1>11. CASE UNCHANGED vars
    BY <1>11 DEF vars, AttInv, TypeInv, LoopInv, SubInv, VerifiedInv, CancelInv, PolicyInv,
                 Verified, Accepted, IsCompound, Subs, Vouched, TrustRequest
  <1> QED BY <1>1, <1>2, <1>3, <1>4, <1>5, <1>6, <1>7, <1>8, <1>9, <1>10, <1>11 DEF Next

THEOREM AttInvHolds == Spec => []AttInv
  BY AttInvInit, AttInvNext, PTL DEF Spec

-----------------------------------------------------------------------------
(***************************************************************************)
(* What the formats' verifiers tie a statement to.                         *)
(***************************************************************************)

\* The signature names what was signed.
LEMMA SignedOnce ==
    ASSUME NEW alg, NEW key, NEW signed, NEW signature,
           VerifySignature(alg, key, signed, signature, TRUE)
    PROVE  signature.signed = signed
  BY DEF VerifySignature

\* What a verified statement of each format contains.
LEMMA StatementBinds ==
    ASSUME NEW object, object.format \in Formats, NEW c, NEW t,
           FormatVerifies(Request(c, object), t, TRUE)
    PROVE  LET s == object.statement
               data == <<c.authData, c.hash>>
           IN  /\ object.format \in {"packed", "android-key"} => s.sig.signed = data
               /\ object.format = "fido-u2f" =>
                      s.sig.signed = <<"u2f", c.authData.rpId, c.hash, c.authData.id, c.key>>
               /\ object.format = "apple" => s.x5c[1].nonce = <<"SHA-256", data>>
               /\ object.format = "android-safetynet" =>
                      s.response.payload.nonce = <<"SHA-256", data>>
               /\ object.format = "tpm" =>
                      s.certInfo.extraData = <<TPMSignatureSpec[s.alg].hash, data>>
  <1> DEFINE req == Request(c, object)
             s == object.statement
             data == <<c.authData, c.hash>>
  <1>1. /\ req.format = object.format /\ req.statement = s /\ req.authData = c.authData
        /\ req.hash = c.hash /\ req.key = c.key
    BY DEF Request
  <1>2. SignedData(req) = data /\ ExpectedNonce(req) = <<"SHA-256", data>>
    BY <1>1 DEF SignedData, ExpectedNonce, Digest
  <1> HIDE DEF req
  <1>3. CASE object.format = "packed"
    <2>1. PackedVerifies(req, TRUE)
      BY <1>1, <1>3 DEF FormatVerifies, req
    <2>2. \E alg, key : VerifySignature(alg, key, SignedData(req), req.statement.sig, TRUE)
      BY <2>1 DEF PackedVerifies, PackedX5C, PackedSelf
    <2>3. s.sig.signed = data
      BY <1>1, <1>2, <2>2, SignedOnce
    <2> QED BY <1>3, <2>3
  <1>4. CASE object.format = "android-key"
    <2>1. AndroidKeyVerifies(req, TRUE)
      BY <1>1, <1>4 DEF FormatVerifies, req
    <2>2. \E alg, key : VerifySignature(alg, key, SignedData(req), req.statement.sig, TRUE)
      BY <2>1 DEF AndroidKeyVerifies
    <2>3. s.sig.signed = data
      BY <1>1, <1>2, <2>2, SignedOnce
    <2> QED BY <1>4, <2>3
  <1>5. CASE object.format = "fido-u2f"
    <2>1. FidoU2FVerifies(req, TRUE)
      BY <1>1, <1>5 DEF FormatVerifies, req
    <2>2. \E alg, key :
              VerifySignature(alg, key, U2FVerificationData(req), req.statement.sig, TRUE)
      BY <2>1 DEF FidoU2FVerifies
    <2>3. s.sig.signed = U2FVerificationData(req)
      BY <1>1, <2>2, SignedOnce
    <2> QED BY <1>1, <1>5, <2>3 DEF U2FVerificationData
  <1>6. CASE object.format = "apple"
    <2>1. AppleVerifies(req)
      BY <1>1, <1>6 DEF FormatVerifies, req
    <2> QED BY <1>1, <1>2, <1>6, <2>1 DEF AppleVerifies
  <1>7. CASE object.format = "android-safetynet"
    <2>1. SafetyNetVerifies(req, t)
      BY <1>1, <1>7 DEF FormatVerifies, req
    <2> QED BY <1>1, <1>2, <1>7, <2>1 DEF SafetyNetVerifies, PayloadValid
  <1>8. CASE object.format = "tpm"
    <2>1. TPMVerifies(req, TRUE)
      BY <1>1, <1>8 DEF FormatVerifies, req
    <2> QED BY <1>1, <1>2, <1>8, <2>1 DEF TPMVerifies, CertInfoBinds, Digest
  <1>9. CASE object.format = "none"
    BY <1>9
  <1> QED BY <1>3, <1>4, <1>5, <1>6, <1>7, <1>8, <1>9 DEF Formats

\* Two ceremonies a statement verifies for agree on what it covers.
LEMMA CoversOnce ==
    ASSUME NEW object, object.format \in Formats, NEW c, NEW d, NEW t, NEW u,
           FormatVerifies(Request(c, object), t, TRUE),
           FormatVerifies(Request(d, object), u, TRUE)
    PROVE  Covers(object, c) = Covers(object, d)
  <1>1. CASE object.format = "none"
    BY <1>1 DEF Covers
  <1>2. CASE object.format = "fido-u2f"
    <2>1. object.statement.sig.signed
              = <<"u2f", c.authData.rpId, c.hash, c.authData.id, c.key>>
      BY <1>2, StatementBinds
    <2>2. object.statement.sig.signed
              = <<"u2f", d.authData.rpId, d.hash, d.authData.id, d.key>>
      BY <1>2, StatementBinds
    <2>3. c.authData.rpId = d.authData.rpId /\ c.hash = d.hash
          /\ c.authData.id = d.authData.id /\ c.key = d.key
      BY <2>1, <2>2
    <2> QED BY <1>2, <2>3 DEF Covers
  <1>3. CASE object.format \notin {"none", "fido-u2f"}
    <2>1. <<c.authData, c.hash>> = <<d.authData, d.hash>>
      <3>1. CASE object.format \in {"packed", "android-key"}
        BY <3>1, StatementBinds
      <3>2. CASE object.format = "apple"
        <4>1. <<"SHA-256", <<c.authData, c.hash>>>> =
                  <<"SHA-256", <<d.authData, d.hash>>>>
          BY <3>2, StatementBinds
        <4> QED BY <4>1
      <3>3. CASE object.format = "android-safetynet"
        <4>1. <<"SHA-256", <<c.authData, c.hash>>>> =
                  <<"SHA-256", <<d.authData, d.hash>>>>
          BY <3>3, StatementBinds
        <4> QED BY <4>1
      <3>4. CASE object.format = "tpm"
        <4> DEFINE h == TPMSignatureSpec[object.statement.alg].hash
        <4>1. object.statement.certInfo.extraData = <<h, <<c.authData, c.hash>>>>
          BY <3>4, StatementBinds
        <4>2. object.statement.certInfo.extraData = <<h, <<d.authData, d.hash>>>>
          BY <3>4, StatementBinds
        <4> HIDE DEF h
        <4> QED BY <4>1, <4>2
      <3> QED BY <1>3, <3>1, <3>2, <3>3, <3>4 DEF Formats
    <2> QED BY <1>3, <2>1 DEF Covers
  <1> QED BY <1>1, <1>2, <1>3

\* The key a verified statement vouches for.
LEMMA KeyBinds ==
    ASSUME NEW object, NEW c, NEW t, FormatVerifies(Request(c, object), t, TRUE)
    PROVE  LET s == object.statement IN
           /\ object.format = "tpm" => /\ PublicAreaKey(s.certInfo.name[2][2]) = c.key
                                       /\ c.key.kind = "RSA" => PrimeExponent(c.key.exponent)
           /\ object.format \in {"android-key", "apple"} => s.x5c[1].key = c.key
  <1> DEFINE req == Request(c, object)
             s == object.statement
  <1>1. req.format = object.format /\ req.statement = s /\ req.key = c.key
    BY DEF Request
  <1> HIDE DEF req
  <1>2. CASE object.format = "tpm"
    <2>1. TPMVerifies(req, TRUE)
      BY <1>1, <1>2 DEF FormatVerifies, req
    <2>2. /\ PublicAreaParses(s.pubArea) /\ PublicAreaKey(s.pubArea) = c.key
          /\ s.certInfo.name = <<s.pubArea.nameAlg, <<s.pubArea.nameAlg, s.pubArea>>>>
      BY <1>1, <2>1 DEF TPMVerifies, PublicAreaBinds, CertInfoBinds, PublicAreaName, Digest
    <2>3. PublicAreaKey(s.certInfo.name[2][2]) = c.key
      BY <2>2
    <2>4. ASSUME c.key.kind = "RSA" PROVE PrimeExponent(c.key.exponent)
      <3>1. s.pubArea.key.kind # "EC2"
        BY <2>2, <2>4 DEF PublicAreaKey
      <3> QED BY <2>2, <3>1 DEF PublicAreaParses
    <2> QED BY <1>2, <2>3, <2>4
  <1>3. CASE object.format = "android-key"
    <2>1. AndroidKeyVerifies(req, TRUE)
      BY <1>1, <1>3 DEF FormatVerifies, req
    <2> QED BY <1>1, <1>3, <2>1 DEF AndroidKeyVerifies, CertifiesKey
  <1>4. CASE object.format = "apple"
    <2>1. AppleVerifies(req)
      BY <1>1, <1>4 DEF FormatVerifies, req
    <2> QED BY <1>1, <1>4, <2>1 DEF AppleVerifies, CertifiesKey
  <1> QED BY <1>2, <1>3, <1>4

\* Everything an acceptance rests on was verified for this ceremony.
LEMMA EvidenceVerified ==
    ASSUME AttInv, Accepted
    PROVE  /\ input \in Inputs
           /\ \A object \in Evidence : object.format \in Formats /\ Vouched(object)
  <1>1. input \in Inputs /\ Verified /\ input.object.format \in Registered
    BY DEF AttInv, TypeInv, Verified
  <1>2. CASE ~IsCompound
    BY <1>1, <1>2, RegistryAssumption DEF AttInv, VerifiedInv, Evidence, IsCompound
  <1>3. CASE IsCompound
    <2>1. \A i \in counted : Subs[i].format \in SubRegistered /\ Vouched(Subs[i])
      BY <1>1, <1>3 DEF AttInv, LoopInv
    <2>2. Evidence = {Subs[i] : i \in counted}
      BY <1>3 DEF Evidence, IsCompound
    <2> QED BY <1>1, <2>1, <2>2, RegistryAssumption
  <1> QED BY <1>2, <1>3

-----------------------------------------------------------------------------
(***************************************************************************)
(* The theorems.                                                           *)
(***************************************************************************)

\* Evidence cannot be moved to a registration with other client data or other
\* authenticator data: for every set of inputs and every registry.
THEOREM EvidenceNotTransferableHolds == Spec => []EvidenceNotTransferable
  <1>1. AttInv => EvidenceNotTransferable
    <2> SUFFICES ASSUME AttInv, Accepted, NEW object \in Evidence, NEW other \in Ceremonies,
                        FormatVerifies(Request(other, object), now, TRUE)
                 PROVE  Covers(object, other) = Covers(object, input.ceremony)
      BY DEF EvidenceNotTransferable
    <2>1. object.format \in Formats /\ Vouched(object)
      BY EvidenceVerified
    <2>2. PICK t \in Start .. now : FormatVerifies(Request(input.ceremony, object), t, TRUE)
      BY <2>1 DEF Vouched
    <2> QED BY <2>1, <2>2, CoversOnce
  <1> QED BY <1>1, AttInvHolds, PTL

\* What the statement vouches for is the credential's own key.
THEOREM KeyVouchedForHolds == Spec => []KeyVouchedFor
  <1>1. AttInv => KeyVouchedFor
    <2> SUFFICES ASSUME AttInv, Accepted, NEW object \in Evidence
                 PROVE  LET s == object.statement IN
                        /\ object.format = "tpm" =>
                               PublicAreaKey(s.certInfo.name[2][2]) = input.ceremony.key
                        /\ object.format \in {"android-key", "apple"} =>
                               s.x5c[1].key = input.ceremony.key
      BY DEF KeyVouchedFor
    <2>1. PICK t \in Start .. now : FormatVerifies(Request(input.ceremony, object), t, TRUE)
      BY EvidenceVerified DEF Vouched
    <2> QED BY <2>1, KeyBinds
  <1> QED BY <1>1, AttInvHolds, PTL

\* The RSA exponent of the key in an accepted TPM statement is an odd prime.
THEOREM TPMExponentPrimeHolds == Spec => []TPMExponentPrime
  <1>1. AttInv => TPMExponentPrime
    <2> DEFINE e == input.ceremony.key.exponent
    <2> SUFFICES ASSUME AttInv, Accepted, NEW object \in Evidence,
                        object.format = "tpm", input.ceremony.key.kind = "RSA"
                 PROVE  e > 2 /\ \A d \in 2 .. e - 1 : e % d # 0
      BY DEF TPMExponentPrime
    <2>1. PICK t \in Start .. now : FormatVerifies(Request(input.ceremony, object), t, TRUE)
      BY EvidenceVerified DEF Vouched
    <2>2. PrimeExponent(e)
      BY <2>1, KeyBinds
    <2>3. e \in Nat
      BY EvidenceVerified, InputsAssumption
    <2> HIDE DEF e
    <2> QED BY <2>2, <2>3, PrimeExponentIsPrime
  <1> QED BY <1>1, AttInvHolds, PTL

\* An accepted compound statement has enough different sub-statements that
\* verify on their own, at least one, whatever the policy and the order in
\* which they failed or were passed over.
THEOREM CompoundThresholdHolds == Spec => []CompoundThreshold
  <1>1. AttInv => CompoundThreshold
    <2> DEFINE total == Len(Subs)
               required == RequiredSuccesses(input.threshold, total)
               valid == {i \in 1 .. total :
                            Subs[i].format \in SubRegistered
                                /\ \E t \in Start .. now : FormatVerifies(SubRequest(i), t, TRUE)}
    <2> SUFFICES ASSUME AttInv, Accepted, IsCompound
                 PROVE  /\ Cardinality(valid) >= Len(results)
                        /\ Len(results) >= required
                        /\ Len(results) >= 1
      BY DEF CompoundThreshold, IsCompound, RequiredSuccesses
    <2>1. input \in Inputs /\ Verified
      BY DEF AttInv, TypeInv, Verified
    <2>2. total \in Nat
      BY <2>1, SubsListed
    <2>3. /\ ThresholdValid(input.threshold, total)
          /\ next \in 1 .. total + 1
          /\ counted \subseteq 1 .. next - 1
          /\ IsFiniteSet(counted) /\ Cardinality(counted) = Len(results)
          /\ \A i \in counted : Subs[i].format \in SubRegistered /\ Vouched(Subs[i])
      BY <2>1 DEF AttInv, LoopInv
    <2>4. ASSUME NEW i \in counted PROVE i \in valid
      <3>1. i \in 1 .. total
        BY <2>2, <2>3
      <3>2. \E t \in Start .. now : FormatVerifies(SubRequest(i), t, TRUE)
        BY <2>3 DEF Vouched, SubRequest
      <3> QED BY <2>3, <3>1, <3>2
    <2>5. IsFiniteSet(1 .. total)
      BY <2>2, FS_Interval
    <2>6. valid \subseteq 1 .. total
      OBVIOUS
    <2>7. Len(results) \in Nat /\ Len(results) >= required
      BY <2>1 DEF AttInv, VerifiedInv, TypeInv
    <2>8. required >= 1 /\ required \in Int
      <3>1. total >= 2
        BY <2>1 DEF AttInv, LoopInv, SubStatementsParse, Subs
      <3>2. input.threshold.minimum \in Int
        BY <2>1, InputsAssumption
      <3>3. CASE input.threshold.all \/ input.threshold.minimum = 0
        BY <2>2, <3>1, <3>3 DEF RequiredSuccesses
      <3>4. CASE ~(input.threshold.all \/ input.threshold.minimum = 0)
        <4>1. input.threshold.minimum \in 1 .. total
          BY <2>3, <3>4 DEF ThresholdValid
        <4> QED BY <2>2, <3>2, <3>4, <4>1 DEF RequiredSuccesses
      <3> QED BY <3>3, <3>4
    <2>9. Cardinality(valid) >= Cardinality(counted) /\ Cardinality(valid) \in Nat
      <3> HIDE DEF valid
      <3>1. IsFiniteSet(valid)
        BY <2>5, <2>6, FS_Subset
      <3> QED BY <2>4, <3>1, FS_Subset, FS_CardinalityType
    <2> HIDE DEF valid, required
    <2> QED BY <2>3, <2>7, <2>8, <2>9
  <1> QED BY <1>1, AttInvHolds, PTL

\* A compound statement with statements left at the cancellation is refused.
THEOREM CancelledCompoundRefusedHolds == Spec => []CancelledCompoundRefused
  <1>1. AttInv => CancelledCompoundRefused
    <2> SUFFICES ASSUME AttInv, IsCompound, ~live, doneAt <= Len(Subs), Accepted
                 PROVE  FALSE
      BY DEF CancelledCompoundRefused, IsCompound
    <2>1. Verified /\ input \in Inputs
      BY DEF AttInv, TypeInv, Verified
    <2>2. doneAt = Len(Subs) + 1
      BY <2>1 DEF AttInv, CancelInv, VerifiedInv
    <2>3. Len(Subs) \in Nat
      BY <2>1, SubsListed
    <2> QED BY <2>2, <2>3
  <1> QED BY <1>1, AttInvHolds, PTL

\* Acceptance is never wider than what the policy means, and exactly that when
\* nothing in it can fail: for policies nested to any depth.
THEOREM PolicyMeansWhatItSaysHolds == Spec => []PolicyMeansWhatItSays
  <1>1. AttInv => PolicyMeansWhatItSays
    <2> SUFFICES ASSUME AttInv, stage = "done",
                        verdict \in {"accepted", "ErrRejectedAttestationPolicy"}
                 PROVE  /\ Accepted => Means(input.policy, TrustRequest)
                        /\ (~MayFail(input.policy) /\ Means(input.policy, TrustRequest))
                               => Accepted
      BY DEF PolicyMeansWhatItSays
    <2>1. input.policy \in Policies
      BY InputsAssumption DEF AttInv, TypeInv
    <2>2. Accepted <=> input.policy # Nil /\ Evaluate(input.policy, TrustRequest) = "accept"
      BY DEF AttInv, PolicyInv
    <2>3. /\ Evaluate(input.policy, TrustRequest) = "accept" => Means(input.policy, TrustRequest)
          /\ ~MayFail(input.policy) /\ Means(input.policy, TrustRequest) =>
                 Evaluate(input.policy, TrustRequest) = "accept"
      BY <2>1, EvaluateMeans
    <2>4. ~MayFail(input.policy) => input.policy # Nil
      BY <2>1, MayFailDef DEF MayFailStep
    <2> QED BY <2>2, <2>3, <2>4
  <1> QED BY <1>1, AttInvHolds, PTL
=============================================================================
