----------------------- MODULE IntelligencePipelineProofs -----------------------
(***************************************************************************)
(* Proofs about the intelligence layer, for any batches, claims, number of *)
(* clients, errors and monitoring cycles: a validated batch accounts for   *)
(* its events and hides no material one, more of the same never looks      *)
(* better, a claim that passes is true, no stored summary names a finding  *)
(* the database never held, and no report claims what is not stored.       *)
(***************************************************************************)
EXTENDS IntelligencePipeline, SequenceTheorems, FiniteSetTheorems, WellFoundedInduction, TLAPS

\* A set of numbers that holds any has a least one.
LEMMA LeastNat ==
  ASSUME NEW T \in SUBSET Nat, T # {} PROVE \E x \in T : \A y \in T : x <= y
<1>1. PICK x \in T : \A y \in T : ~(<<y, x>> \in OpToRel(<, Nat))
  BY NatLessThanWellFounded, WFMin
<1>2. \A y \in T : ~(y < x)
  BY <1>1 DEF OpToRel
<1> QED BY <1>2

\* A set that holds zero and every successor of its members holds all numbers.
LEMMA Inductive ==
  ASSUME NEW T \in SUBSET Nat, 0 \in T, \A n \in T : n + 1 \in T
  PROVE  T = Nat
<1> SUFFICES ASSUME Nat \ T # {} PROVE FALSE
  OBVIOUS
<1>1. PICK x \in Nat \ T : \A y \in Nat \ T : x <= y
  BY LeastNat
<1>2. x # 0 /\ x - 1 \in Nat
  BY <1>1
<1>3. x - 1 \in T
  BY <1>1, <1>2
<1> QED BY <1>1, <1>2, <1>3

\* What holds of a set when it holds of all that lack one of its members holds
\* of every part of a finite set.
Hereditary(S, T) == \A s \in SUBSET S : (\A x \in s : s \ {x} \in T) => s \in T

\* The principle, for the parts of a finite set.
LEMMA PartsInduction ==
  ASSUME NEW S, IsFiniteSet(S), NEW T, Hereditary(S, T)
  PROVE  SUBSET S \subseteq T
<1> SUFFICES ASSUME NEW s0 \in SUBSET S, s0 \notin T PROVE FALSE
  OBVIOUS
<1> DEFINE sizes == {n \in Nat : \E s \in SUBSET S : s \notin T /\ Cardinality(s) = n}
<1>1. ASSUME NEW s \in SUBSET S PROVE IsFiniteSet(s) /\ Cardinality(s) \in Nat
  BY FS_Subset, FS_CardinalityType
<1>2. Cardinality(s0) \in sizes
  BY <1>1
<1>3. PICK n \in sizes : \A m \in sizes : n <= m
  <2>1. sizes \in SUBSET Nat /\ sizes # {}
    BY <1>2
  <2> HIDE DEF sizes
  <2> QED BY <2>1, LeastNat
<1>4. PICK s \in SUBSET S : s \notin T /\ Cardinality(s) = n
  OBVIOUS
<1>5. PICK x \in s : s \ {x} \notin T
  BY <1>4 DEF Hereditary
<1>6. Cardinality(s \ {x}) = n - 1
  BY <1>1, <1>4, FS_RemoveElement
<1>7. s \ {x} \in SUBSET S /\ n - 1 \in sizes
  BY <1>1, <1>5, <1>6
<1>8. n <= n - 1 /\ n \in Nat
  BY <1>3, <1>7
<1> QED BY <1>8

\* The recursion of a sum: a set adds one of its members to the rest.
SomeOf(s) == CHOOSE x \in s : TRUE
SumStep(w, g, s) == IF s = {} THEN 0 ELSE w[SomeOf(s)] + g[s \ {SomeOf(s)}]
Recursion(w, g) == g = [s \in SUBSET DOMAIN w |-> SumStep(w, g, s)]

\* The parts of a set of at most n members.
PartsTo(S, n) == {s \in SUBSET S : Cardinality(s) <= n}
RecursionTo(w, n, g) == g = [s \in PartsTo(DOMAIN w, n) |-> SumStep(w, g, s)]

\* The recursion is well defined.
LEMMA RecursionExists ==
  ASSUME NEW w, IsFiniteSet(DOMAIN w) PROVE \E g : Recursion(w, g)
<1> DEFINE S == DOMAIN w
           T == {n \in Nat : \E g : RecursionTo(w, n, g)}
<1>1. ASSUME NEW s \in SUBSET S
      PROVE  /\ IsFiniteSet(s) /\ Cardinality(s) \in Nat /\ Cardinality(s) <= Cardinality(S)
             /\ s # {} => SomeOf(s) \in s /\ Cardinality(s \ {SomeOf(s)}) = Cardinality(s) - 1
  <2>1. IsFiniteSet(s) /\ Cardinality(s) \in Nat /\ Cardinality(s) <= Cardinality(S)
    BY FS_Subset, FS_CardinalityType
  <2>2. s # {} => SomeOf(s) \in s
    BY DEF SomeOf
  <2> QED BY <2>1, <2>2, FS_RemoveElement
<1>2. 0 \in T
  <2>1. RecursionTo(w, 0, [s \in PartsTo(S, 0) |-> 0])
    <3>1. ASSUME NEW s \in PartsTo(S, 0) PROVE s = {}
      <4>1. IsFiniteSet(s) /\ Cardinality(s) \in Nat /\ Cardinality(s) <= 0
        BY <1>1 DEF PartsTo
      <4>2. Cardinality(s) = 0
        BY <4>1
      <4> QED BY <4>1, <4>2, FS_EmptySet
    <3> QED BY <3>1 DEF RecursionTo, SumStep
  <2> QED BY <2>1
<1>3. ASSUME NEW n \in T PROVE n + 1 \in T
  <2>1. PICK g : RecursionTo(w, n, g)
    OBVIOUS
  <2>2. n \in Nat
    OBVIOUS
  <2> DEFINE h == [s \in PartsTo(S, n + 1) |-> SumStep(w, g, s)]
  <2>3. ASSUME NEW s \in PartsTo(S, n + 1) PROVE h[s] = SumStep(w, h, s)
    <3>1. CASE s = {}
      BY <3>1 DEF SumStep
    <3>2. CASE s # {}
      <4> DEFINE rest == s \ {SomeOf(s)}
      <4>1. rest \in PartsTo(S, n) /\ rest \in PartsTo(S, n + 1)
        BY <1>1, <2>2, <3>2 DEF PartsTo
      <4>2. g[rest] = SumStep(w, g, rest)
        BY <2>1, <4>1 DEF RecursionTo
      <4>3. h[rest] = g[rest]
        BY <4>1, <4>2
      <4> QED BY <3>2, <4>3 DEF SumStep
    <3> QED BY <3>1, <3>2
  <2>4. h = [s \in PartsTo(S, n + 1) |-> h[s]]
    OBVIOUS
  <2> HIDE DEF h
  <2>5. RecursionTo(w, n + 1, h)
    BY <2>3, <2>4 DEF RecursionTo
  <2> QED BY <2>2, <2>5
<1>4. Cardinality(S) \in Nat /\ T = Nat
  <2> HIDE DEF T
  <2>1. T \in SUBSET Nat
    BY DEF T
  <2> QED BY <1>2, <1>3, <2>1, Inductive, FS_CardinalityType
<1>5. PICK g : RecursionTo(w, Cardinality(S), g)
  BY <1>4
<1>6. PartsTo(S, Cardinality(S)) = SUBSET S
  BY <1>1 DEF PartsTo
<1> QED BY <1>5, <1>6 DEF Recursion, RecursionTo

\* g[s] is the sum over the part s, in whatever order it is taken.
IsTally(w, g) ==
  /\ g \in [SUBSET DOMAIN w -> Int] /\ g[{}] = 0
  /\ \A s \in SUBSET DOMAIN w : \A x \in s : g[s] = w[x] + g[s \ {x}]

\* What SumFunction computes.
LEMMA Sums ==
  ASSUME NEW w, IsFiniteSet(DOMAIN w), \A x \in DOMAIN w : w[x] \in Int
  PROVE  \E g : IsTally(w, g) /\ SumFunction(w) = g[DOMAIN w]
<1> DEFINE S == DOMAIN w
           g == CHOOSE g : Recursion(w, g)
<1>1. SumFunction(w) = g[DOMAIN w]
  BY DEF SumFunction, SumFunctionOnSet, FoldFunctionOnSet, MapThenFoldSet, Recursion, SumStep, SomeOf
<1>2. Recursion(w, g)
  BY RecursionExists
<1> HIDE DEF g
<1>3. \A s \in SUBSET S : g[s] = SumStep(w, g, s)
  BY <1>2 DEF Recursion
<1>4. ASSUME NEW s, s # {} PROVE SomeOf(s) \in s
  BY <1>4 DEF SomeOf
<1>5. \A s \in SUBSET S : g[s] \in Int
  <2> DEFINE T == {s \in SUBSET S : g[s] \in Int}
  <2>1. ASSUME NEW s \in SUBSET S, \A x \in s : s \ {x} \in T PROVE s \in T
    <3>1. CASE s = {}
      BY <1>3, <3>1 DEF SumStep
    <3>2. CASE s # {}
      <4>1. SomeOf(s) \in s /\ g[s] = w[SomeOf(s)] + g[s \ {SomeOf(s)}]
        BY <1>3, <1>4, <3>2 DEF SumStep
      <4>2. w[SomeOf(s)] \in Int /\ g[s \ {SomeOf(s)}] \in Int
        BY <2>1, <4>1
      <4> QED BY <4>1, <4>2
    <3> QED BY <3>1, <3>2
  <2> HIDE DEF T
  <2>2. SUBSET S \subseteq T
    <3>1. Hereditary(S, T)
      BY <2>1 DEF Hereditary
    <3> QED BY <3>1, PartsInduction
  <2> QED BY <2>2 DEF T
<1>6. g \in [SUBSET S -> Int]
  BY <1>2, <1>5 DEF Recursion
<1>7. g[{}] = 0
  BY <1>3 DEF SumStep
<1>8. ASSUME NEW s \in SUBSET S, s # {} PROVE SomeOf(s) \in s /\ g[s] = w[SomeOf(s)] + g[s \ {SomeOf(s)}]
  BY <1>3, <1>4, <1>8 DEF SumStep
<1>9. \A s \in SUBSET S : \A x \in s : g[s] = w[x] + g[s \ {x}]
  <2> DEFINE T == {s \in SUBSET S : \A x \in s : g[s] = w[x] + g[s \ {x}]}
  <2>1. ASSUME NEW s \in SUBSET S, \A x \in s : s \ {x} \in T PROVE s \in T
    <3>1. SUFFICES ASSUME NEW x \in s PROVE g[s] = w[x] + g[s \ {x}]
      OBVIOUS
    <3>2. PICK y : y = SomeOf(s)
      OBVIOUS
    <3>3. y \in s /\ g[s] = w[y] + g[s \ {y}]
      BY <1>8, <3>2
    <3>4. CASE x # y
      <4>1. s \ {y} \in T /\ x \in s \ {y} /\ s \ {x} \in T /\ y \in s \ {x}
        BY <2>1, <3>3, <3>4
      <4>2. g[s \ {y}] = w[x] + g[(s \ {y}) \ {x}]
        BY <4>1
      <4>3. g[s \ {x}] = w[y] + g[(s \ {x}) \ {y}]
        BY <4>1
      <4>4. (s \ {x}) \ {y} = (s \ {y}) \ {x}
        OBVIOUS
      <4>5. PICK a, b, d : a = w[x] /\ b = w[y] /\ d = g[(s \ {x}) \ {y}]
        OBVIOUS
      <4>6. a \in Int /\ b \in Int /\ d \in Int
        BY <1>5, <3>3, <4>5
      <4>7. g[s] = b + (a + d)
        BY <3>3, <4>2, <4>4, <4>5
      <4>8. w[x] + g[s \ {x}] = a + (b + d)
        BY <4>3, <4>5
      <4> QED BY <4>6, <4>7, <4>8
    <3> QED BY <3>3, <3>4
  <2> HIDE DEF T
  <2>2. SUBSET S \subseteq T
    <3>1. Hereditary(S, T)
      BY <2>1 DEF Hereditary
    <3> QED BY <3>1, PartsInduction
  <2> QED BY <2>2 DEF T
<1> QED BY <1>1, <1>6, <1>7, <1>9 DEF IsTally

\* Sums of numbers that are not negative: a part adds up to no more.
LEMMA PartsSum ==
  ASSUME NEW w, IsFiniteSet(DOMAIN w), \A x \in DOMAIN w : w[x] \in Nat, NEW g, IsTally(w, g)
  PROVE  \A t \in SUBSET DOMAIN w : \A s \in SUBSET t : g[s] \in Nat /\ g[s] <= g[t]
<1> DEFINE S == DOMAIN w
           T == {t \in SUBSET S : g[t] \in Nat /\ \A s \in SUBSET t : g[s] <= g[t]}
<1>1. ASSUME NEW t \in SUBSET S, \A x \in t : t \ {x} \in T PROVE t \in T
  <2>1. g[t] \in Nat
    <3>1. CASE t = {}
      BY <3>1 DEF IsTally
    <3>2. ASSUME NEW x \in t PROVE g[t] \in Nat
      <4>1. g[t] = w[x] + g[t \ {x}] /\ w[x] \in Nat /\ g[t \ {x}] \in Nat
        BY <1>1 DEF IsTally
      <4> QED BY <4>1
    <3> QED BY <3>1, <3>2
  <2>2. ASSUME NEW s \in SUBSET t PROVE g[s] <= g[t]
    <3>1. CASE s = t
      BY <2>1, <3>1
    <3>2. ASSUME NEW x \in t, x \notin s PROVE g[s] <= g[t]
      <4>1. g[t] = w[x] + g[t \ {x}] /\ w[x] \in Nat
        BY DEF IsTally
      <4>2. t \ {x} \in T /\ s \in SUBSET (t \ {x})
        BY <1>1, <3>2
      <4>3. g[s] <= g[t \ {x}] /\ g[t \ {x}] \in Nat /\ g[s] \in Int
        BY <4>2 DEF IsTally
      <4> QED BY <4>1, <4>3
    <3> QED BY <3>1, <3>2
  <2> QED BY <2>1, <2>2
<1> HIDE DEF T
<1>2. SUBSET S \subseteq T
  <2>1. Hereditary(S, T)
    BY <1>1 DEF Hereditary
  <2> QED BY <2>1, PartsInduction
<1> QED BY <1>2 DEF T
-------------------------------------------------------------------------------
\* The image of a finite set under a function is finite.
LEMMA ImageFinite ==
  ASSUME NEW S, IsFiniteSet(S), NEW h
  PROVE  IsFiniteSet({h[x] : x \in S}) /\ Cardinality({h[x] : x \in S}) <= Cardinality(S)
<1> DEFINE T == {h[x] : x \in S}
           k == [x \in S |-> h[x]]
<1>1. k \in Surjection(S, T)
  BY DEF Surjection
<1> QED BY <1>1, FS_Surjection

\* Sets that have no member in common: their sizes add up.
UnionOf(group, s) == UNION {group[f] : f \in s}
Sizes(group, w) ==
  /\ DOMAIN w = DOMAIN group
  /\ \A f \in DOMAIN group : IsFiniteSet(group[f]) /\ w[f] = Cardinality(group[f])
Disjoint(group) == \A f, e \in DOMAIN group : f # e => group[f] \cap group[e] = {}

\* The sizes of disjoint finite groups add up to that of their union.
LEMMA SizesAddUp ==
  ASSUME NEW group, IsFiniteSet(DOMAIN group), NEW w, Sizes(group, w), Disjoint(group)
  PROVE  /\ IsFiniteSet(UnionOf(group, DOMAIN group))
         /\ SumFunction(w) = Cardinality(UnionOf(group, DOMAIN group))
<1> DEFINE F == DOMAIN group
<1>1. DOMAIN w = F /\ \A f \in F : IsFiniteSet(group[f]) /\ w[f] = Cardinality(group[f]) /\ w[f] \in Nat
  BY FS_CardinalityType DEF Sizes
<1>2. PICK g : IsTally(w, g) /\ SumFunction(w) = g[F]
  BY <1>1, Sums
<1> DEFINE T == {s \in SUBSET F : IsFiniteSet(UnionOf(group, s)) /\ g[s] = Cardinality(UnionOf(group, s))}
<1>3. ASSUME NEW s \in SUBSET F, \A x \in s : s \ {x} \in T PROVE s \in T
  <2>1. CASE s = {}
    <3>1. UnionOf(group, s) = {} /\ g[s] = 0
      BY <1>2, <2>1 DEF UnionOf, IsTally
    <3> QED BY <3>1, FS_EmptySet
  <2>2. ASSUME NEW x \in s PROVE s \in T
    <3> DEFINE others == UnionOf(group, s \ {x})
    <3>1. UnionOf(group, s) = others \cup group[x]
      BY DEF UnionOf
    <3>2. others \cap group[x] = {}
      BY DEF UnionOf, Disjoint
    <3>3. IsFiniteSet(others) /\ g[s \ {x}] = Cardinality(others) /\ IsFiniteSet(group[x])
      BY <1>1, <1>3
    <3>4. g[s] = w[x] + g[s \ {x}]
      BY <1>1, <1>2 DEF IsTally
    <3> HIDE DEF others
    <3>5. /\ IsFiniteSet(others \cup group[x])
          /\ Cardinality(others \cup group[x]) = Cardinality(others) + Cardinality(group[x]) - Cardinality({})
      BY <3>2, <3>3, FS_Union
    <3>6. Cardinality({}) = 0 /\ Cardinality(others) \in Nat /\ Cardinality(group[x]) \in Nat
      BY <3>3, FS_EmptySet, FS_CardinalityType
    <3>7. w[x] = Cardinality(group[x])
      BY <1>1
    <3>8. PICK a, b : a = Cardinality(others) /\ b = Cardinality(group[x])
      OBVIOUS
    <3>9. a \in Nat /\ b \in Nat /\ Cardinality(others \cup group[x]) = a + b - 0 /\ g[s] = b + a
      BY <3>3, <3>4, <3>5, <3>6, <3>7, <3>8
    <3>10. g[s] = Cardinality(UnionOf(group, s))
      BY <3>1, <3>9
    <3>11. IsFiniteSet(UnionOf(group, s))
      BY <3>1, <3>5
    <3> QED BY <3>10, <3>11
  <2> QED BY <2>1, <2>2
<1> HIDE DEF T
<1>4. SUBSET F \subseteq T
  <2>1. Hereditary(F, T)
    BY <1>3 DEF Hereditary
  <2> QED BY <2>1, PartsInduction
<1>5. F \in T
  BY <1>4
<1> QED BY <1>2, <1>5 DEF T
-------------------------------------------------------------------------------
\* The fields of a finding that tell which events it is about.
LEMMA FindingFields ==
  ASSUME NEW events, NEW s
  PROVE  /\ FindingOf(events, s).category = s
         /\ FindingOf(events, s).raw_event_ids = GroupOf(events, s)
         /\ FindingOf(events, s).occurrence_count = Cardinality(GroupOf(events, s))
         /\ FindingOf(events, s).control_type = DetectControlType(events, GroupOf(events, s))
         /\ FindingOf(events, s).is_systemic = (Cardinality(GroupOf(events, s)) >= SystemicThreshold)
         /\ FindingOf(events, s).risk_score
              = ComputeRiskScore(events, GroupOf(events, s), FinancialImpact(events, GroupOf(events, s)),
                                 Cardinality(GroupOf(events, s)) >= SystemicThreshold)
BY DEF FindingOf

\* Events are numbered, and each belongs to the group of its signature.
LEMMA Grouped ==
  ASSUME NEW events, AreEvents(events)
  PROVE  /\ DOMAIN events = 1..Len(events) /\ Len(events) \in Nat
         /\ IsFiniteSet(DOMAIN events) /\ Cardinality(DOMAIN events) = Len(events)
         /\ \A i \in DOMAIN events : i \in GroupOf(events, ComputeEventSignature(events[i]))
         /\ \A s : /\ GroupOf(events, s) \subseteq DOMAIN events
                   /\ IsFiniteSet(GroupOf(events, s)) /\ Cardinality(GroupOf(events, s)) \in Nat
<1>1. DOMAIN events = 1..Len(events) /\ Len(events) \in Nat
  <2>1. PICK n : n = Len(events)
    OBVIOUS
  <2>2. n \in Nat /\ events = [i \in 1..n |-> events[i]]
    BY <2>1 DEF AreEvents
  <2>3. DOMAIN events = 1..n
    BY <2>2, Zenon
  <2> QED BY <2>1, <2>2, <2>3
<1>2. IsFiniteSet(DOMAIN events) /\ Cardinality(DOMAIN events) = Len(events)
  <2>1. PICK n \in Nat : n = Len(events)
    BY <1>1
  <2>2. IsFiniteSet(1..n) /\ Cardinality(1..n) = n
    BY FS_Interval
  <2> QED BY <1>1, <2>1, <2>2
<1>3. \A i \in DOMAIN events : i \in GroupOf(events, ComputeEventSignature(events[i]))
  BY DEF GroupOf
<1>4. ASSUME NEW s
      PROVE  /\ GroupOf(events, s) \subseteq DOMAIN events
             /\ IsFiniteSet(GroupOf(events, s)) /\ Cardinality(GroupOf(events, s)) \in Nat
  <2>1. GroupOf(events, s) \subseteq DOMAIN events
    BY DEF GroupOf
  <2> QED BY <1>2, <2>1, FS_Subset, FS_CardinalityType
<1> QED BY <1>1, <1>2, <1>3, <1>4

\* The signatures whose groups are not cleared.
Kept(events) == {s \in Deduplicate(events) : ~Cleared(events, s)}
ClearedIds(events) == UNION {GroupOf(events, s) : s \in Deduplicate(events) \ Kept(events)}

\* The result of a batch, by its parts.
LEMMA ProcessFields ==
  ASSUME NEW events
  PROVE  /\ ProcessEvents(events).findings = {FindingOf(events, s) : s \in Kept(events)}
         /\ ProcessEvents(events).summary.auto_cleared = Cardinality(ClearedIds(events))
BY DEF ProcessEvents, BuildSummary, Kept, ClearedIds

\* Only finitely many groups are found.
LEMMA FindingsFinite ==
  ASSUME NEW events, AreEvents(events)
  PROVE  IsFiniteSet(Deduplicate(events)) /\ IsFiniteSet(ProcessEvents(events).findings)
<1> DEFINE h == [i \in DOMAIN events |-> ComputeEventSignature(events[i])]
           k == [s \in Kept(events) |-> FindingOf(events, s)]
<1>1. Deduplicate(events) = {h[i] : i \in DOMAIN events}
  BY DEF Deduplicate
<1>2. ProcessEvents(events).findings = {k[s] : s \in Kept(events)}
  BY ProcessFields
<1> HIDE DEF h, k
<1>3. IsFiniteSet(Deduplicate(events))
  BY <1>1, Grouped, ImageFinite
<1>4. IsFiniteSet(Kept(events))
  <2>1. Kept(events) \subseteq Deduplicate(events)
    BY DEF Kept
  <2> QED BY <1>3, <2>1, FS_Subset
<1> QED BY <1>2, <1>3, <1>4, ImageFinite

\* Every event is in one finding or cleared, and is counted once.
Counted(result) == SumFunction([f \in result.findings |-> f.occurrence_count])
Accounted(events, result) ==
  /\ Cardinality(UNION {f.raw_event_ids : f \in result.findings}) = Counted(result)
  /\ Counted(result) + result.summary.auto_cleared = Len(events)

\* Every batch accounts for its events.
LEMMA BatchAccounted ==
  ASSUME NEW events, AreEvents(events)
  PROVE  Accounted(events, ProcessEvents(events))
<1> DEFINE F == ProcessEvents(events).findings
           group == [f \in F |-> f.raw_event_ids]
           w == [f \in F |-> f.occurrence_count]
           reported == UNION {f.raw_event_ids : f \in F}
           cleared == ClearedIds(events)
<1>1. ASSUME NEW f \in F
      PROVE  /\ f.category \in Kept(events) /\ f = FindingOf(events, f.category)
             /\ f.raw_event_ids = GroupOf(events, f.category)
             /\ IsFiniteSet(f.raw_event_ids) /\ f.occurrence_count = Cardinality(f.raw_event_ids)
  BY ProcessFields, FindingFields, Grouped
<1>2. ASSUME NEW s, NEW t, s # t PROVE GroupOf(events, s) \cap GroupOf(events, t) = {}
  BY <1>2 DEF GroupOf
<1>3. IsFiniteSet(F)
  BY FindingsFinite
<1>4. reported \cup cleared = DOMAIN events
  <2>1. reported \cup cleared \subseteq DOMAIN events
    BY <1>1, Grouped DEF ClearedIds
  <2>2. ASSUME NEW i \in DOMAIN events PROVE i \in reported \cup cleared
    <3>1. PICK s : s = ComputeEventSignature(events[i])
      OBVIOUS
    <3>2. i \in GroupOf(events, s) /\ s \in Deduplicate(events)
      BY <3>1, Grouped DEF Deduplicate
    <3>3. CASE s \in Kept(events)
      <4>1. FindingOf(events, s) \in F /\ FindingOf(events, s).raw_event_ids = GroupOf(events, s)
        BY <3>3, ProcessFields, FindingFields
      <4> QED BY <3>2, <4>1
    <3>4. CASE s \notin Kept(events)
      BY <3>2, <3>4 DEF ClearedIds
    <3> QED BY <3>3, <3>4
  <2> QED BY <2>1, <2>2
<1>5. reported \cap cleared = {}
  <2> SUFFICES ASSUME NEW i, i \in reported, i \in cleared PROVE FALSE
    OBVIOUS
  <2>1. PICK f \in F : i \in f.raw_event_ids
    OBVIOUS
  <2>2. PICK s \in Deduplicate(events) \ Kept(events) : i \in GroupOf(events, s)
    BY DEF ClearedIds
  <2> QED BY <1>1, <1>2, <2>1, <2>2
<1>6. \A f, e \in F : f # e => f.raw_event_ids \cap e.raw_event_ids = {}
  <2> SUFFICES ASSUME NEW f \in F, NEW e \in F, f # e PROVE f.raw_event_ids \cap e.raw_event_ids = {}
    OBVIOUS
  <2>1. f.category # e.category
    BY <1>1
  <2> QED BY <1>1, <1>2, <2>1
<1> HIDE DEF F
<1>7. /\ IsFiniteSet(UnionOf(group, DOMAIN group))
      /\ SumFunction(w) = Cardinality(UnionOf(group, DOMAIN group))
  <2>1. DOMAIN group = F /\ Sizes(group, w) /\ Disjoint(group)
    BY <1>1, <1>6 DEF Sizes, Disjoint
  <2> HIDE DEF group, w
  <2> QED BY <1>3, <2>1, SizesAddUp
<1>8. UnionOf(group, DOMAIN group) = reported
  BY DEF UnionOf
<1>9. IsFiniteSet(cleared)
  <2>1. cleared \subseteq DOMAIN events
    BY <1>4
  <2> QED BY <2>1, Grouped, FS_Subset
<1>10. SumFunction(w) = Cardinality(reported) /\ IsFiniteSet(reported)
  BY <1>7, <1>8
<1> HIDE DEF reported, cleared, w
<1>11. Cardinality(reported \cup cleared) = Cardinality(reported) + Cardinality(cleared) - Cardinality({})
  BY <1>5, <1>9, <1>10, FS_Union
<1>12. Cardinality(reported) + Cardinality(cleared) = Len(events)
  <2>1. Cardinality({}) = 0 /\ Cardinality(reported) \in Nat /\ Cardinality(cleared) \in Nat
    BY <1>9, <1>10, FS_EmptySet, FS_CardinalityType
  <2> QED BY <1>4, <1>11, <2>1, Grouped
<1> QED BY <1>10, <1>12, ProcessFields DEF Accounted, Counted, F, w, reported, cleared
-------------------------------------------------------------------------------
\* The amount of an event is never negative.
LEMMA AmountType ==
  ASSUME NEW event, IsEvent(event) PROVE ExtractAmount(event) \in Nat
<1>1. ASSUME NEW S \in SUBSET Int, S # {} PROVE TheOnly(S) \in Int
  BY <1>1 DEF TheOnly
<1>2. ASSUME NEW x \in Int PROVE Magnitude(x) \in Nat
  BY DEF Magnitude
<1>3. \A S \in {event.value, event.payment, event.logged, event.metadata} :
        S # {} => Magnitude(TheOnly(S)) \in Nat
  BY <1>1, <1>2 DEF IsEvent
<1> QED BY <1>3 DEF ExtractAmount

\* A group has at least the impact of each of its events.
LEMMA ImpactBounds ==
  ASSUME NEW events, AreEvents(events), NEW group \in SUBSET DOMAIN events
  PROVE  /\ FinancialImpact(events, group) \in Nat
         /\ \A i \in group : ExtractAmount(events[i]) <= FinancialImpact(events, group)
<1> DEFINE w == [i \in group |-> ExtractAmount(events[i])]
<1>1. IsFiniteSet(group)
  BY Grouped, FS_Subset
<1>2. \A i \in group : w[i] = ExtractAmount(events[i]) /\ w[i] \in Nat
  BY AmountType, Grouped DEF AreEvents
<1>3. FinancialImpact(events, group) = SumFunction(w) /\ DOMAIN w = group
  BY DEF FinancialImpact
<1> HIDE DEF w
<1>4. PICK g : IsTally(w, g) /\ SumFunction(w) = g[group]
  BY <1>1, <1>2, <1>3, Sums
<1>5. \A s \in SUBSET group : g[s] \in Nat /\ g[s] <= g[group]
  BY <1>1, <1>2, <1>3, <1>4, PartsSum
<1>6. ASSUME NEW i \in group PROVE w[i] <= g[group]
  <2>1. g[{i}] = w[i] + g[{i} \ {i}] /\ g[{}] = 0 /\ w[i] \in Nat
    BY <1>2, <1>3, <1>4 DEF IsTally
  <2>2. {i} \ {i} = {} /\ g[{i}] <= g[group]
    BY <1>5
  <2> QED BY <2>1, <2>2
<1> QED BY <1>2, <1>3, <1>4, <1>5, <1>6

\* An event that is material by itself is in a finding.
LEMMA MaterialIsReported ==
  ASSUME NEW events, AreEvents(events), NEW i \in DOMAIN events,
         ExtractAmount(events[i]) >= MaterialityThreshold
  PROVE  \E f \in ProcessEvents(events).findings : i \in f.raw_event_ids
<1> DEFINE s == ComputeEventSignature(events[i])
<1>1. i \in GroupOf(events, s) /\ GroupOf(events, s) \subseteq DOMAIN events
  BY Grouped
<1>2. s \in Deduplicate(events)
  BY DEF Deduplicate
<1> HIDE DEF s
<1>3. FinancialImpact(events, GroupOf(events, s)) \in Nat
      /\ ExtractAmount(events[i]) <= FinancialImpact(events, GroupOf(events, s))
  BY <1>1, ImpactBounds
<1>4. ExtractAmount(events[i]) \in Nat
  BY AmountType, Grouped DEF AreEvents
<1>5. ~Cleared(events, s)
  BY <1>3, <1>4, ThresholdsAssumption DEF Cleared
<1>6. s \in Kept(events)
  BY <1>2, <1>5 DEF Kept
<1>7. FindingOf(events, s) \in ProcessEvents(events).findings
  BY <1>6, ProcessFields
<1> QED BY <1>1, <1>7, FindingFields
-------------------------------------------------------------------------------
\* A finite set of numbers that holds any has a least one.
HasLeast(s) == \E y \in s : \A b \in s : y <= b

\* A finite set of numbers that holds any has a least one.
LEMMA LeastExists ==
  ASSUME NEW S \in SUBSET Int, IsFiniteSet(S), S # {} PROVE HasLeast(S)
<1> DEFINE T == {s \in SUBSET S : s = {} \/ HasLeast(s)}
<1>1. ASSUME NEW s \in SUBSET S, \A x \in s : s \ {x} \in T PROVE s \in T
  <2>1. SUFFICES ASSUME NEW x \in s PROVE HasLeast(s)
    OBVIOUS
  <2>2. CASE s \ {x} = {}
    BY <2>2 DEF HasLeast
  <2>3. CASE s \ {x} # {}
    <3>1. PICK y \in s \ {x} : \A b \in s \ {x} : y <= b
      BY <1>1, <2>3 DEF HasLeast
    <3>2. CASE y <= x
      BY <3>1, <3>2 DEF HasLeast
    <3>3. CASE x <= y
      <4>1. \A b \in s : x <= b
        BY <3>1, <3>3
      <4> QED BY <4>1 DEF HasLeast
    <3>4. x \in Int /\ y \in Int
      OBVIOUS
    <3> QED BY <3>2, <3>3, <3>4
  <2> QED BY <2>2, <2>3
<1> HIDE DEF T
<1>2. SUBSET S \subseteq T
  <2>1. Hereditary(S, T)
    BY <1>1 DEF Hereditary
  <2> QED BY <2>1, PartsInduction
<1> QED BY <1>2 DEF T

\* A sum over fewer terms: each of them is a term of the longer sum.
Reindexed(w, v, h) ==
  /\ h \in [DOMAIN w -> DOMAIN v]
  /\ \A x, y \in DOMAIN w : x # y => h[x] # h[y]
  /\ \A x \in DOMAIN w : w[x] = v[h[x]]
ImageOf(h, s) == {h[x] : x \in s}

\* The sum of some of the terms is no larger than the sum of them all.
LEMMA FewerTerms ==
  ASSUME NEW w, IsFiniteSet(DOMAIN w), NEW v, IsFiniteSet(DOMAIN v), \A y \in DOMAIN v : v[y] \in Nat,
         NEW h, Reindexed(w, v, h)
  PROVE  /\ SumFunction(w) <= SumFunction(v)
         /\ SumFunction(w) \in Nat /\ SumFunction(v) \in Nat
         /\ Cardinality(DOMAIN w) <= Cardinality(DOMAIN v)
<1> DEFINE S == DOMAIN w
<1>1. \A x \in S : h[x] \in DOMAIN v /\ w[x] = v[h[x]] /\ w[x] \in Nat
  BY DEF Reindexed
<1>2. PICK g : IsTally(w, g) /\ SumFunction(w) = g[S]
  BY <1>1, Sums
<1>3. PICK k : IsTally(v, k) /\ SumFunction(v) = k[DOMAIN v]
  BY Sums
<1> DEFINE T == {s \in SUBSET S : g[s] = k[ImageOf(h, s)]}
<1>4. ASSUME NEW s \in SUBSET S, \A x \in s : s \ {x} \in T PROVE s \in T
  <2>1. CASE s = {}
    <3>1. ImageOf(h, s) = {}
      BY <2>1 DEF ImageOf
    <3> QED BY <1>2, <1>3, <2>1, <3>1 DEF IsTally
  <2>2. ASSUME NEW x \in s PROVE s \in T
    <3> DEFINE t == ImageOf(h, s)
    <3>1. t \in SUBSET DOMAIN v /\ h[x] \in t
      BY <1>1 DEF ImageOf
    <3>2. ImageOf(h, s \ {x}) = t \ {h[x]}
      BY DEF ImageOf, Reindexed
    <3> HIDE DEF t
    <3>3. g[s] = w[x] + g[s \ {x}]
      BY <1>2 DEF IsTally
    <3>4. k[t] = v[h[x]] + k[t \ {h[x]}]
      BY <1>3, <3>1 DEF IsTally
    <3>5. g[s \ {x}] = k[t \ {h[x]}]
      BY <1>4, <3>2
    <3>6. g[s] = k[t]
      BY <1>1, <3>3, <3>4, <3>5
    <3> QED BY <3>6 DEF t
  <2> QED BY <2>1, <2>2
<1> HIDE DEF T
<1>5. SUBSET S \subseteq T
  <2>1. Hereditary(S, T)
    BY <1>4 DEF Hereditary
  <2> QED BY <2>1, PartsInduction
<1>6. g[S] = k[ImageOf(h, S)]
  <2>1. S \in T
    BY <1>5
  <2> QED BY <2>1 DEF T
<1>7. ImageOf(h, S) \in SUBSET DOMAIN v
  BY <1>1 DEF ImageOf
<1>8. \A s \in SUBSET DOMAIN v : k[s] \in Nat /\ k[s] <= k[DOMAIN v]
  BY <1>3, PartsSum
<1>9. Cardinality(DOMAIN w) <= Cardinality(DOMAIN v)
  <2>1. h \in Injection(DOMAIN w, DOMAIN v)
    BY DEF Injection, IsInjective, Reindexed
  <2> QED BY <2>1, FS_Injection
<1> QED BY <1>2, <1>3, <1>6, <1>7, <1>8, <1>9
-------------------------------------------------------------------------------
\* A batch less one event: where the others stand in the whole batch.
Shift(i, j) == IF j < i THEN j ELSE j + 1

\* What RemoveAt leaves, and where it was before.
LEMMA Removed ==
  ASSUME NEW events, AreEvents(events), NEW i \in DOMAIN events
  PROVE  /\ AreEvents(RemoveAt(events, i))
         /\ \A j \in DOMAIN RemoveAt(events, i) :
              /\ Shift(i, j) \in DOMAIN events \ {i}
              /\ RemoveAt(events, i)[j] = events[Shift(i, j)]
         /\ \A m \in DOMAIN events \ {i} : \E j \in DOMAIN RemoveAt(events, i) : m = Shift(i, j)
         /\ \A j, k \in DOMAIN RemoveAt(events, i) : j # k => Shift(i, j) # Shift(i, k)
<1>1. DOMAIN events = 1..Len(events) /\ Len(events) \in Nat
  BY Grouped
<1>2. PICK n \in Nat : n = Len(events)
  BY <1>1
<1> DEFINE S == {events[j] : j \in 1..n}
           less == RemoveAt(events, i)
           before == SubSeq(events, 1, i - 1)
           after == SubSeq(events, i + 1, n)
<1>3. events \in Seq(S)
  <2>1. events \in [1..n -> S]
    <3>1. events = [j \in 1..n |-> events[j]]
      BY <1>2 DEF AreEvents
    <3> QED BY <3>1
  <2> QED BY <2>1, SeqDef
<1>4. i \in 1..n
  BY <1>1, <1>2
<1>5. /\ before \in Seq(S) /\ Len(before) = i - 1
      /\ \A j \in 1..(i - 1) : before[j] = events[j]
  <2>1. 1 \in Int /\ i - 1 \in Int /\ \A k \in 1..(i - 1) : events[k] \in S
    BY <1>4
  <2>2. /\ before \in Seq(S)
        /\ Len(before) = IF 1 <= i - 1 THEN i - 1 - 1 + 1 ELSE 0
        /\ \A j \in 1..(i - 1 - 1 + 1) : before[j] = events[1 + j - 1]
    <3> HIDE DEF S
    <3> QED BY <2>1, SubSeqProperties
  <2>3. ASSUME NEW j \in 1..(i - 1) PROVE before[j] = events[j]
    <3>1. j \in 1..(i - 1 - 1 + 1) /\ 1 + j - 1 = j
      BY <1>4
    <3> QED BY <2>2, <3>1
  <2>4. Len(before) = i - 1
    BY <1>4, <2>2
  <2> QED BY <2>2, <2>3, <2>4
<1>6. /\ after \in Seq(S) /\ Len(after) = n - i
      /\ \A j \in 1..(n - i) : after[j] = events[j + i]
  <2>1. i + 1 \in Int /\ n \in Int /\ n - (i + 1) + 1 = n - i
    BY <1>4
  <2>2. \A k \in (i + 1)..n : events[k] \in S
    BY <1>4
  <2>3. /\ after \in Seq(S)
        /\ Len(after) = IF i + 1 <= n THEN n - (i + 1) + 1 ELSE 0
        /\ \A j \in 1..(n - (i + 1) + 1) : after[j] = events[(i + 1) + j - 1]
    <3> HIDE DEF S
    <3> QED BY <2>1, <2>2, SubSeqProperties
  <2>4. ASSUME NEW j \in 1..(n - i) PROVE after[j] = events[j + i]
    <3>1. j \in 1..(n - (i + 1) + 1) /\ (i + 1) + j - 1 = j + i
      BY <1>4
    <3> QED BY <2>3, <3>1
  <2>5. Len(after) = n - i
    BY <1>4, <2>1, <2>3
  <2> QED BY <2>3, <2>4, <2>5
<1>7. less = before \o after
  BY <1>2 DEF RemoveAt
<1> HIDE DEF before, after
<1>8. /\ less \in Seq(S) /\ Len(less) = n - 1
      /\ \A j \in 1..(n - 1) : less[j] = IF j < i THEN before[j] ELSE after[j - (i - 1)]
  <2>1. /\ less \in Seq(S) /\ Len(less) = Len(before) + Len(after)
        /\ \A j \in 1..(Len(before) + Len(after)) :
             less[j] = IF j <= Len(before) THEN before[j] ELSE after[j - Len(before)]
    <3>1. before \in Seq(S) /\ after \in Seq(S)
      BY <1>5, <1>6
    <3> HIDE DEF S, less
    <3>2. /\ before \o after \in Seq(S) /\ Len(before \o after) = Len(before) + Len(after)
          /\ \A j \in 1..(Len(before) + Len(after)) :
               (before \o after)[j] = IF j <= Len(before) THEN before[j] ELSE after[j - Len(before)]
      BY <3>1, ConcatProperties, Zenon
    <3> QED BY <1>7, <3>2, Zenon
  <2>2. Len(before) + Len(after) = n - 1
    BY <1>4, <1>5, <1>6
  <2>3. \A j \in 1..(n - 1) : (j <= Len(before) <=> j < i) /\ j - Len(before) = j - (i - 1)
    BY <1>4, <1>5
  <2> HIDE DEF less
  <2> QED BY <2>1, <2>2, <2>3
<1> HIDE DEF less
<1>9. DOMAIN less = 1..(n - 1)
  BY <1>8, LenProperties
<1>10. ASSUME NEW j \in 1..(n - 1)
       PROVE  Shift(i, j) \in (1..n) \ {i} /\ less[j] = events[Shift(i, j)]
  <2>1. Shift(i, j) \in (1..n) \ {i}
    BY <1>4 DEF Shift
  <2>2. CASE j < i
    BY <1>4, <1>5, <1>8, <2>2 DEF Shift
  <2>3. CASE ~(j < i)
    <3>1. j - (i - 1) \in 1..(n - i) /\ (j - (i - 1)) + i = j + 1
      BY <1>4, <2>3
    <3>2. after[j - (i - 1)] = events[j + 1]
      BY <1>6, <3>1
    <3> QED BY <1>8, <2>1, <2>3, <3>2 DEF Shift
  <2> QED BY <2>1, <2>2, <2>3
<1>11. ASSUME NEW m \in (1..n) \ {i} PROVE \E j \in 1..(n - 1) : m = Shift(i, j)
  <2>1. CASE m < i
    <3>1. m \in 1..(n - 1) /\ Shift(i, m) = m
      BY <1>4, <2>1 DEF Shift
    <3> QED BY <3>1
  <2>2. CASE ~(m < i)
    <3>1. m - 1 \in 1..(n - 1) /\ Shift(i, m - 1) = m
      BY <1>4, <2>2 DEF Shift
    <3> QED BY <3>1
  <2> QED BY <2>1, <2>2
<1>12. ASSUME NEW j \in 1..(n - 1), NEW k \in 1..(n - 1), j # k PROVE Shift(i, j) # Shift(i, k)
  BY <1>4, <1>12 DEF Shift
<1>13. AreEvents(less)
  <2>1. Len(less) \in Nat /\ less = [j \in 1..Len(less) |-> less[j]]
    <3>1. n - 1 \in Nat
      BY <1>4
    <3>2. less = [j \in DOMAIN less |-> less[j]]
      BY <1>8
    <3> QED BY <1>8, <1>9, <3>1, <3>2
  <2>2. \A j \in 1..Len(less) : IsEvent(less[j])
    BY <1>2, <1>8, <1>10 DEF AreEvents
  <2> QED BY <2>1, <2>2 DEF AreEvents
<1> QED BY <1>1, <1>2, <1>9, <1>10, <1>11, <1>12, <1>13 DEF less
-------------------------------------------------------------------------------
\* What the score needs of the constants: the logarithm of one dollar or more
\* is no negative number and grows, and systemic groups have ten events or more
\* (below ten the points for frequency fall where a group becomes systemic).
ScoresGrow ==
  /\ \A m \in Nat \ {0} : LogOf(m) \in Nat /\ \A n \in Nat \ {0} : m <= n => LogOf(m) <= LogOf(n)
  /\ SystemicThreshold >= 10

\* The points of a value, of an age and of a number of events.
AgePoints(y) ==
  IF y <= 1 THEN 10000 ELSE IF y <= 24 THEN 8000 - (2000 * y) \div 24 ELSE IF y <= 168 THEN 3000 ELSE 1000
CountPoints(count) ==
  IF count >= SystemicThreshold THEN Capped(5 * count, 100) ELSE Capped(10 * count, 50)

\* A larger impact has no fewer points.
LEMMA ValueGrows ==
  ASSUME ScoresGrow, NEW a \in Nat, NEW b \in Nat, a <= b
  PROVE  ValueScore(a) \in Nat /\ ValueScore(b) \in Nat /\ ValueScore(a) <= ValueScore(b)
<1>1. ASSUME NEW x \in Nat, x >= 100 PROVE x \div 100 \in Nat \ {0} /\ LogOf(x \div 100) \in Nat
  <2>1. x \div 100 \in Nat \ {0}
    BY <1>1
  <2> QED BY <2>1 DEF ScoresGrow
<1>2. ASSUME NEW x \in Nat PROVE ValueScore(x) \in Nat
  <2>1. CASE x < 100
    BY <2>1 DEF ValueScore
  <2>2. CASE x >= 100
    <3>1. PICK k \in Nat : k = LogOf(x \div 100)
      BY <1>1, <2>2
    <3>2. ValueScore(x) = Capped(15 * k, 10000)
      BY <2>2, <3>1 DEF ValueScore
    <3> QED BY <3>2 DEF Capped
  <2> QED BY <2>1, <2>2
<1>3. CASE a < 100
  <2>1. ValueScore(a) = 0
    BY <1>3 DEF ValueScore
  <2> QED BY <1>2, <2>1
<1>4. CASE a >= 100
  <2>1. b >= 100 /\ a \div 100 <= b \div 100
    BY <1>4
  <2>2. PICK j \in Nat, k \in Nat : j = LogOf(a \div 100) /\ k = LogOf(b \div 100)
    BY <1>1, <1>4, <2>1
  <2>3. j <= k
    <3>1. a \div 100 \in Nat \ {0} /\ b \div 100 \in Nat \ {0}
      BY <1>1, <1>4, <2>1
    <3>2. LogOf(a \div 100) <= LogOf(b \div 100)
      BY <2>1, <3>1 DEF ScoresGrow
    <3> QED BY <2>2, <3>2
  <2>4. ValueScore(a) = Capped(15 * j, 10000) /\ ValueScore(b) = Capped(15 * k, 10000)
    BY <1>4, <2>1, <2>2 DEF ValueScore
  <2>5. Capped(15 * j, 10000) <= Capped(15 * k, 10000)
    BY <2>3 DEF Capped
  <2> QED BY <1>2, <2>4, <2>5
<1> QED BY <1>3, <1>4

\* More events have no fewer points.
LEMMA CountGrows ==
  ASSUME ScoresGrow, NEW a \in Nat, NEW b \in Nat, a <= b
  PROVE  CountPoints(a) \in Nat /\ CountPoints(b) \in Nat /\ CountPoints(a) <= CountPoints(b)
<1>1. PICK t \in Nat : t = SystemicThreshold /\ t >= 10
  BY ThresholdsAssumption DEF ScoresGrow
<1>2. /\ CountPoints(a) = IF a >= t THEN Capped(5 * a, 100) ELSE Capped(10 * a, 50)
      /\ CountPoints(b) = IF b >= t THEN Capped(5 * b, 100) ELSE Capped(10 * b, 50)
  BY <1>1 DEF CountPoints
<1> QED BY <1>1, <1>2 DEF Capped

\* A younger event has no fewer points.
LEMMA AgeGrows ==
  ASSUME NEW y \in Int, NEW z \in Int, y <= z
  PROVE  AgePoints(y) \in Nat /\ AgePoints(z) \in Nat /\ AgePoints(z) <= AgePoints(y)
<1>1. ASSUME NEW x \in 2..24 PROVE (2000 * x) \div 24 \in 0..2000
  BY <1>1
<1>2. ASSUME NEW x \in Int
      PROVE  \/ x <= 1 /\ AgePoints(x) = 10000
             \/ x \in 2..24 /\ AgePoints(x) = 8000 - (2000 * x) \div 24 /\ AgePoints(x) \in 6000..8000
             \/ x \in 25..168 /\ AgePoints(x) = 3000
             \/ x > 168 /\ AgePoints(x) = 1000
  <2>1. CASE x \in 2..24
    <3>1. PICK q \in 0..2000 : q = (2000 * x) \div 24
      BY <1>1, <2>1
    <3>2. AgePoints(x) = 8000 - q
      BY <2>1, <3>1 DEF AgePoints
    <3> QED BY <2>1, <3>1, <3>2
  <2>2. CASE x \notin 2..24
    BY <2>2 DEF AgePoints
  <2> QED BY <2>1, <2>2
<1>3. CASE y \in 2..24 /\ z \in 2..24
  <2>1. (2000 * y) \div 24 <= (2000 * z) \div 24
    BY <1>3
  <2>2. PICK q, r \in Int : q = (2000 * y) \div 24 /\ r = (2000 * z) \div 24
    BY <1>1, <1>3
  <2>3. AgePoints(y) = 8000 - q /\ AgePoints(z) = 8000 - r /\ q \in 0..2000 /\ r \in 0..2000
    BY <1>1, <1>3, <2>2 DEF AgePoints
  <2> QED BY <2>1, <2>2, <2>3
<1>4. CASE ~(y \in 2..24 /\ z \in 2..24)
  <2>1. PICK p, q \in Int : p = AgePoints(y) /\ q = AgePoints(z)
    BY <1>2
  <2> HIDE DEF AgePoints
  <2> QED BY <1>2, <1>4, <2>1
<1> QED BY <1>3, <1>4

\* The weights keep the order of scores.
LEMMA WeightedGrows ==
  ASSUME NEW v \in Nat, NEW w \in Nat, NEW c \in Nat, NEW d \in Nat, NEW s \in Nat,
         NEW f \in Nat, NEW g \in Nat, NEW r \in Nat, NEW t \in Nat,
         v <= w, c <= d, f <= g, r <= t
  PROVE  Weighted(v, c, s, f, r) <= Weighted(w, d, s, g, t)
<1>1. (35 * v) \div 100 <= (35 * w) \div 100 /\ r \div 10 <= t \div 10
  OBVIOUS
<1>2. PICK p \in Int, q \in Int, x \in Int, y \in Int :
        p = (35 * v) \div 100 /\ q = (35 * w) \div 100 /\ x = r \div 10 /\ y = t \div 10
  OBVIOUS
<1>3. p <= q /\ x <= y
  BY <1>1, <1>2
<1>4. p + 25 * c + 20 * s + 10 * f + x <= q + 25 * d + 20 * s + 10 * g + y
  BY <1>3
<1>5. PICK a \in Int, b \in Int :
        a = p + 25 * c + 20 * s + 10 * f + x /\ b = q + 25 * d + 20 * s + 10 * g + y
  OBVIOUS
<1>6. Weighted(v, c, s, f, r) = Capped(a, 10000) /\ Weighted(w, d, s, g, t) = Capped(b, 10000)
  BY <1>2, <1>5 DEF Weighted
<1> QED BY <1>4, <1>5, <1>6 DEF Capped
-------------------------------------------------------------------------------
\* The four oddities of a group.
IsNegative(event) == event.negative \/ event.refund
Oddities(events, group) ==
  {o \in {"negative", "boundary", "missing", "duplicate"} :
     \/ o = "negative" /\ \E i \in group : IsNegative(events[i])
     \/ o = "boundary" /\ \E i \in group : ExtractAmount(events[i]) \in BoundaryValues
     \/ o = "missing" /\ \E i \in group : events[i].source_system = "" \/ events[i].event_type = ""
     \/ o = "duplicate" /\ \E i, j \in group : /\ i # j /\ events[i].hash_sequence # ""
                                               /\ events[i].hash_sequence = events[j].hash_sequence}
Points(odd) ==
  (IF "negative" \in odd THEN 20 ELSE 0) + (IF "boundary" \in odd THEN 25 ELSE 0)
    + (IF "missing" \in odd THEN 15 ELSE 0) + (IF "duplicate" \in odd THEN 30 ELSE 0)

\* The complexity of a group is that of its oddities.
LEMMA ComplexityIs ==
  ASSUME NEW events, NEW group
  PROVE  AssessBehavioralComplexity(events, group) = Points(Oddities(events, group))
<1> DEFINE odd == Oddities(events, group)
<1>1. "negative" \in odd <=> \E i \in group : IsNegative(events[i])
  BY DEF Oddities
<1>2. "boundary" \in odd <=> \E i \in group : ExtractAmount(events[i]) \in BoundaryValues
  BY DEF Oddities
<1>3. "missing" \in odd <=> \E i \in group : events[i].source_system = "" \/ events[i].event_type = ""
  BY DEF Oddities
<1>4. "duplicate" \in odd <=> \E i, j \in group : /\ i # j /\ events[i].hash_sequence # ""
                                                  /\ events[i].hash_sequence = events[j].hash_sequence
  BY DEF Oddities
<1> HIDE DEF odd
<1> QED BY <1>1, <1>2, <1>3, <1>4 DEF AssessBehavioralComplexity, IsNegative, Points, odd

\* More oddities have no fewer points.
LEMMA PointsGrow ==
  ASSUME NEW odd, NEW more, odd \subseteq more
  PROVE  Points(odd) \in Nat /\ Points(more) \in Nat /\ Points(odd) <= Points(more)
BY DEF Points
-------------------------------------------------------------------------------
\* The first event that tells decides on one of the types of control.
LEMMA ControlTypes ==
  ASSUME NEW events, AreEvents(events), NEW group \in SUBSET DOMAIN events
  PROVE  ControlSeverity[DetectControlType(events, group)] \in Nat
<1> DEFINE telling == {i \in group : events[i].keyword # "none"}
<1>1. \A k \in {"preventative", "detective", "corrective", "monitoring"} : ControlSeverity[k] \in Nat
  BY DEF ControlSeverity
<1>2. DOMAIN ControlSeverity = {"preventative", "detective", "corrective", "monitoring"}
  BY DEF ControlSeverity
<1>3. CASE telling = {}
  BY <1>1, <1>3 DEF DetectControlType
<1>4. CASE telling # {}
  <2>1. telling \in SUBSET Nat
    BY Grouped
  <2>2. \E i \in telling : \A j \in telling : i <= j
    <3> HIDE DEF telling
    <3> QED BY <1>4, <2>1, LeastNat
  <2>3. PICK i \in telling : i = CHOOSE k \in telling : \A j \in telling : k <= j
    BY <2>2
  <2>4. DetectControlType(events, group) = events[i].keyword
    BY <1>4, <2>3 DEF DetectControlType
  <2>5. IsEvent(events[i]) /\ events[i].keyword # "none"
    BY Grouped DEF AreEvents
  <2>6. events[i].keyword \in DOMAIN ControlSeverity
    BY <2>5 DEF IsEvent
  <2> QED BY <1>1, <1>2, <2>4, <2>6
<1> QED BY <1>3, <1>4

\* The ages of a group, and the points of the youngest.
AgesOf(events, group) == UNION {events[i].age : i \in group}

\* The marks for recency are those of the youngest event.
LEMMA RecencyIs ==
  ASSUME NEW events, AreEvents(events), NEW group \in SUBSET DOMAIN events
  PROVE  \/ AgesOf(events, group) = {} /\ AssessRecency(events, group) = 5000
         \/ \E y \in AgesOf(events, group) :
              /\ y \in Int /\ \A b \in AgesOf(events, group) : b \in Int /\ y <= b
              /\ AssessRecency(events, group) = AgePoints(y)
<1> DEFINE ages == AgesOf(events, group)
           least == CHOOSE a \in ages : \A b \in ages : a <= b
<1>1. AssessRecency(events, group)
        = CASE ages = {} -> 5000
            [] ages # {} /\ least <= 1 -> 10000
            [] ages # {} /\ least \in 2..24 -> 8000 - (2000 * least) \div 24
            [] ages # {} /\ least \in 25..168 -> 3000
            [] OTHER -> 1000
  BY DEF AssessRecency, AgesOf
<1>2. CASE ages = {}
  <2> HIDE DEF ages, least
  <2>1. AssessRecency(events, group) = 5000
    BY <1>1, <1>2
  <2> QED BY <1>2, <2>1 DEF ages
<1>3. CASE ages # {}
  <2>1. IsFiniteSet(ages) /\ ages \in SUBSET Int
    <3> DEFINE h == [i \in DOMAIN events |-> events[i].age]
               S == {h[i] : i \in group}
    <3>1. \A i \in group : h[i] = events[i].age /\ h[i] \subseteq Int /\ IsFiniteSet(h[i])
      BY Grouped DEF AreEvents, IsEvent
    <3>2. ages = UNION S
      BY DEF AgesOf
    <3>3. IsFiniteSet(group)
      BY Grouped, FS_Subset
    <3> HIDE DEF h, ages
    <3>4. IsFiniteSet(S) /\ \A t \in S : IsFiniteSet(t)
      BY <3>1, <3>3, ImageFinite
    <3>5. ages \subseteq Int
      BY <3>1, <3>2
    <3> HIDE DEF S
    <3> QED BY <3>2, <3>4, <3>5, FS_UNION
  <2>2. HasLeast(ages)
    <3> HIDE DEF ages
    <3> QED BY <1>3, <2>1, LeastExists
  <2>3. PICK y \in ages : y = least /\ \A b \in ages : y <= b
    <3> HIDE DEF ages
    <3> QED BY <2>2 DEF HasLeast
  <2>4. y \in Int /\ \A b \in ages : b \in Int
    BY <2>1
  <2> HIDE DEF least, ages
  <2>5. AssessRecency(events, group)
          = CASE y <= 1 -> 10000 [] y \in 2..24 -> 8000 - (2000 * y) \div 24
              [] y \in 25..168 -> 3000 [] OTHER -> 1000
    BY <1>1, <1>3, <2>3
  <2>6. AssessRecency(events, group) = AgePoints(y)
    BY <2>4, <2>5 DEF AgePoints
  <2> QED BY <2>3, <2>4, <2>6 DEF ages
<1> QED BY <1>2, <1>3
-------------------------------------------------------------------------------
\* A score, by its parts.
LEMMA ScoreIs ==
  ASSUME NEW events, NEW s, NEW group, group = GroupOf(events, s)
  PROVE  FindingOf(events, s).risk_score
           = Weighted(ValueScore(FinancialImpact(events, group)), Points(Oddities(events, group)),
                      ControlSeverity[DetectControlType(events, group)],
                      CountPoints(Cardinality(group)), AssessRecency(events, group))
<1>1. FindingOf(events, s).risk_score
        = ComputeRiskScore(events, group, FinancialImpact(events, group),
                           Cardinality(group) >= SystemicThreshold)
  BY FindingFields
<1>2. AssessBehavioralComplexity(events, group) = Points(Oddities(events, group))
  BY ComplexityIs
<1>3. ComputeRiskScore(events, group, FinancialImpact(events, group), Cardinality(group) >= SystemicThreshold)
        = Weighted(ValueScore(FinancialImpact(events, group)), AssessBehavioralComplexity(events, group),
                   ControlSeverity[DetectControlType(events, group)],
                   CountPoints(Cardinality(group)), AssessRecency(events, group))
  BY DEF ComputeRiskScore, CountPoints
<1> QED BY <1>1, <1>2, <1>3

\* A group without one event, in the whole batch.
LEMMA GroupsShift ==
  ASSUME NEW events, AreEvents(events), NEW i \in DOMAIN events, NEW s, NEW less,
         less = RemoveAt(events, i)
  PROVE  /\ \A j \in GroupOf(less, s) : Shift(i, j) \in GroupOf(events, s) \ {i} /\ less[j] = events[Shift(i, j)]
         /\ \A m \in GroupOf(events, s) \ {i} : \E j \in GroupOf(less, s) : m = Shift(i, j)
         /\ \A j, k \in GroupOf(less, s) : j # k => Shift(i, j) # Shift(i, k)
BY Removed DEF GroupOf

\* Everything that counts for a group's score counts for it in the whole batch.
LEMMA LessCounts ==
  ASSUME NEW events, AreEvents(events), NEW i \in DOMAIN events, NEW s, NEW less,
         less = RemoveAt(events, i)
  PROVE  /\ FinancialImpact(less, GroupOf(less, s)) <= FinancialImpact(events, GroupOf(events, s))
         /\ Cardinality(GroupOf(less, s)) <= Cardinality(GroupOf(events, s))
         /\ Oddities(less, GroupOf(less, s)) \subseteq Oddities(events, GroupOf(events, s))
<1> DEFINE G == GroupOf(events, s)
           H == GroupOf(less, s)
           w == [j \in H |-> ExtractAmount(less[j])]
           v == [m \in G |-> ExtractAmount(events[m])]
           h == [j \in H |-> Shift(i, j)]
<1>1. AreEvents(less)
  BY Removed
<1>2. /\ \A j \in H : Shift(i, j) \in G \ {i} /\ less[j] = events[Shift(i, j)]
      /\ \A j, k \in H : j # k => Shift(i, j) # Shift(i, k)
  BY GroupsShift
<1>3. IsFiniteSet(G) /\ IsFiniteSet(H) /\ G \subseteq DOMAIN events
  BY <1>1, Grouped
<1>4. \A m \in G : ExtractAmount(events[m]) \in Nat
  BY <1>3, AmountType, Grouped DEF AreEvents
<1>5. /\ FinancialImpact(less, H) = SumFunction(w) /\ FinancialImpact(events, G) = SumFunction(v)
      /\ DOMAIN w = H /\ DOMAIN v = G /\ \A y \in G : v[y] \in Nat
  BY <1>4 DEF FinancialImpact
<1>6. Oddities(less, H) \subseteq Oddities(events, G)
  <2> HIDE DEF G, H
  <2>1. (\E j \in H : IsNegative(less[j])) => \E m \in G : IsNegative(events[m])
    BY <1>2
  <2>2. (\E j \in H : ExtractAmount(less[j]) \in BoundaryValues)
          => \E m \in G : ExtractAmount(events[m]) \in BoundaryValues
    BY <1>2
  <2>3. (\E j \in H : less[j].source_system = "" \/ less[j].event_type = "")
          => \E m \in G : events[m].source_system = "" \/ events[m].event_type = ""
    BY <1>2
  <2>4. ASSUME NEW j \in H, NEW k \in H, j # k, less[j].hash_sequence # "",
               less[j].hash_sequence = less[k].hash_sequence
        PROVE  \E m, n \in G : /\ m # n /\ events[m].hash_sequence # ""
                               /\ events[m].hash_sequence = events[n].hash_sequence
    BY <1>2, <2>4
  <2> QED BY <2>1, <2>2, <2>3, <2>4 DEF Oddities
<1> HIDE DEF G, H
<1>7. Reindexed(w, v, h)
  BY <1>2 DEF Reindexed
<1> HIDE DEF w, v, h
<1>8. SumFunction(w) <= SumFunction(v) /\ Cardinality(H) <= Cardinality(G)
  BY <1>3, <1>5, <1>7, FewerTerms
<1> QED BY <1>5, <1>6, <1>8 DEF G, H

\* Without one event a group has no more points for recency, unless that event
\* is its only dated one.
LEMMA LessRecent ==
  ASSUME NEW events, AreEvents(events), NEW i \in DOMAIN events, NEW s, NEW less,
         less = RemoveAt(events, i), ~OnlyDated(events, GroupOf(events, s), i) \/ i \notin GroupOf(events, s)
  PROVE  /\ AssessRecency(less, GroupOf(less, s)) \in Nat
         /\ AssessRecency(events, GroupOf(events, s)) \in Nat
         /\ AssessRecency(less, GroupOf(less, s)) <= AssessRecency(events, GroupOf(events, s))
<1> DEFINE G == GroupOf(events, s)
           H == GroupOf(less, s)
           all == AgesOf(events, G)
           ages == AgesOf(less, H)
<1>1. AreEvents(less) /\ G \in SUBSET DOMAIN events
  BY Removed, Grouped
<1>2. H \in SUBSET DOMAIN less
  BY <1>1, Grouped
<1>3. \/ all = {} /\ AssessRecency(events, G) = 5000
      \/ \E y \in all : /\ y \in Int /\ \A b \in all : b \in Int /\ y <= b
                        /\ AssessRecency(events, G) = AgePoints(y)
  BY <1>1, RecencyIs
<1>4. \/ ages = {} /\ AssessRecency(less, H) = 5000
      \/ \E y \in ages : /\ y \in Int /\ \A b \in ages : b \in Int /\ y <= b
                         /\ AssessRecency(less, H) = AgePoints(y)
  BY <1>1, <1>2, RecencyIs
<1>5. ages \subseteq all
  <2>1. \A j \in H : Shift(i, j) \in G /\ less[j] = events[Shift(i, j)]
    BY GroupsShift
  <2> QED BY <2>1 DEF AgesOf
<1>6. ages = {} => all = {}
  <2> SUFFICES ASSUME ages = {}, NEW a \in all PROVE FALSE
    OBVIOUS
  <2>1. PICK m \in G : a \in events[m].age
    BY DEF AgesOf
  <2>2. \A n \in G \ {i} : events[n].age = {}
    <3> SUFFICES ASSUME NEW n \in G \ {i}, NEW b \in events[n].age PROVE FALSE
      OBVIOUS
    <3>1. PICK j \in H : n = Shift(i, j) /\ less[j] = events[n]
      BY GroupsShift
    <3>2. b \in ages
      BY <3>1 DEF AgesOf
    <3> QED BY <3>2
  <2>3. m = i
    BY <2>1, <2>2
  <2> QED BY <2>1, <2>2, <2>3 DEF OnlyDated
<1> HIDE DEF G, H, all, ages
<1>7. CASE ages = {}
  BY <1>3, <1>4, <1>6, <1>7 DEF G, H
<1>8. CASE ages # {}
  <2>1. PICK z \in ages : z \in Int /\ AssessRecency(less, H) = AgePoints(z)
    BY <1>4, <1>8
  <2>2. PICK y \in all : y \in Int /\ (\A b \in all : y <= b) /\ AssessRecency(events, G) = AgePoints(y)
    BY <1>3, <1>5, <2>1
  <2>3. y <= z
    BY <1>5, <2>1, <2>2
  <2> QED BY <2>1, <2>2, <2>3, AgeGrows DEF G, H
<1> QED BY <1>7, <1>8

\* A finding of the batch without one event is one of the whole batch, with no
\* lower score.
Outdone(events, i, fewer, findings) ==
  \E f \in findings :
    /\ f.category = fewer.category
    /\ fewer.risk_score <= f.risk_score \/ fewer.control_type # f.control_type
         \/ OnlyDated(events, f.raw_event_ids, i)

\* For every event of a batch, what the batch without it finds is outdone.
LEMMA MoreIsNoLess ==
  ASSUME ScoresGrow, NEW events, AreEvents(events), NEW i \in DOMAIN events,
         NEW fewer \in ProcessEvents(RemoveAt(events, i)).findings
  PROVE  Outdone(events, i, fewer, ProcessEvents(events).findings)
<1>1. PICK less : less = RemoveAt(events, i)
  OBVIOUS
<1>2. PICK s \in Kept(less) : fewer = FindingOf(less, s)
  BY <1>1, ProcessFields
<1> DEFINE G == GroupOf(events, s)
           H == GroupOf(less, s)
<1>3. AreEvents(less)
  BY <1>1, Removed
<1>4. /\ G \in SUBSET DOMAIN events /\ Cardinality(G) \in Nat
      /\ H \in SUBSET DOMAIN less /\ Cardinality(H) \in Nat
  BY <1>3, Grouped
<1>5. /\ FinancialImpact(less, H) <= FinancialImpact(events, G) /\ Cardinality(H) <= Cardinality(G)
      /\ Oddities(less, H) \subseteq Oddities(events, G)
  BY <1>1, LessCounts
<1>6. FinancialImpact(less, H) \in Nat /\ FinancialImpact(events, G) \in Nat
  BY <1>3, <1>4, ImpactBounds
<1>7. s \in Kept(events)
  <2>1. s \in Deduplicate(less) /\ ~Cleared(less, s)
    BY DEF Kept
  <2>2. PICK j \in DOMAIN less : s = ComputeEventSignature(less[j])
    BY <2>1 DEF Deduplicate
  <2>3. s \in Deduplicate(events)
    BY <1>1, <2>2, Removed DEF Deduplicate
  <2>4. ~Cleared(events, s)
    BY <1>4, <1>5, <1>6, <2>1, ThresholdsAssumption DEF Cleared
  <2> QED BY <2>3, <2>4 DEF Kept
<1>8. PICK f : f = FindingOf(events, s)
  OBVIOUS
<1>9. f \in ProcessEvents(events).findings
  BY <1>7, <1>8, ProcessFields
<1>10. /\ f.category = s /\ fewer.category = s /\ f.raw_event_ids = G
       /\ f.control_type = DetectControlType(events, G)
       /\ fewer.control_type = DetectControlType(less, H)
  BY <1>2, <1>8, FindingFields
<1>11. ASSUME fewer.control_type = f.control_type, ~OnlyDated(events, G, i)
       PROVE  fewer.risk_score <= f.risk_score
  <2>1. PICK v, w, c, d, k, p, q, r, t :
          /\ v = ValueScore(FinancialImpact(less, H)) /\ w = ValueScore(FinancialImpact(events, G))
          /\ c = Points(Oddities(less, H)) /\ d = Points(Oddities(events, G))
          /\ k = ControlSeverity[DetectControlType(events, G)]
          /\ p = CountPoints(Cardinality(H)) /\ q = CountPoints(Cardinality(G))
          /\ r = AssessRecency(less, H) /\ t = AssessRecency(events, G)
    OBVIOUS
  <2>2. f.risk_score = Weighted(w, d, k, q, t)
    BY <1>8, <2>1, ScoreIs
  <2>3. fewer.risk_score = Weighted(v, c, k, p, r)
    <3>1. ControlSeverity[DetectControlType(less, H)] = k
      BY <1>10, <1>11, <2>1
    <3>2. fewer.risk_score = Weighted(ValueScore(FinancialImpact(less, H)), Points(Oddities(less, H)),
                                      ControlSeverity[DetectControlType(less, H)],
                                      CountPoints(Cardinality(H)), AssessRecency(less, H))
      BY <1>2, ScoreIs
    <3> QED BY <2>1, <3>1, <3>2
  <2>4. v \in Nat /\ w \in Nat /\ v <= w
    BY <1>5, <1>6, <2>1, ValueGrows
  <2>5. c \in Nat /\ d \in Nat /\ c <= d
    BY <1>5, <2>1, PointsGrow
  <2>6. k \in Nat
    BY <1>4, <2>1, ControlTypes
  <2>7. p \in Nat /\ q \in Nat /\ p <= q
    BY <1>4, <1>5, <2>1, CountGrows
  <2>8. r \in Nat /\ t \in Nat /\ r <= t
    BY <1>1, <1>11, <2>1, LessRecent
  <2>9. Weighted(v, c, k, p, r) <= Weighted(w, d, k, q, t)
    <3> HIDE DEF G, H
    <3> QED BY <2>4, <2>5, <2>6, <2>7, <2>8, WeightedGrows
  <2> QED BY <2>2, <2>3, <2>9
<1> QED BY <1>9, <1>10, <1>11 DEF Outdone
-------------------------------------------------------------------------------
\* The issues a summary is charged with.
Issues(summary, records) ==
  CheckRecordCounts(summary, records)
    \cup CheckFinancialTotals(summary, records) \cup CheckPriorityDistribution(summary)
    \cup CheckSourceReferences(summary, records) \cup CheckHashClaims(summary, records)
    \cup CheckTemporalClaims(summary, records)

\* A valid summary is charged with warnings only.
LEMMA ValidMeansWarnings ==
  ASSUME NEW summary, NEW records, VerifySummary(summary, records).is_valid
  PROVE  \A issue \in Issues(summary, records) : issue.kind = "warning"
<1>1. PICK issues : issues = Issues(summary, records)
  OBVIOUS
<1>2. VerifySummary(summary, records) = IntegrityCheckResult(issues)
  BY <1>1 DEF VerifySummary, Issues
<1>3. IntegrityCheckResult(issues).is_valid = (issues = {issue \in issues : issue.kind = "warning"})
  BY DEF IntegrityCheckResult
<1>4. issues = {issue \in issues : issue.kind = "warning"}
  BY <1>2, <1>3
<1> QED BY <1>1, <1>4

\* The actual total is never negative.
LEMMA TotalType ==
  ASSUME NEW records, AreEvents(records) PROVE ActualTotal(records) \in Nat
<1> DEFINE w == [i \in DOMAIN records |-> RecordAmount(records[i])]
<1>1. ASSUME NEW S \in SUBSET Int, S # {} PROVE Magnitude(TheOnly(S)) \in Nat
  <2>1. TheOnly(S) \in Int
    BY <1>1 DEF TheOnly
  <2> QED BY <2>1 DEF Magnitude
<1>2. ASSUME NEW i \in DOMAIN records PROVE w[i] \in Nat
  <2>1. IsEvent(records[i])
    BY Grouped DEF AreEvents
  <2>2. \A S \in {records[i].value, records[i].logged} : S # {} => Magnitude(TheOnly(S)) \in Nat
    BY <1>1, <2>1 DEF IsEvent
  <2> QED BY <2>2 DEF RecordAmount
<1>3. ActualTotal(records) = SumFunction(w) /\ DOMAIN w = DOMAIN records /\ IsFiniteSet(DOMAIN records)
  BY Grouped DEF ActualTotal
<1> HIDE DEF w
<1>4. PICK g : IsTally(w, g) /\ SumFunction(w) = g[DOMAIN w]
  BY <1>2, <1>3, Sums
<1>5. g[DOMAIN w] \in Nat
  BY <1>2, <1>3, <1>4, PartsSum
<1> QED BY <1>3, <1>4, <1>5

\* What AcceptedClaimsAreTrue says of one claim.
ClaimTyped(summary, records) ==
  /\ AreEvents(records)
  /\ \A k \in {"total_raw_events", "total_financial_impact"} \cap DOMAIN summary :
       summary[k] \in Int /\ summary[k] # 0
ClaimTrue(summary, records) ==
  LET claimed == Field(summary, "total_financial_impact", 0)
      actual == ActualTotal(records)
      off == Magnitude(claimed - actual)
  IN /\ Field(summary, "total_raw_events", Len(records)) = Len(records)
     /\ "total_financial_impact" \in DOMAIN summary =>
          off <= 10000 \/ off <= actual \div 20 \/ (actual = 0 /\ claimed < 0)

\* A claim that is found valid is true.
LEMMA ValidClaimIsTrue ==
  ASSUME NEW summary, NEW records, ClaimTyped(summary, records), VerifySummary(summary, records).is_valid
  PROVE  ClaimTrue(summary, records)
<1>1. AreEvents(records)
  BY DEF ClaimTyped
<1>2. \A issue \in Issues(summary, records) : issue.kind = "warning"
  BY ValidMeansWarnings
<1>3. ASSUME NEW k \in {"total_raw_events", "total_financial_impact"}, k \in DOMAIN summary, NEW other
      PROVE  Claimed(summary, k, other) = {summary[k]} /\ Field(summary, k, 0) = summary[k]
             /\ summary[k] \in Int
  BY <1>3 DEF ClaimTyped, Claimed, Given, Field
<1>4. Field(summary, "total_raw_events", Len(records)) = Len(records)
  <2>1. CASE "total_raw_events" \notin DOMAIN summary
    BY <2>1 DEF Field
  <2>2. CASE "total_raw_events" \in DOMAIN summary
    <3>1. PICK c : c = summary["total_raw_events"]
      OBVIOUS
    <3>2. Claimed(summary, "total_raw_events", "total_records") = {c} /\ c \in Int
      BY <1>3, <2>2, <3>1
    <3>3. SUFFICES ASSUME c # Len(records) PROVE FALSE
      BY <2>2, <3>1 DEF Field
    <3>4. Cardinality(DOMAIN records) = Len(records) /\ Len(records) \in Nat
      BY <1>1, Grouped
    <3>5. Magnitude(c - Cardinality(DOMAIN records)) # 0
      BY <3>2, <3>3, <3>4 DEF Magnitude
    <3>6. \E grave : Issue("discrepancy", "total_raw_events", grave) \in CheckRecordCounts(summary, records)
      BY <3>2, <3>5 DEF CheckRecordCounts
    <3>7. \E grave : Issue("discrepancy", "total_raw_events", grave) \in Issues(summary, records)
      BY <3>6 DEF Issues
    <3> QED BY <1>2, <3>7 DEF Issue
  <2> QED BY <2>1, <2>2
<1>5. ASSUME "total_financial_impact" \in DOMAIN summary
      PROVE  LET claimed == Field(summary, "total_financial_impact", 0)
                 actual == ActualTotal(records)
                 off == Magnitude(claimed - actual)
             IN off <= 10000 \/ off <= actual \div 20 \/ (actual = 0 /\ claimed < 0)
  <2>1. PICK c : c = summary["total_financial_impact"]
    OBVIOUS
  <2>2. /\ Claimed(summary, "total_financial_impact", "total_amount") = {c} /\ c \in Int
        /\ Field(summary, "total_financial_impact", 0) = c
    BY <1>3, <1>5, <2>1
  <2>3. PICK actual \in Nat : actual = ActualTotal(records)
    BY <1>1, TotalType
  <2> DEFINE off == Magnitude(c - actual)
             wrong == IF actual > 0 THEN off > actual \div 20 /\ off > 10000 ELSE c > 10000
  <2>4. wrong => Issue("math_error", "total_financial_impact", "critical")
                   \in CheckFinancialTotals(summary, records)
    BY <2>2, <2>3 DEF CheckFinancialTotals
  <2>5. ~wrong
    <3>1. wrong => Issue("math_error", "total_financial_impact", "critical") \in Issues(summary, records)
      BY <2>4 DEF Issues
    <3>2. Issue("math_error", "total_financial_impact", "critical").kind # "warning"
      BY DEF Issue
    <3> HIDE DEF wrong
    <3> QED BY <1>2, <3>1, <3>2
  <2>6. off \in Int
    BY <2>2, <2>3 DEF Magnitude
  <2>7. CASE actual > 0
    <3>1. PICK q \in Int : q = actual \div 20
      OBVIOUS
    <3>2. off <= q \/ off <= 10000
      <4> HIDE DEF off
      <4> QED BY <2>5, <2>6, <2>7, <3>1
    <3> QED BY <2>2, <2>3, <3>1, <3>2
  <2>8. CASE actual = 0
    <3>1. c <= 10000
      BY <2>2, <2>5, <2>8
    <3>2. c < 0 \/ off <= 10000
      BY <2>2, <2>8, <3>1 DEF Magnitude
    <3> QED BY <2>2, <2>3, <2>8, <3>2
  <2> QED BY <2>7, <2>8
<1> QED BY <1>4, <1>5 DEF ClaimTrue
-------------------------------------------------------------------------------
Ids(findings) == {f.finding_id : f \in findings}

\* The findings the database holds or lost.  None is ever deleted.
Known == DOMAIN store.findings \cup faults.lost

\* The variables are records and functions of the fields the steps write.
IsStore(x) == \E f, s, v, t : x = [findings |-> f, summaries |-> s, verifications |-> v, tests |-> t]
IsFaults(x) == \E n, l : x = [number |-> n, lost |-> l]
IsRequest(x) == \E p, b, r, a : x = [step |-> p, batch |-> b, result |-> r, answer |-> a]
Shape == /\ IsStore(store) /\ IsFaults(faults)
         /\ request = [c \in Clients |-> request[c]] /\ \A c \in Clients : IsRequest(request[c])

\* A request that saved its findings left each in the table or among the lost.
SavedAreKnown ==
  \A c \in Clients : request[c].step = "saved" => Ids(request[c].result.findings) \subseteq Known

\* The rows of the summaries come from a set of summaries of known findings.
SummariesAreBacked ==
  \E S : store.summaries \in Seq(S) /\ \A summary \in S : summary.top_findings \subseteq Known

IInv == Shape /\ SavedAreKnown /\ SummariesAreBacked
-------------------------------------------------------------------------------
\* A summary names findings of its batch only.
LEMMA NamesItsFindings ==
  ASSUME NEW findings, NEW stats
  PROVE  GenerateExecutiveSummary(findings, stats).top_findings \subseteq Ids(findings)
BY DEF GenerateExecutiveSummary, Ids

\* An upsert keeps the ids of the table and adds those of the rows.
LEMMA UpsertAdds ==
  ASSUME NEW table, NEW findings
  PROVE  DOMAIN Upsert(table, FindingRows(findings)) = DOMAIN table \cup Ids(findings)
BY DEF Upsert, FindingRows, Ids

\* A step that writes no summary, and loses no finding, keeps each backed.
LEMMA SummariesStay ==
  ASSUME SummariesAreBacked, Known \subseteq Known', store'.summaries = store.summaries
  PROVE  SummariesAreBacked'
BY DEF SummariesAreBacked

\* A row that names known findings joins the summaries.
LEMMA SummaryAdded ==
  ASSUME SummariesAreBacked, Known \subseteq Known', NEW summary,
         summary.top_findings \subseteq Known', store'.summaries = Append(store.summaries, summary)
  PROVE  SummariesAreBacked'
<1>1. PICK S : store.summaries \in Seq(S) /\ \A x \in S : x.top_findings \subseteq Known
  BY DEF SummariesAreBacked
<1>2. store.summaries \in Seq(S \cup {summary})
  BY <1>1, SeqMonotonic
<1>3. store'.summaries \in Seq(S \cup {summary})
  BY <1>2, AppendProperties
<1> QED BY <1>1, <1>3 DEF SummariesAreBacked

\* An error of the database is counted, and nothing is lost by it.
LEMMA FaultsUpdated ==
  ASSUME IsFaults(faults), UNCHANGED faults \/ Failing
  PROVE  IsFaults(faults') /\ faults'.lost = faults.lost
<1>1. PICK n, l : faults = [number |-> n, lost |-> l]
  BY DEF IsFaults
<1>2. faults' = faults \/ faults' = [number |-> n + 1, lost |-> l]
  BY <1>1 DEF Failing
<1> QED BY <1>1, <1>2 DEF IsFaults

\* A request whose step is updated is a request at that step.
LEMMA StepUpdated ==
  ASSUME NEW x, IsRequest(x), NEW p, NEW y, y = [x EXCEPT !.step = p]
  PROVE  IsRequest(y) /\ y.step = p
<1>1. PICK p1, b1, r1, a1 : x = [step |-> p1, batch |-> b1, result |-> r1, answer |-> a1]
  BY DEF IsRequest
<1>2. y = [step |-> p, batch |-> b1, result |-> r1, answer |-> a1]
  BY <1>1
<1> QED BY <1>1, <1>2 DEF IsRequest

\* A request of which another field is updated stays at its step.
LEMMA FieldUpdated ==
  ASSUME NEW x, IsRequest(x), NEW d, NEW y,
         \/ y = [x EXCEPT !.batch = d] \/ y = [x EXCEPT !.result = d] \/ y = [x EXCEPT !.answer = d]
  PROVE  IsRequest(y) /\ y.step = x.step
<1>1. PICK p1, b1, r1, a1 : x = [step |-> p1, batch |-> b1, result |-> r1, answer |-> a1]
  BY DEF IsRequest
<1>2. \/ y = [step |-> p1, batch |-> d, result |-> r1, answer |-> a1]
      \/ y = [step |-> p1, batch |-> b1, result |-> d, answer |-> a1]
      \/ y = [step |-> p1, batch |-> b1, result |-> r1, answer |-> d]
  BY <1>1
<1> QED BY <1>1, <1>2 DEF IsRequest

\* A request that is replaced leaves the others alone.
LEMMA RequestReplaced ==
  ASSUME Shape, SavedAreKnown, Known \subseteq Known', NEW c \in Clients, NEW new,
         request' = [request EXCEPT ![c] = new], IsRequest(new),
         new.step = "saved" => Ids(new.result.findings) \subseteq Known',
         IsStore(store'), IsFaults(faults')
  PROVE  Shape' /\ SavedAreKnown'
<1>1. request' = [d \in Clients |-> IF d = c THEN new ELSE request[d]]
  BY DEF Shape
<1>2. \A d \in Clients : IsRequest(request'[d])
  BY <1>1 DEF Shape
<1>3. request' = [d \in Clients |-> request'[d]]
  BY <1>1
<1>4. Shape'
  BY <1>2, <1>3 DEF Shape
<1>5. SavedAreKnown'
  BY <1>1 DEF SavedAreKnown
<1> QED BY <1>4, <1>5

\* A step that writes no request.
LEMMA RequestsStay ==
  ASSUME Shape, SavedAreKnown, Known \subseteq Known', request' = request,
         IsStore(store'), IsFaults(faults')
  PROVE  Shape' /\ SavedAreKnown'
BY DEF Shape, SavedAreKnown
-------------------------------------------------------------------------------
\* A request's steps, one by one.
LEMMA ClientKeeps ==
  ASSUME IInv, NEW c \in Clients, NEW sent, NEW claimed, ClientStep(c, sent, claimed)
  PROVE  IInv'
<1>1. /\ Shape /\ SavedAreKnown /\ SummariesAreBacked /\ IsStore(store) /\ IsFaults(faults)
      /\ IsRequest(request[c]) /\ request = [d \in Clients |-> request[d]]
  BY DEF IInv, Shape
<1>2. ASSUME UNCHANGED faults \/ Failing, NEW new, IsRequest(new), new.step # "saved",
             NEW rows, NEW tests, store' = [store EXCEPT !.verifications = rows, !.tests = tests],
             request' = [request EXCEPT ![c] = new]
      PROVE  IInv'
  <2>1. IsStore(store') /\ store'.findings = store.findings /\ store'.summaries = store.summaries
    <3>1. PICK f, s, v, t : store = [findings |-> f, summaries |-> s, verifications |-> v, tests |-> t]
      BY <1>1 DEF IsStore
    <3>2. store' = [findings |-> f, summaries |-> s, verifications |-> rows, tests |-> tests]
      BY <1>2, <3>1
    <3> QED BY <3>1, <3>2 DEF IsStore
  <2>2. IsFaults(faults') /\ faults'.lost = faults.lost
    BY <1>1, <1>2, FaultsUpdated
  <2>3. Known' = Known
    BY <2>1, <2>2 DEF Known
  <2>4. Shape' /\ SavedAreKnown'
    BY <1>1, <1>2, <2>1, <2>2, <2>3, RequestReplaced
  <2>5. SummariesAreBacked'
    BY <1>1, <2>1, <2>3, SummariesStay
  <2> QED BY <2>4, <2>5 DEF IInv
<1>3. store = [store EXCEPT !.verifications = store.verifications, !.tests = store.tests]
  <2>1. PICK f, s, v, t : store = [findings |-> f, summaries |-> s, verifications |-> v, tests |-> t]
    BY <1>1 DEF IsStore
  <2> QED BY <2>1
<1>4. ASSUME NEW x
      PROVE  /\ [store EXCEPT !.verifications = x] = [store EXCEPT !.verifications = x, !.tests = store.tests]
             /\ [store EXCEPT !.tests = x] = [store EXCEPT !.verifications = store.verifications, !.tests = x]
  <2>1. PICK f, s, v, t : store = [findings |-> f, summaries |-> s, verifications |-> v, tests |-> t]
    BY <1>1 DEF IsStore
  <2> QED BY <2>1
<1>5. IsRequest(Idle) /\ Idle.step = "idle"
  BY DEF Idle, IsRequest
<1>6. ASSUME NEW batch, Process(c, batch) PROVE IInv'
  <2>1. UNCHANGED <<store, faults>>
    BY <1>6 DEF Process
  <2>2. \E new : /\ IsRequest(new) /\ new.step # "saved"
                 /\ request' = [request EXCEPT ![c] = new]
    <3>1. CASE request' = [request EXCEPT ![c] =
                 [Idle EXCEPT !.step = "validated", !.batch = batch, !.result = Processed[batch]]]
      <4>1. PICK moved : moved = [Idle EXCEPT !.step = "validated"]
        OBVIOUS
      <4>2. PICK filled : filled = [moved EXCEPT !.batch = batch]
        OBVIOUS
      <4>3. PICK new : new = [filled EXCEPT !.result = Processed[batch]]
        OBVIOUS
      <4>4. IsRequest(moved) /\ moved.step = "validated"
        BY <1>5, <4>1, StepUpdated, Zenon
      <4>5. IsRequest(filled) /\ filled.step = "validated"
        BY <4>2, <4>4, FieldUpdated, Zenon
      <4>6. IsRequest(new) /\ new.step = "validated"
        BY <4>3, <4>5, FieldUpdated, Zenon
      <4>7. new = [Idle EXCEPT !.step = "validated", !.batch = batch, !.result = Processed[batch]]
        BY <4>1, <4>2, <4>3, Zenon
      <4> QED BY <3>1, <4>6, <4>7, Zenon
    <3>2. CASE request' = [request EXCEPT ![c] = [Idle EXCEPT !.answer = [status |-> 500]]]
      <4>1. PICK new : new = [Idle EXCEPT !.answer = [status |-> 500]]
        OBVIOUS
      <4>2. IsRequest(new) /\ new.step = Idle.step
        BY <1>5, <4>1, FieldUpdated
      <4>3. new.step # "saved"
        BY <1>5, <4>2
      <4> QED BY <3>2, <4>1, <4>2, <4>3, Zenon
    <3> QED BY <1>6, <3>1, <3>2 DEF Process
  <2> QED BY <1>2, <1>3, <2>1, <2>2
<1>7. ASSUME UNCHANGED faults \/ Failing, NEW rows, NEW tests, NEW answer,
             store' = [store EXCEPT !.verifications = rows, !.tests = tests],
             request' = [request EXCEPT ![c] = [Idle EXCEPT !.answer = answer]]
      PROVE  IInv'
  <2>1. PICK new : new = [Idle EXCEPT !.answer = answer]
    OBVIOUS
  <2>2. IsRequest(new) /\ new.step # "saved"
    BY <1>5, <2>1, FieldUpdated
  <2>3. request' = [request EXCEPT ![c] = new]
    BY <1>7, <2>1, Zenon
  <2> QED BY <1>2, <1>7, <2>2, <2>3
<1>8. ASSUME NEW lost, SaveFindings(c, lost) PROVE IInv'
  <2> DEFINE all == request[c].result.findings
             table == Upsert(store.findings, FindingRows(all \ lost))
             new == [request[c] EXCEPT !.step = "saved"]
  <2>1. /\ lost \subseteq all
        /\ store' = [store EXCEPT !.findings = table]
        /\ request' = [request EXCEPT ![c] = new]
    BY <1>8 DEF SaveFindings
  <2>2. DOMAIN table = DOMAIN store.findings \cup Ids(all \ lost)
    BY UpsertAdds
  <2>3. IsRequest(new) /\ new.result = request[c].result
    <3>1. PICK p, b, r, a : request[c] = [step |-> p, batch |-> b, result |-> r, answer |-> a]
      BY <1>1 DEF IsRequest
    <3>2. new = [step |-> "saved", batch |-> b, result |-> r, answer |-> a]
      BY <3>1
    <3> QED BY <3>1, <3>2 DEF IsRequest
  <2> HIDE DEF table, new
  <2>4. IsStore(store') /\ store'.findings = table /\ store'.summaries = store.summaries
    <3>1. PICK f, s, v, t : store = [findings |-> f, summaries |-> s, verifications |-> v, tests |-> t]
      BY <1>1 DEF IsStore
    <3>2. store' = [findings |-> table, summaries |-> s, verifications |-> v, tests |-> t]
      BY <2>1, <3>1
    <3> QED BY <3>1, <3>2 DEF IsStore
  <2>5. IsFaults(faults') /\ faults'.lost = faults.lost \cup Ids(lost)
    <3>1. CASE lost = {}
      BY <1>1, <1>8, <3>1 DEF SaveFindings, Ids
    <3>2. CASE lost # {}
      BY <1>8, <3>2 DEF SaveFindings, Ids, IsFaults
    <3> QED BY <3>1, <3>2
  <2>6. Known \subseteq Known' /\ Ids(all) \subseteq Known'
    BY <2>1, <2>2, <2>4, <2>5 DEF Known, Ids
  <2>7. Ids(new.result.findings) \subseteq Known'
    BY <2>3, <2>6
  <2> HIDE DEF all
  <2>8. Shape' /\ SavedAreKnown'
    BY <1>1, <2>1, <2>3, <2>4, <2>5, <2>6, <2>7, RequestReplaced
  <2>9. SummariesAreBacked'
    BY <1>1, <2>4, <2>6, SummariesStay
  <2> QED BY <2>8, <2>9 DEF IInv
<1>9. CASE SaveSummary(c)
  <2> DEFINE summary == GenerateExecutiveSummary(request[c].result.findings, request[c].result.summary)
             new == [request[c] EXCEPT !.step = "summarised", !.answer = summary]
  <2>1. /\ request[c].step = "saved"
        /\ store' = [store EXCEPT !.summaries = Append(store.summaries, summary)]
        /\ request' = [request EXCEPT ![c] = [request[c] EXCEPT !.step = "summarised", !.answer = summary]]
        /\ faults' = faults
    BY <1>9 DEF SaveSummary
  <2>2. summary.top_findings \subseteq Known
    BY <1>1, <2>1, NamesItsFindings DEF SavedAreKnown
  <2> HIDE DEF summary
  <2>3. IsRequest(new) /\ new.step = "summarised"
    <3>1. PICK moved : moved = [request[c] EXCEPT !.step = "summarised"]
      OBVIOUS
    <3>2. PICK y : y = [moved EXCEPT !.answer = summary]
      OBVIOUS
    <3>3. IsRequest(y) /\ y.step = "summarised"
      <4>1. IsRequest(moved) /\ moved.step = "summarised"
        BY <1>1, <3>1, StepUpdated, Zenon
      <4> QED BY <3>2, <4>1, FieldUpdated, Zenon
    <3>4. y = new
      BY <3>1, <3>2, Zenon
    <3> QED BY <3>3, <3>4, Zenon
  <2> HIDE DEF new
  <2>4. /\ IsStore(store') /\ store'.findings = store.findings
        /\ store'.summaries = Append(store.summaries, summary)
    <3>1. PICK f, s, v, t : store = [findings |-> f, summaries |-> s, verifications |-> v, tests |-> t]
      BY <1>1 DEF IsStore
    <3>2. store' = [findings |-> f, summaries |-> Append(s, summary), verifications |-> v, tests |-> t]
      BY <2>1, <3>1
    <3> QED BY <3>1, <3>2 DEF IsStore
  <2>5. Known' = Known
    BY <2>1, <2>4 DEF Known
  <2>6. request' = [request EXCEPT ![c] = new]
    BY <2>1 DEF new
  <2>7. Shape' /\ SavedAreKnown'
    BY <1>1, <2>1, <2>3, <2>4, <2>5, <2>6, RequestReplaced
  <2>8. SummariesAreBacked'
    BY <1>1, <2>2, <2>4, <2>5, SummaryAdded
  <2> QED BY <2>7, <2>8 DEF IInv
<1>10. CASE SaveVerification(c)
  <2>1. PICK rows : store' = [store EXCEPT !.verifications = rows]
    BY <1>10 DEF SaveVerification
  <2>2. store' = [store EXCEPT !.verifications = rows, !.tests = store.tests]
    BY <1>4, <2>1
  <2>3. request' = [request EXCEPT ![c] = [Idle EXCEPT !.answer = [status |-> 200]]]
    BY <1>10 DEF SaveVerification
  <2>4. UNCHANGED faults
    BY <1>10 DEF SaveVerification
  <2> QED BY <1>7, <2>2, <2>3, <2>4, Zenon
<1>11. CASE StoreFails(c)
  <2>1. store' = [store EXCEPT !.verifications = store.verifications, !.tests = store.tests]
    BY <1>3, <1>11 DEF StoreFails
  <2>2. request' = [request EXCEPT ![c] = [Idle EXCEPT !.answer = [status |-> 500]]]
    BY <1>11 DEF StoreFails
  <2>3. Failing
    BY <1>11 DEF StoreFails
  <2> QED BY <1>7, <2>1, <2>2, <2>3, Zenon
<1>12. ASSUME NEW claim, VerifyIntegrity(c, claim) PROVE IInv'
  <2>1. PICK result :
          /\ store' = [store EXCEPT !.verifications = Append(@, Verification("manual_verification", result))]
          /\ request' = [request EXCEPT ![c] =
               [Idle EXCEPT !.answer = [status |-> 200, claim |-> claim, result |-> result]]]
    BY <1>12 DEF VerifyIntegrity
  <2> DEFINE rows == Append(store.verifications, Verification("manual_verification", result))
             answer == [status |-> 200, claim |-> claim, result |-> result]
  <2>2. /\ store' = [store EXCEPT !.verifications = rows]
        /\ request' = [request EXCEPT ![c] = [Idle EXCEPT !.answer = answer]]
    BY <2>1
  <2> HIDE DEF rows, answer
  <2>3. store' = [store EXCEPT !.verifications = rows, !.tests = store.tests]
    BY <1>4, <2>2
  <2>4. UNCHANGED faults
    BY <1>12 DEF VerifyIntegrity
  <2> QED BY <1>7, <2>2, <2>3, <2>4
<1>13. ASSUME NEW failed \in BOOLEAN, RunMonkeyTests(c, failed) PROVE IInv'
  <2>1. \E tests : store' = [store EXCEPT !.tests = tests]
    BY <1>13, Zenon DEF RunMonkeyTests
  <2>2. PICK tests : store' = [store EXCEPT !.verifications = store.verifications, !.tests = tests]
    BY <1>4, <2>1
  <2>3. request' = [request EXCEPT ![c] = Idle]
    BY <1>13 DEF RunMonkeyTests
  <2>4. UNCHANGED faults \/ Failing
    BY <1>13 DEF RunMonkeyTests
  <2> QED BY <1>2, <1>5, <2>2, <2>3, <2>4
<1> QED BY <1>6, <1>8, <1>9, <1>10, <1>11, <1>12, <1>13 DEF ClientStep

\* The monitoring engine's steps, which touch no request.
LEMMA MonitorKeeps == ASSUME IInv, MonitorStep PROVE IInv'
<1>1. /\ Shape /\ SavedAreKnown /\ SummariesAreBacked /\ IsStore(store) /\ IsFaults(faults)
  BY DEF IInv, Shape
<1>2. ASSUME UNCHANGED request, UNCHANGED faults \/ Failing,
             UNCHANGED store \/ \E tests : store' = [store EXCEPT !.tests = tests]
      PROVE  IInv'
  <2>1. IsStore(store') /\ store'.findings = store.findings /\ store'.summaries = store.summaries
    <3>1. PICK f, s, v, t : store = [findings |-> f, summaries |-> s, verifications |-> v, tests |-> t]
      BY <1>1 DEF IsStore
    <3>2. CASE UNCHANGED store
      BY <3>1, <3>2 DEF IsStore
    <3>3. ASSUME NEW tests, store' = [store EXCEPT !.tests = tests]
          PROVE  IsStore(store') /\ store'.findings = store.findings /\ store'.summaries = store.summaries
      <4>1. store' = [findings |-> f, summaries |-> s, verifications |-> v, tests |-> tests]
        BY <3>1, <3>3
      <4> QED BY <3>1, <4>1 DEF IsStore
    <3> QED BY <1>2, <3>2, <3>3
  <2>2. IsFaults(faults') /\ faults'.lost = faults.lost
    BY <1>1, <1>2, FaultsUpdated
  <2>3. Known' = Known
    BY <2>1, <2>2 DEF Known
  <2>4. Shape' /\ SavedAreKnown'
    BY <1>1, <1>2, <2>1, <2>2, <2>3, RequestsStay
  <2> QED BY <1>1, <2>1, <2>3, <2>4, SummariesStay DEF IInv
<1>3. CASE StartCycle \/ FinishCycle
  <2>1. UNCHANGED <<store, request, faults>>
    BY <1>3 DEF StartCycle, FinishCycle
  <2> QED BY <1>2, <2>1
<1>4. ASSUME NEW payments \in Payments, NEW amounts \in Amounts, NEW failed \in BOOLEAN,
             RunAgent(payments, amounts, failed)
      PROVE  IInv'
  <2>1. UNCHANGED store \/ \E tests : store' = [store EXCEPT !.tests = tests]
    BY <1>4, Zenon DEF RunAgent
  <2>2. UNCHANGED request /\ (UNCHANGED faults \/ Failing)
    BY <1>4, Zenon DEF RunAgent
  <2> QED BY <1>2, <2>1, <2>2
<1>5. ASSUME NEW payments \in Payments, NEW amounts \in Amounts,
             NEW lost \in SUBSET IntegrationResults[<<payments, amounts>>].findings, NEW saves \in 0..3,
             PipelineIntegrationTest(payments, amounts, lost, saves)
      PROVE  IInv'
  <2> DEFINE result == IntegrationResults[<<payments, amounts>>]
             summary == GenerateExecutiveSummary(result.findings, result.summary)
             table == Upsert(store.findings, FindingRows(result.findings \ lost))
             findings == IF saves >= 1 THEN table ELSE store.findings
             summaries == IF saves >= 2 THEN Append(store.summaries, summary) ELSE store.summaries
  <2>1. \E rows : store' = [store EXCEPT !.findings = findings, !.summaries = summaries, !.verifications = rows]
    BY <1>5, Zenon DEF PipelineIntegrationTest
  <2>2. /\ UNCHANGED request
        /\ \E errors : faults' = [number |-> faults.number + errors,
                                  lost |-> faults.lost \cup {f.finding_id : f \in lost}]
    BY <1>5, Zenon DEF PipelineIntegrationTest
  <2>3. DOMAIN table = DOMAIN store.findings \cup Ids(result.findings \ lost)
    BY UpsertAdds
  <2>12. Ids(result.findings) \subseteq Ids(result.findings \ lost) \cup Ids(lost)
    BY DEF Ids
  <2>4. summary.top_findings \subseteq Ids(result.findings)
    BY NamesItsFindings
  <2> HIDE DEF result, summary, table
  <2>5. DOMAIN store.findings \subseteq DOMAIN findings
    BY <2>3
  <2>6. saves >= 2 => Ids(result.findings) \subseteq DOMAIN findings \cup Ids(lost)
    BY <2>3, <2>12
  <2> HIDE DEF findings, summaries
  <2>7. IsStore(store') /\ store'.findings = findings /\ store'.summaries = summaries
    <3>1. PICK f, s, v, t : store = [findings |-> f, summaries |-> s, verifications |-> v, tests |-> t]
      BY <1>1 DEF IsStore
    <3>2. PICK rows :
            store' = [store EXCEPT !.findings = findings, !.summaries = summaries, !.verifications = rows]
      BY <2>1
    <3>3. store' = [findings |-> findings, summaries |-> summaries, verifications |-> rows, tests |-> t]
      BY <3>1, <3>2
    <3> QED BY <3>3 DEF IsStore
  <2>8. IsFaults(faults') /\ faults'.lost = faults.lost \cup Ids(lost)
    <3>1. PICK errors : faults' = [number |-> faults.number + errors, lost |-> faults.lost \cup Ids(lost)]
      BY <2>2 DEF Ids
    <3>2. faults'.lost = faults.lost \cup Ids(lost)
      BY <3>1
    <3> QED BY <3>1, <3>2 DEF IsFaults
  <2>9. Known \subseteq Known' /\ (saves >= 2 => Ids(result.findings) \subseteq Known')
    BY <2>5, <2>6, <2>7, <2>8 DEF Known
  <2>10. Shape' /\ SavedAreKnown'
    BY <1>1, <2>2, <2>7, <2>8, <2>9, RequestsStay
  <2>11. SummariesAreBacked'
    <3>1. CASE saves >= 2
      BY <1>1, <2>4, <2>7, <2>9, <3>1, SummaryAdded DEF summaries
    <3>2. CASE ~(saves >= 2)
      BY <1>1, <2>7, <2>9, <3>2, SummariesStay DEF summaries
    <3> QED BY <3>1, <3>2
  <2> QED BY <2>10, <2>11 DEF IInv
<1> QED BY <1>3, <1>4, <1>5 DEF MonitorStep
-------------------------------------------------------------------------------
\* What a request that has been validated holds, and what an answered claim is.
IsComputed(x) ==
  /\ x.step = "validated" => x.batch \in Batches /\ x.result = ProcessEvents(x.batch)
  /\ "claim" \in DOMAIN x.answer =>
       /\ x.answer.claim \in Claims
       /\ x.answer.result = VerifySummary(x.answer.claim.summary, x.answer.claim.records)
RequestsComputed == \A c \in Clients : IsComputed(request[c])

\* An executive summary is no answer to a claim.
LEMMA SummaryIsNoClaim ==
  ASSUME NEW findings, NEW stats
  PROVE  "claim" \notin DOMAIN GenerateExecutiveSummary(findings, stats)
BY DEF GenerateExecutiveSummary

\* A request of which one field is updated.
LEMMA FieldSet ==
  ASSUME NEW p, NEW b, NEW r, NEW a, NEW x, NEW y, NEW d,
         x = [step |-> p, batch |-> b, result |-> r, answer |-> a]
  PROVE  /\ y = [x EXCEPT !.step = d] => y = [step |-> d, batch |-> b, result |-> r, answer |-> a]
         /\ y = [x EXCEPT !.batch = d] => y = [step |-> p, batch |-> d, result |-> r, answer |-> a]
         /\ y = [x EXCEPT !.result = d] => y = [step |-> p, batch |-> b, result |-> d, answer |-> a]
         /\ y = [x EXCEPT !.answer = d] => y = [step |-> p, batch |-> b, result |-> r, answer |-> d]
OBVIOUS

\* A request that is replaced by one that holds what it should.
LEMMA ComputedReplaced ==
  ASSUME Shape, RequestsComputed, NEW c \in Clients, NEW new, IsComputed(new),
         request' = [request EXCEPT ![c] = new]
  PROVE  RequestsComputed'
<1>1. request' = [d \in Clients |-> IF d = c THEN new ELSE request[d]]
  BY DEF Shape
<1>2. \A d \in Clients : request'[d] = IF d = c THEN new ELSE request[d]
  BY <1>1
<1> QED BY <1>2 DEF RequestsComputed

\* A request's steps.
LEMMA ClientComputes ==
  ASSUME Shape, RequestsComputed, NEW c \in Clients, ClientStep(c, Batches, Claims)
  PROVE  RequestsComputed'
<1>1. PICK p, b, r, a : request[c] = [step |-> p, batch |-> b, result |-> r, answer |-> a]
  BY DEF Shape, IsRequest
<1>2. IsComputed(request[c])
  BY DEF RequestsComputed
<1>3. Idle = [step |-> "idle", batch |-> <<>>, result |-> [findings |-> {}], answer |-> [status |-> 0]]
  BY DEF Idle
<1>4. ASSUME NEW answer, "claim" \notin DOMAIN answer,
             request' = [request EXCEPT ![c] = [Idle EXCEPT !.answer = answer]]
      PROVE  RequestsComputed'
  <2>1. PICK new : new = [Idle EXCEPT !.answer = answer]
    OBVIOUS
  <2>2. new = [step |-> "idle", batch |-> <<>>, result |-> [findings |-> {}], answer |-> answer]
    BY <1>3, <2>1, FieldSet, Zenon
  <2>3. IsComputed(new)
    BY <1>4, <2>2 DEF IsComputed
  <2>4. request' = [request EXCEPT ![c] = new]
    BY <1>4, <2>1, Zenon
  <2> QED BY <2>3, <2>4, ComputedReplaced
<1>5. ASSUME NEW step, step # "validated", NEW answer, "claim" \in DOMAIN answer => answer = a,
             request' = [request EXCEPT ![c] = [step |-> step, batch |-> b, result |-> r, answer |-> answer]]
      PROVE  RequestsComputed'
  <2>1. PICK new : new = [step |-> step, batch |-> b, result |-> r, answer |-> answer]
    OBVIOUS
  <2>2. new.step = step /\ new.answer = answer /\ request[c].answer = a
    BY <1>1, <2>1
  <2>3. IsComputed(new)
    BY <1>2, <1>5, <2>2 DEF IsComputed
  <2> QED BY <1>5, <2>1, <2>3, ComputedReplaced
<1>6. ASSUME NEW batch \in Batches, Process(c, batch) PROVE RequestsComputed'
  <2>1. CASE batch \in DOMAIN Processed
    <3>1. PICK computed : computed = Processed[batch]
      OBVIOUS
    <3>2. PICK moved : moved = [Idle EXCEPT !.step = "validated"]
      OBVIOUS
    <3>3. PICK filled : filled = [moved EXCEPT !.batch = batch]
      OBVIOUS
    <3>4. PICK new : new = [filled EXCEPT !.result = computed]
      OBVIOUS
    <3>5. moved = [step |-> "validated", batch |-> <<>>, result |-> [findings |-> {}],
                   answer |-> [status |-> 0]]
      BY <1>3, <3>2, FieldSet, Zenon
    <3>6. filled = [step |-> "validated", batch |-> batch, result |-> [findings |-> {}],
                    answer |-> [status |-> 0]]
      BY <3>3, <3>5, FieldSet, Zenon
    <3>7. new = [step |-> "validated", batch |-> batch, result |-> computed, answer |-> [status |-> 0]]
      BY <3>4, <3>6, FieldSet, Zenon
    <3>8. new = [Idle EXCEPT !.step = "validated", !.batch = batch, !.result = Processed[batch]]
      BY <3>1, <3>2, <3>3, <3>4, Zenon
    <3>9. request' = [request EXCEPT ![c] = new]
      BY <1>6, <2>1, <3>8, Zenon DEF Process
    <3>10. computed = ProcessEvents(batch)
      BY <2>1, <3>1 DEF Processed
    <3>11. IsComputed(new)
      BY <3>7, <3>10 DEF IsComputed
    <3> QED BY <3>9, <3>11, ComputedReplaced
  <2>2. CASE batch \notin DOMAIN Processed
    <3>1. request' = [request EXCEPT ![c] = [Idle EXCEPT !.answer = [status |-> 500]]]
      BY <1>6, <2>2 DEF Process
    <3>2. "claim" \notin DOMAIN [status |-> 500]
      OBVIOUS
    <3> QED BY <1>4, <3>1, <3>2
  <2> QED BY <2>1, <2>2
<1>7. ASSUME NEW lost, SaveFindings(c, lost) PROVE RequestsComputed'
  <2>1. request' = [request EXCEPT ![c] = [request[c] EXCEPT !.step = "saved"]]
    BY <1>7 DEF SaveFindings
  <2>2. [request[c] EXCEPT !.step = "saved"] = [step |-> "saved", batch |-> b, result |-> r, answer |-> a]
    BY <1>1
  <2> QED BY <1>5, <2>1, <2>2
<1>8. CASE SaveSummary(c)
  <2>1. PICK summary :
          /\ summary = GenerateExecutiveSummary(request[c].result.findings, request[c].result.summary)
          /\ request' = [request EXCEPT ![c] = [request[c] EXCEPT !.step = "summarised", !.answer = summary]]
    BY <1>8 DEF SaveSummary
  <2>2. "claim" \notin DOMAIN summary
    BY <2>1, SummaryIsNoClaim
  <2>3. PICK moved : moved = [request[c] EXCEPT !.step = "summarised"]
    OBVIOUS
  <2>4. PICK new : new = [moved EXCEPT !.answer = summary]
    OBVIOUS
  <2>5. moved = [step |-> "summarised", batch |-> b, result |-> r, answer |-> a]
    BY <1>1, <2>3
  <2>6. new = [step |-> "summarised", batch |-> b, result |-> r, answer |-> summary]
    BY <2>4, <2>5, FieldSet, Zenon
  <2>7. request' = [request EXCEPT ![c] = new]
    BY <2>1, <2>3, <2>4, Zenon
  <2> QED BY <1>5, <2>2, <2>6, <2>7
<1>9. CASE SaveVerification(c)
  <2>1. request' = [request EXCEPT ![c] = [Idle EXCEPT !.answer = [status |-> 200]]]
    BY <1>9 DEF SaveVerification
  <2>2. "claim" \notin DOMAIN [status |-> 200]
    OBVIOUS
  <2> QED BY <1>4, <2>1, <2>2
<1>10. CASE StoreFails(c)
  <2>1. request' = [request EXCEPT ![c] = [Idle EXCEPT !.answer = [status |-> 500]]]
    BY <1>10 DEF StoreFails
  <2>2. "claim" \notin DOMAIN [status |-> 500]
    OBVIOUS
  <2> QED BY <1>4, <2>1, <2>2
<1>11. ASSUME NEW claim \in Claims, VerifyIntegrity(c, claim) PROVE RequestsComputed'
  <2>1. PICK result :
          /\ result = VerifySummary(claim.summary, claim.records)
          /\ request' = [request EXCEPT ![c] =
               [Idle EXCEPT !.answer = [status |-> 200, claim |-> claim, result |-> result]]]
    BY <1>11 DEF VerifyIntegrity
  <2>2. PICK answer : answer = [status |-> 200, claim |-> claim, result |-> result]
    OBVIOUS
  <2>3. answer.claim = claim /\ answer.result = result
    BY <2>2
  <2>4. PICK new : new = [Idle EXCEPT !.answer = answer]
    OBVIOUS
  <2>5. new = [step |-> "idle", batch |-> <<>>, result |-> [findings |-> {}], answer |-> answer]
    BY <1>3, <2>4, FieldSet, Zenon
  <2>6. IsComputed(new)
    BY <2>1, <2>3, <2>5 DEF IsComputed
  <2>7. request' = [request EXCEPT ![c] = new]
    BY <2>1, <2>2, <2>4, Zenon
  <2> QED BY <2>6, <2>7, ComputedReplaced
<1>12. ASSUME NEW failed, RunMonkeyTests(c, failed) PROVE RequestsComputed'
  <2>1. request' = [request EXCEPT ![c] = Idle]
    BY <1>12 DEF RunMonkeyTests
  <2>2. IsComputed(Idle)
    BY <1>3 DEF IsComputed
  <2> QED BY <2>1, <2>2, ComputedReplaced
<1> QED BY <1>6, <1>7, <1>8, <1>9, <1>10, <1>11, <1>12 DEF ClientStep
-------------------------------------------------------------------------------
\* The invariant holds of every behaviour.
THEOREM PipelineInvariant == Spec => []IInv
<1>1. Init => IInv
  <2> SUFFICES ASSUME Init PROVE IInv
    OBVIOUS
  <2>1. Shape /\ SavedAreKnown
    BY DEF Init, Shape, SavedAreKnown, Idle, IsStore, IsFaults, IsRequest
  <2>2. store.summaries \in Seq({})
    BY EmptySeq DEF Init
  <2> QED BY <2>1, <2>2 DEF IInv, SummariesAreBacked
<1>2. IInv /\ [Next]_vars => IInv'
  <2> SUFFICES ASSUME IInv, [Next]_vars PROVE IInv'
    OBVIOUS
  <2>1. CASE UNCHANGED vars
    BY <2>1 DEF vars, IInv, Shape, SavedAreKnown, SummariesAreBacked, Known
  <2> QED BY <2>1, ClientKeeps, MonitorKeeps DEF Next
<1> QED BY <1>1, <1>2, PTL DEF Spec

\* However requests, the monitoring engine and errors of the database
\* interleave, a summary is never stored before the findings it names.
THEOREM SummariesHaveTheirFindings == Spec => []SummaryHasItsFindings
<1>1. IInv => SummaryHasItsFindings
  <2> SUFFICES ASSUME IInv, NEW n \in DOMAIN store.summaries
               PROVE  store.summaries[n].top_findings \subseteq Known
    BY DEF SummaryHasItsFindings, Known
  <2>1. PICK S : store.summaries \in Seq(S) /\ \A x \in S : x.top_findings \subseteq Known
    BY DEF IInv, SummariesAreBacked
  <2>2. store.summaries[n] \in S
    BY <2>1, LenProperties, ElementOfSeq
  <2> QED BY <2>1, <2>2
<1> QED BY PipelineInvariant, <1>1, PTL
-------------------------------------------------------------------------------
\* What the requests hold has been computed from what was sent.
THEOREM RequestsInvariant == Spec => []RequestsComputed
<1>1. Init => RequestsComputed
  BY SMT DEF Init, RequestsComputed, IsComputed, Idle
<1>2. Shape /\ RequestsComputed /\ [Next]_vars => RequestsComputed'
  <2> SUFFICES ASSUME Shape, RequestsComputed, [Next]_vars PROVE RequestsComputed'
    OBVIOUS
  <2>1. ASSUME UNCHANGED request PROVE RequestsComputed'
    BY <2>1 DEF RequestsComputed
  <2>2. MonitorStep => UNCHANGED request
    <3>1. StartCycle \/ FinishCycle => UNCHANGED request
      BY DEF StartCycle, FinishCycle
    <3>2. \A payments, amounts, failed : RunAgent(payments, amounts, failed) => UNCHANGED request
      BY Zenon DEF RunAgent
    <3>3. \A payments, amounts, lost, saves :
            PipelineIntegrationTest(payments, amounts, lost, saves) => UNCHANGED request
      BY Zenon DEF PipelineIntegrationTest
    <3> QED BY <3>1, <3>2, <3>3, Zenon DEF MonitorStep
  <2> QED BY <2>1, <2>2, ClientComputes DEF Next, vars
<1>3. IInv => Shape
  BY DEF IInv
<1> QED BY <1>1, <1>2, <1>3, PipelineInvariant, PTL DEF Spec

\* A validated batch is a list of events, and its findings are those of it.
LEMMA ValidatedBatch ==
  ASSUME RequestsComputed, NEW c \in Validated
  PROVE  /\ AreEvents(request[c].batch)
         /\ request[c].result = ProcessEvents(request[c].batch)
BY BatchesAssumption DEF RequestsComputed, IsComputed, Validated

\* However a batch is grouped, every event of it is in one finding or counted
\* as cleared.
THEOREM EventsAreAccountedFor == Spec => []EventsAccountedFor
<1>1. RequestsComputed => EventsAccountedFor
  BY ValidatedBatch, BatchAccounted DEF EventsAccountedFor, Accounted, Counted
<1> QED BY RequestsInvariant, <1>1, PTL

\* No material event disappears among the events it is grouped with.
THEOREM MaterialEventsAreKept == Spec => []MaterialAloneIsKept
<1>1. RequestsComputed => MaterialAloneIsKept
  <2> SUFFICES ASSUME RequestsComputed, NEW c \in Validated, NEW i \in DOMAIN request[c].batch,
                      ValidateEvent(request[c].batch[i]).result.is_material
               PROVE  \E f \in request[c].result.findings : i \in f.raw_event_ids
    BY DEF MaterialAloneIsKept
  <2>1. PICK event : event = request[c].batch[i]
    OBVIOUS
  <2>2. ValidateSingleEvent(event).is_material = (ExtractAmount(event) >= MaterialityThreshold)
    BY DEF ValidateSingleEvent
  <2>3. ValidateEvent(event).result = ValidateSingleEvent(event)
    BY DEF ValidateEvent
  <2>4. ExtractAmount(request[c].batch[i]) >= MaterialityThreshold
    BY <2>1, <2>2, <2>3
  <2> QED BY <2>4, ValidatedBatch, MaterialIsReported
<1> QED BY RequestsInvariant, <1>1, PTL

\* One event more takes no finding away and lowers no score, whatever the batch
\* and the thresholds, when the logarithm grows and systemic groups are of ten
\* events or more.
THEOREM MoreEventsAreNoBetter == ASSUME ScoresGrow PROVE Spec => []MoreEventsNoLowerRisk
<1>1. RequestsComputed => MoreEventsNoLowerRisk
  BY ScoresGrow, ValidatedBatch, MoreIsNoLess DEF MoreEventsNoLowerRisk, Outdone
<1> QED BY RequestsInvariant, <1>1, PTL

\* A claim about any records that passes the verification is true, within the
\* tolerances of the engine.
THEOREM AcceptedClaimsHold == Spec => []AcceptedClaimsAreTrue
<1>1. RequestsComputed => AcceptedClaimsAreTrue
  <2> SUFFICES ASSUME RequestsComputed PROVE AcceptedClaimsAreTrue
    OBVIOUS
  <2>1. ASSUME NEW c \in Clients, "claim" \in DOMAIN request[c].answer
        PROVE  /\ AreEvents(request[c].answer.claim.records)
               /\ \A k \in {"total_raw_events", "total_financial_impact"}
                        \cap DOMAIN request[c].answer.claim.summary :
                    request[c].answer.claim.summary[k] \in Int
               /\ request[c].answer.result
                    = VerifySummary(request[c].answer.claim.summary, request[c].answer.claim.records)
    BY <2>1, ClaimsAssumption DEF RequestsComputed, IsComputed
  <2> QED BY <2>1, ValidClaimIsTrue DEF AcceptedClaimsAreTrue, ClaimTyped, ClaimTrue
<1> QED BY RequestsInvariant, <1>1, PTL

-------------------------------------------------------------------------------
\* The checks an agent passes when it passes: one of the first agent's never is,
\* and one of the second's never is either.
FullOf(n) == IF n = 1 THEN 7 ELSE IF n = 2 THEN 8 ELSE 6
GoodReport(n, r) == r.passed \in 0..FullOf(n) /\ (r.status = "PASS" => r.passed = FullOf(n))

\* The numbers of a report, from the checks that are passed.
LEMMA ReportCounts ==
  ASSUME NEW checks, NEW K, DOMAIN checks = K, IsFiniteSet(K), NEW allowed \in Nat,
         NEW P \in SUBSET K, P = {c \in K : checks[c]}
  PROVE  /\ AgentReport(checks, allowed).passed = Cardinality(P)
         /\ AgentReport(checks, allowed).status = "PASS" => Cardinality(P) >= Cardinality(K) - allowed
         /\ Cardinality(P) \in Nat /\ Cardinality(K) \in Nat /\ Cardinality(P) <= Cardinality(K)
<1>1. IsFiniteSet(P) /\ Cardinality(P) \in Nat /\ Cardinality(K) \in Nat /\ Cardinality(P) <= Cardinality(K)
  BY FS_Subset, FS_CardinalityType
<1> QED BY <1>1 DEF AgentReport

\* Which checks of an agent can be passed at all.
LEMMA PassableChecks ==
  ASSUME NEW n \in 1..3, NEW checks, NEW K, DOMAIN checks = K, IsFiniteSet(K), NEW allowed \in Nat,
         NEW never \in SUBSET K, \A c \in never : ~checks[c],
         Cardinality(K \ never) = FullOf(n), Cardinality(K) - allowed = FullOf(n)
  PROVE  GoodReport(n, AgentReport(checks, allowed))
<1>1. PICK P \in SUBSET K : P = {c \in K : checks[c]}
  OBVIOUS
<1>2. P \in SUBSET (K \ never)
  BY <1>1
<1>3. IsFiniteSet(K \ never) /\ Cardinality(P) <= Cardinality(K \ never)
  BY <1>2, FS_Subset
<1>4. PICK r : r = AgentReport(checks, allowed)
  OBVIOUS
<1>5. /\ r.passed = Cardinality(P) /\ Cardinality(P) \in Nat
      /\ r.status = "PASS" => Cardinality(P) >= Cardinality(K) - allowed
  BY <1>1, <1>4, ReportCounts
<1>6. FullOf(n) \in Nat
  BY DEF FullOf
<1>7. PICK p, q \in Nat : p = Cardinality(P) /\ q = FullOf(n)
  BY <1>5, <1>6
<1>8. r.passed = p /\ p <= q /\ (r.status = "PASS" => p >= q)
  BY <1>3, <1>5, <1>7
<1> QED BY <1>4, <1>7, <1>8 DEF GoodReport

\* A set with one member more.
Numbering(S, n) == IsFiniteSet(S) /\ Cardinality(S) = n

\* A set with one member more than n.
LEMMA OneMore ==
  ASSUME NEW S, NEW n \in Nat, Numbering(S, n), NEW x, x \notin S
  PROVE  Numbering(S \cup {x}, n + 1)
BY FS_AddElement DEF Numbering

\* A set is no larger than three names that cover it.
LEMMA AtMostOneMore ==
  ASSUME NEW S, NEW n \in Nat, IsFiniteSet(S), Cardinality(S) <= n, NEW x
  PROVE  IsFiniteSet(S \cup {x}) /\ Cardinality(S \cup {x}) <= n + 1
<1>1. PICK m : m = Cardinality(S)
  OBVIOUS
<1>2. m \in Nat
  BY <1>1, FS_CardinalityType
<1>3. /\ IsFiniteSet(S \cup {x})
      /\ Cardinality(S \cup {x}) = m \/ Cardinality(S \cup {x}) = m + 1
  BY <1>1, FS_AddElement
<1> QED BY <1>1, <1>2, <1>3

\* What three names cover has three members at most.
LEMMA ThreeAtMost ==
  ASSUME NEW a, NEW b, NEW c, NEW S \in SUBSET {a, b, c} PROVE Cardinality(S) <= 3 /\ Cardinality(S) \in Nat
<1>1. IsFiniteSet({a}) /\ Cardinality({a}) <= 1
  <2>1. IsFiniteSet({a}) /\ Cardinality({a}) = 1
    BY FS_Singleton
  <2> QED BY <2>1
<1>2. IsFiniteSet({a} \cup {b}) /\ Cardinality({a} \cup {b}) <= 1 + 1
  BY <1>1, AtMostOneMore
<1>3. PICK T : T = ({a} \cup {b}) \cup {c}
  OBVIOUS
<1>4. IsFiniteSet(T) /\ Cardinality(T) <= 3
  <2>1. PICK S2 : S2 = {a} \cup {b}
    OBVIOUS
  <2>2. IsFiniteSet(S2) /\ Cardinality(S2) <= 2 /\ T = S2 \cup {c}
    BY <1>2, <1>3, <2>1
  <2>3. IsFiniteSet(T) /\ Cardinality(T) <= 2 + 1
    BY <2>2, AtMostOneMore
  <2> QED BY <2>3
<1>5. PICK m, n : m = Cardinality(S) /\ n = Cardinality(T)
  OBVIOUS
<1>6. S \subseteq T
  BY <1>3
<1>7. m \in Nat /\ n \in Nat /\ m <= n
  BY <1>4, <1>5, <1>6, FS_Subset, FS_CardinalityType
<1> QED BY <1>4, <1>5, <1>7

\* The first agent.
GhostNames == {"events_generated", "findings_created", "financial_impact_tracked",
               "round_number_detected", "vendor_flagged", "risk_score_above_40",
               "auditor_reasoning_present", "materiality_applied"}

\* The first agent passes seven checks when it passes, and never more.
LEMMA GhostReport == ASSUME NEW payments PROVE GoodReport(1, GhostVendorTest(payments))
<1>1. PICK checks : checks = GhostVendorChecks(payments)
  OBVIOUS
<1>2. DOMAIN checks = GhostNames
  BY <1>1 DEF GhostVendorChecks, GhostNames
<1>3. ~GhostVendorChecks(payments).events_generated
  BY DEF GhostVendorChecks
<1>4. \A c \in {"events_generated"} : ~checks[c]
  BY <1>1, <1>3
<1> DEFINE R == {"findings_created"}
<1>5. Numbering({"findings_created"}, 1)
  BY FS_Singleton DEF Numbering
<1> DEFINE S2 == {"findings_created"} \cup {"financial_impact_tracked"}
           S3 == S2 \cup {"round_number_detected"}
           S4 == S3 \cup {"vendor_flagged"}
           S5 == S4 \cup {"risk_score_above_40"}
           S6 == S5 \cup {"auditor_reasoning_present"}
           S7 == S6 \cup {"materiality_applied"}
           S8 == S7 \cup {"events_generated"}
<1>6. Numbering(S2, 2)
  BY <1>5, OneMore
<1>7. Numbering(S3, 3)
  BY <1>6, OneMore
<1>8. Numbering(S4, 4)
  BY <1>7, OneMore
<1>9. Numbering(S5, 5)
  BY <1>8, OneMore
<1>10. Numbering(S6, 6)
  BY <1>9, OneMore
<1>11. Numbering(S7, 7)
  BY <1>10, OneMore
<1>12. Numbering(S8, 8)
  BY <1>11, OneMore
<1>13. GhostNames = S8 /\ S8 \ {"events_generated"} = S7
  BY DEF GhostNames
<1> HIDE DEF S2, S3, S4, S5, S6, S7, S8
<1>14. /\ IsFiniteSet(GhostNames) /\ Cardinality(GhostNames) = 8
       /\ Cardinality(GhostNames \ {"events_generated"}) = 7
  BY <1>11, <1>12, <1>13 DEF Numbering
<1>15. {"events_generated"} \in SUBSET GhostNames /\ FullOf(1) = 7
  BY DEF GhostNames, FullOf
<1>16. /\ Cardinality(GhostNames \ {"events_generated"}) = FullOf(1)
       /\ Cardinality(GhostNames) - 1 = FullOf(1) /\ 1 \in Nat /\ 1 \in 1..3
  BY <1>14, <1>15
<1> HIDE DEF GhostNames
<1>17. GoodReport(1, AgentReport(checks, 1))
  BY <1>2, <1>4, <1>14, <1>15, <1>16, PassableChecks, Zenon
<1> QED BY <1>1, <1>17 DEF GhostVendorTest

\* The source of an event the agents make up.
LEMMA EventSource ==
  ASSUME NEW source, NEW type, NEW text, NEW amount
  PROVE  Event(source, type, text, amount).source_system = source
BY DEF Event, BlankEvent

\* The group of events that carry the same module: every fifth.
LEMMA VelocityGroups ==
  ASSUME NEW amounts \in [1..12 -> Int], NEW s
  PROVE  Cardinality(GroupOf(VelocityScenario(amounts), s)) <= 3
         /\ Cardinality(GroupOf(VelocityScenario(amounts), s)) \in Nat
<1> DEFINE scenario == VelocityScenario(amounts)
           Place(i) == ((i - 1) % 5) + 1
           G == GroupOf(scenario, s)
<1>1. DOMAIN scenario = 1..12
  BY DEF VelocityScenario
<1>2. \A i \in 1..12 : scenario[i] = Event(Modules[Place(i)], Modules[Place(i)], "below the threshold", amounts[i])
  BY DEF VelocityScenario
<1>3. \A i \in 1..12 : scenario[i].source_system = Modules[Place(i)]
  <2> SUFFICES ASSUME NEW i \in 1..12 PROVE scenario[i].source_system = Modules[Place(i)]
    OBVIOUS
  <2>1. PICK module : module = Modules[Place(i)]
    OBVIOUS
  <2>2. scenario[i] = Event(module, module, "below the threshold", amounts[i])
    BY <1>2, <2>1
  <2> HIDE DEF scenario, Place
  <2>3. Event(module, module, "below the threshold", amounts[i]).source_system = module
    BY EventSource, Zenon
  <2> QED BY <2>1, <2>2, <2>3, Zenon
<1>4. \A i \in 1..12 : Place(i) \in 1..5
  OBVIOUS
<1>5. \A i, j \in 1..5 : Modules[i] # "" /\ (Modules[i] = Modules[j] => i = j)
  <2>1. /\ Modules[1] = "accounts-payable" /\ Modules[2] = "general-ledger" /\ Modules[3] = "procurement"
        /\ Modules[4] = "treasury" /\ Modules[5] = "payroll"
    BY DEF Modules
  <2>2. \A i \in 1..5 : i = 1 \/ i = 2 \/ i = 3 \/ i = 4 \/ i = 5
    OBVIOUS
  <2> QED BY <2>1, <2>2
<1> HIDE DEF scenario, Place
<1>6. ASSUME NEW i \in G PROVE i \in 1..12 /\ s.source = Modules[Place(i)]
  <2>1. i \in 1..12 /\ ComputeEventSignature(scenario[i]) = s
    BY <1>1 DEF GroupOf
  <2>2. scenario[i].source_system = Modules[Place(i)] /\ Modules[Place(i)] # ""
    BY <1>3, <1>4, <1>5, <2>1
  <2>3. ComputeEventSignature(scenario[i]).source = scenario[i].source_system
    BY <2>2 DEF ComputeEventSignature
  <2> QED BY <2>1, <2>2, <2>3
<1>7. CASE G = {}
  BY <1>7, FS_EmptySet DEF scenario
<1>8. ASSUME NEW j \in G PROVE Cardinality(G) <= 3 /\ Cardinality(G) \in Nat
  <2>1. PICK k \in 1..5 : k = Place(j)
    BY <1>4, <1>6
  <2>2. ASSUME NEW i \in G PROVE i \in {k, k + 5, k + 10}
    <3>1. Place(i) = k /\ i \in 1..12
      BY <1>4, <1>5, <1>6, <2>1
    <3> QED BY <3>1 DEF Place
  <2> QED BY <2>2, ThreeAtMost
<1> QED BY <1>7, <1>8 DEF scenario

\* The findings of the second agent are not systemic.
LEMMA VelocityNotSystemic ==
  ASSUME SystemicThreshold > 3, NEW amounts \in [1..12 -> Int]
  PROVE  ~VelocityChecks(amounts).systemic_detection
<1>1. PICK findings : findings = ProcessEvents(VelocityScenario(amounts)).findings
  OBVIOUS
<1>2. ASSUME NEW f \in findings PROVE ~f.is_systemic /\ ~(f.occurrence_count > 5)
  <2>1. PICK s : f = FindingOf(VelocityScenario(amounts), s)
    BY <1>1, ProcessFields
  <2>2. /\ f.is_systemic = (Cardinality(GroupOf(VelocityScenario(amounts), s)) >= SystemicThreshold)
        /\ f.occurrence_count = Cardinality(GroupOf(VelocityScenario(amounts), s))
    BY <2>1, FindingFields
  <2>3. PICK n : n = Cardinality(GroupOf(VelocityScenario(amounts), s))
    OBVIOUS
  <2>4. n \in Nat /\ n <= 3
    BY <2>3, VelocityGroups
  <2>5. (n >= SystemicThreshold) = FALSE /\ ~(n > 5)
    BY <2>4, ThresholdsAssumption
  <2> QED BY <2>2, <2>3, <2>5
<1> QED BY <1>1, <1>2 DEF VelocityChecks

\* The second agent: what would show that a group is systemic never does.
VelocityNames == {"events_generated", "aggregate_exceeds_threshold", "multi_module_detected",
                  "findings_created", "deduplication_works", "financial_impact_aggregated",
                  "risk_score_above_threshold", "auditor_reasoning_generated", "systemic_detection"}

\* The second agent passes eight checks when it passes, and never more.
LEMMA VelocityReport ==
  ASSUME SystemicThreshold > 3, NEW amounts \in [1..12 -> Int]
  PROVE  GoodReport(2, VelocityTest(amounts))
<1>1. PICK checks : checks = VelocityChecks(amounts)
  OBVIOUS
<1>2. DOMAIN checks = VelocityNames
  BY <1>1 DEF VelocityChecks, VelocityNames
<1>3. \A c \in {"systemic_detection"} : ~checks[c]
  BY <1>1, VelocityNotSystemic
<1> DEFINE S1 == {"events_generated"}
           S2 == S1 \cup {"aggregate_exceeds_threshold"}
           S3 == S2 \cup {"multi_module_detected"}
           S4 == S3 \cup {"findings_created"}
           S5 == S4 \cup {"deduplication_works"}
           S6 == S5 \cup {"financial_impact_aggregated"}
           S7 == S6 \cup {"risk_score_above_threshold"}
           S8 == S7 \cup {"auditor_reasoning_generated"}
           S9 == S8 \cup {"systemic_detection"}
<1>4. Numbering(S1, 1)
  BY FS_Singleton DEF Numbering
<1>5. Numbering(S2, 2)
  BY <1>4, OneMore
<1>6. Numbering(S3, 3)
  BY <1>5, OneMore
<1>7. Numbering(S4, 4)
  BY <1>6, OneMore
<1>8. Numbering(S5, 5)
  BY <1>7, OneMore
<1>9. Numbering(S6, 6)
  BY <1>8, OneMore
<1>10. Numbering(S7, 7)
  BY <1>9, OneMore
<1>11. Numbering(S8, 8)
  BY <1>10, OneMore
<1>12. Numbering(S9, 9)
  BY <1>11, OneMore
<1>13. VelocityNames = S9 /\ S9 \ {"systemic_detection"} = S8
  BY DEF VelocityNames
<1> HIDE DEF S1, S2, S3, S4, S5, S6, S7, S8, S9
<1>14. /\ IsFiniteSet(VelocityNames) /\ Cardinality(VelocityNames) = 9
       /\ Cardinality(VelocityNames \ {"systemic_detection"}) = 8
  BY <1>11, <1>12, <1>13 DEF Numbering
<1>15. {"systemic_detection"} \in SUBSET VelocityNames /\ FullOf(2) = 8
  BY DEF VelocityNames, FullOf
<1>16. /\ Cardinality(VelocityNames \ {"systemic_detection"}) = FullOf(2)
       /\ Cardinality(VelocityNames) - 1 = FullOf(2) /\ 1 \in Nat /\ 2 \in 1..3
  BY <1>14, <1>15
<1> HIDE DEF VelocityNames
<1>17. GoodReport(2, AgentReport(checks, 1))
  BY <1>2, <1>3, <1>14, <1>15, <1>16, PassableChecks, Zenon
<1> QED BY <1>1, <1>17 DEF VelocityTest

\* The third agent, which passes when all of its checks are.
StressNames == {"count_mismatch", "financial_mismatch", "phantom_source", "priority_manipulation",
                "valid_summary", "conflicting_data"}

\* The third agent passes six checks when it passes.
LEMMA IntegrityReport == ASSUME NEW payments PROVE GoodReport(3, IntegrityStressTest(payments))
<1>1. PICK checks : checks = IntegrityStressChecks(payments)
  OBVIOUS
<1>2. DOMAIN checks = StressNames
  <2>1. PICK tests : tests = StressTests(payments)
    OBVIOUS
  <2>2. DOMAIN tests = StressNames
    BY <2>1 DEF StressTests, StressNames
  <2>3. DOMAIN checks = DOMAIN tests
    BY <1>1, <2>1, Zenon DEF IntegrityStressChecks
  <2> QED BY <2>2, <2>3
<1> DEFINE S1 == {"count_mismatch"}
           S2 == S1 \cup {"financial_mismatch"}
           S3 == S2 \cup {"phantom_source"}
           S4 == S3 \cup {"priority_manipulation"}
           S5 == S4 \cup {"valid_summary"}
           S6 == S5 \cup {"conflicting_data"}
<1>4. Numbering(S1, 1)
  BY FS_Singleton DEF Numbering
<1>5. Numbering(S2, 2)
  BY <1>4, OneMore
<1>6. Numbering(S3, 3)
  BY <1>5, OneMore
<1>7. Numbering(S4, 4)
  BY <1>6, OneMore
<1>8. Numbering(S5, 5)
  BY <1>7, OneMore
<1>9. Numbering(S6, 6)
  BY <1>8, OneMore
<1>13. StressNames = S6 /\ S6 \ {} = S6
  BY DEF StressNames
<1> HIDE DEF S1, S2, S3, S4, S5, S6
<1>14. IsFiniteSet(StressNames) /\ Cardinality(StressNames) = 6 /\ Cardinality(StressNames \ {}) = 6
  BY <1>9, <1>13 DEF Numbering
<1>15. {} \in SUBSET StressNames /\ FullOf(3) = 6 /\ \A c \in {} : ~checks[c]
  BY DEF FullOf
<1>16. /\ Cardinality(StressNames \ {}) = FullOf(3)
       /\ Cardinality(StressNames) - 0 = FullOf(3) /\ 0 \in Nat /\ 3 \in 1..3
  BY <1>14, <1>15
<1> HIDE DEF StressNames
<1>17. GoodReport(3, AgentReport(checks, 0))
  BY <1>2, <1>14, <1>15, <1>16, PassableChecks, Zenon
<1> QED BY <1>1, <1>17 DEF IntegrityStressTest

\* What the agents report, one after the other.
LEMMA AgentsReport ==
  ASSUME SystemicThreshold > 3, NEW n \in 1..3, NEW payments \in Payments, NEW amounts \in Amounts
  PROVE  /\ GoodReport(n, AgentReports[<<Agents[n], payments, amounts>>])
         /\ <<Agents[n], payments, amounts>> \in DOMAIN AgentReports
<1>1. Agents[1] = "ghost_vendor" /\ Agents[2] = "velocity_risk" /\ Agents[3] = "ai_integrity"
  BY DEF Agents
<1>2. DOMAIN Agents = 1..3
  BY DEF Agents
<1>3. Agents[n] \in {Agents[i] : i \in DOMAIN Agents}
  BY <1>2
<1>4. /\ AgentReports[<<Agents[n], payments, amounts>>] = AgentTest(Agents[n], payments, amounts)
      /\ <<Agents[n], payments, amounts>> \in DOMAIN AgentReports
  <2>1. PICK run : run = <<Agents[n], payments, amounts>>
    OBVIOUS
  <2>2. /\ run \in {Agents[i] : i \in DOMAIN Agents} \X Payments \X Amounts
        /\ run[1] = Agents[n] /\ run[2] = payments /\ run[3] = amounts
    BY <1>3, <2>1
  <2> QED BY <2>1, <2>2 DEF AgentReports
<1>5. amounts \in [1..12 -> Int]
  BY AmountsAssumption
<1>6. CASE n = 1
  BY <1>1, <1>4, <1>6, GhostReport DEF AgentTest
<1>7. CASE n = 2
  BY <1>1, <1>4, <1>5, <1>7, VelocityReport DEF AgentTest
<1>8. CASE n = 3
  BY <1>1, <1>4, <1>8, IntegrityReport DEF AgentTest
<1> QED BY <1>6, <1>7, <1>8

\* A sum of three.
LEMMA SumOfThree ==
  ASSUME NEW w, DOMAIN w = 1..3, \A i \in 1..3 : w[i] \in Int
  PROVE  SumFunction(w) = w[1] + (w[2] + w[3])
<1>1. IsFiniteSet(1..3)
  BY FS_Interval, 1 \in Int, 3 \in Int
<1>2. PICK g : IsTally(w, g) /\ SumFunction(w) = g[1..3]
  BY <1>1, Sums
<1>3. \A s \in SUBSET (1..3) : \A x \in s : g[s] = w[x] + g[s \ {x}]
  BY <1>2 DEF IsTally
<1>4. g[1..3] = w[1] + g[(1..3) \ {1}]
  BY <1>3
<1>5. g[{2, 3}] = w[2] + g[{2, 3} \ {2}]
  BY <1>3
<1>6. g[{3}] = w[3] + g[{3} \ {3}] /\ g[{}] = 0
  <2>1. {3} \in SUBSET (1..3) /\ 3 \in {3}
    OBVIOUS
  <2>2. g[{3}] = w[3] + g[{3} \ {3}]
    BY <1>3, <2>1
  <2> QED BY <1>2, <2>2 DEF IsTally
<1>7. (1..3) \ {1} = {2, 3} /\ {2, 3} \ {2} = {3} /\ {3} \ {3} = {}
  OBVIOUS
<1>8. PICK a, b, c \in Int : a = w[1] /\ b = w[2] /\ c = w[3]
  OBVIOUS
<1>9. g[{3}] = c /\ g[{2, 3}] = b + g[{3}] /\ g[1..3] = a + g[{2, 3}]
  BY <1>4, <1>5, <1>6, <1>7, <1>8
<1> QED BY <1>2, <1>8, <1>9

\* The monitoring engine: what it has of the agents of its cycle so far, and
\* what its last report says.
IsMonitor(x) == \E s, k, r, p : x = [step |-> s, cycle |-> k, results |-> r, last_report |-> p]
IsReport(x) == \E s, t, r, g, i :
  x = [status |-> s, total_passed |-> t, results |-> r, regression |-> g, integration |-> i]
Reported(results) ==
  /\ \E S : results \in Seq(S)
  /\ Len(results) \in 0..3 /\ \A i \in 1..Len(results) : GoodReport(i, results[i])
Backed(results, cycle, tests) ==
  \A i \in 1..Len(results) : results[i].status = "PASS" => <<Agents[i], cycle>> \in DOMAIN tests
TrueReport(x, tests) ==
  /\ IsMonitor(x) /\ IsReport(x.last_report)
  /\ Reported(x.results)
  /\ x.step = "agents" => Backed(x.results, x.cycle, tests)
  /\ x.last_report.total_passed \in 0..21
  /\ (x.last_report.status = "ALL_PASS" /\ x.step = "report") =>
       \A n \in DOMAIN Agents : <<Agents[n], x.cycle>> \in DOMAIN tests
  /\ x.last_report.regression =>
       \E n \in DOMAIN x.last_report.results : x.last_report.results[n].status # "PASS"
MonitorInv == TrueReport(monitor, store.tests)

\* The same, of the fields.
LastIsTrue(p) ==
  /\ IsReport(p) /\ p.total_passed \in 0..21
  /\ p.regression => \E n \in DOMAIN p.results : p.results[n].status # "PASS"
FieldsAreTrue(s, k, r, p, tests) ==
  /\ LastIsTrue(p) /\ Reported(r)
  /\ s = "agents" => Backed(r, k, tests)
  /\ (p.status = "ALL_PASS" /\ s = "report") =>
       \A n \in DOMAIN Agents : <<Agents[n], k>> \in DOMAIN tests

\* The monitoring engine, field by field.
LEMMA MonitorFields ==
  ASSUME NEW s, NEW k, NEW r, NEW p, NEW tests, NEW x,
         x = [step |-> s, cycle |-> k, results |-> r, last_report |-> p]
  PROVE  TrueReport(x, tests) <=> FieldsAreTrue(s, k, r, p, tests)
<1>1. x.step = s /\ x.cycle = k /\ x.results = r /\ x.last_report = p /\ IsMonitor(x)
  BY DEF IsMonitor
<1> QED BY <1>1, Zenon DEF TrueReport, FieldsAreTrue, LastIsTrue

\* One result more.
LEMMA ResultAppended ==
  ASSUME NEW results, Reported(results), NEW r, NEW n, n = Len(results) + 1, n \in 1..3, GoodReport(n, r)
  PROVE  /\ Reported(Append(results, r))
         /\ \A cycle, tests :
              (Backed(results, cycle, tests) /\ (r.status = "PASS" => <<Agents[n], cycle>> \in DOMAIN tests))
                => Backed(Append(results, r), cycle, tests)
<1>1. PICK S : results \in Seq(S)
  BY DEF Reported
<1>2. results \in Seq(S \cup {r})
  BY <1>1, SeqMonotonic
<1>3. PICK more : more = Append(results, r)
  OBVIOUS
<1>4. /\ more \in Seq(S \cup {r}) /\ Len(more) = n /\ Len(results) \in Nat
      /\ \A i \in 1..Len(results) : more[i] = results[i]
      /\ more[n] = r
  BY <1>2, <1>3, AppendProperties, LenProperties
<1>5. \A i \in 1..n : i = n \/ i \in 1..Len(results)
  BY <1>4
<1>6. Reported(more)
  BY <1>4, <1>5 DEF Reported
<1>7. ASSUME NEW cycle, NEW tests, Backed(results, cycle, tests),
             r.status = "PASS" => <<Agents[n], cycle>> \in DOMAIN tests
      PROVE  Backed(more, cycle, tests)
  BY <1>4, <1>5, <1>7 DEF Backed
<1> QED BY <1>3, <1>6, <1>7

\* More tests stored back a report no less.
LEMMA MoreTests ==
  ASSUME NEW x, NEW tests, NEW more, TrueReport(x, tests), DOMAIN tests \subseteq DOMAIN more
  PROVE  TrueReport(x, more)
BY DEF TrueReport, Backed

\* The tables but that of the tests.
LEMMA TestsStay ==
  ASSUME IsStore(store), NEW f, NEW s, NEW v,
         \/ UNCHANGED store
         \/ store' = [store EXCEPT !.findings = f] \/ store' = [store EXCEPT !.summaries = s]
         \/ store' = [store EXCEPT !.verifications = v]
         \/ store' = [store EXCEPT !.findings = f, !.summaries = s, !.verifications = v]
  PROVE  store'.tests = store.tests
<1>1. PICK f0, s0, v0, t0 : store = [findings |-> f0, summaries |-> s0, verifications |-> v0, tests |-> t0]
  BY DEF IsStore
<1> QED BY <1>1

\* That of the tests.
LEMMA TestsSet ==
  ASSUME IsStore(store), NEW t, store' = [store EXCEPT !.tests = t]
  PROVE  store'.tests = t
<1>1. PICK f0, s0, v0, t0 : store = [findings |-> f0, summaries |-> s0, verifications |-> v0, tests |-> t0]
  BY DEF IsStore
<1> QED BY <1>1

\* What a run of the suites stores.
SuiteRows(saved) == [id \in {MonkeyTests[n].test_id : n \in 1..saved} |-> MonkeyTests[id[2]].passed]

\* A request's steps leave the monitoring engine alone, and store the tests of
\* the suites at most.
LEMMA ClientTests ==
  ASSUME IsStore(store), NEW c \in Clients, ClientStep(c, Batches, Claims)
  PROVE  /\ UNCHANGED monitor
         /\ \/ store'.tests = store.tests
            \/ \E saved \in {1, Len(MonkeyTests)} : store'.tests = Upsert(store.tests, SuiteRows(saved))
<1>1. ASSUME NEW batch, Process(c, batch) PROVE UNCHANGED monitor /\ store'.tests = store.tests
  BY <1>1 DEF Process
<1>2. ASSUME NEW lost, SaveFindings(c, lost) PROVE UNCHANGED monitor /\ store'.tests = store.tests
  <2>1. UNCHANGED monitor /\ \E f : store' = [store EXCEPT !.findings = f]
    BY <1>2, Zenon DEF SaveFindings
  <2> QED BY <2>1, TestsStay
<1>3. CASE SaveSummary(c)
  <2>1. UNCHANGED monitor /\ \E s : store' = [store EXCEPT !.summaries = s]
    BY <1>3, Zenon DEF SaveSummary
  <2> QED BY <2>1, TestsStay
<1>4. CASE SaveVerification(c)
  <2>1. UNCHANGED monitor /\ \E v : store' = [store EXCEPT !.verifications = v]
    BY <1>4, Zenon DEF SaveVerification
  <2> QED BY <2>1, TestsStay
<1>5. CASE StoreFails(c)
  BY <1>5 DEF StoreFails
<1>6. ASSUME NEW claim, VerifyIntegrity(c, claim) PROVE UNCHANGED monitor /\ store'.tests = store.tests
  <2>1. UNCHANGED monitor /\ \E v : store' = [store EXCEPT !.verifications = v]
    BY <1>6, Zenon DEF VerifyIntegrity
  <2> QED BY <2>1, TestsStay
<1>7. ASSUME NEW failed \in BOOLEAN, RunMonkeyTests(c, failed)
      PROVE  /\ UNCHANGED monitor
             /\ \E saved \in {1, Len(MonkeyTests)} : store'.tests = Upsert(store.tests, SuiteRows(saved))
  <2>1. PICK tests \in {MonkeyTests} : \E saved \in {IF failed THEN 1 ELSE Len(tests)} :
          store' = [store EXCEPT !.tests =
            Upsert(@, [id \in {tests[n].test_id : n \in 1..saved} |-> tests[id[2]].passed])]
    BY <1>7, Zenon DEF RunMonkeyTests
  <2>2. PICK saved \in {IF failed THEN 1 ELSE Len(tests)} :
          store' = [store EXCEPT !.tests =
            Upsert(@, [id \in {tests[n].test_id : n \in 1..saved} |-> tests[id[2]].passed])]
    BY <2>1, Zenon
  <2>3. tests = MonkeyTests /\ saved \in {1, Len(MonkeyTests)}
    BY <2>1, <2>2
  <2>4. store' = [store EXCEPT !.tests = Upsert(store.tests, SuiteRows(saved))]
    BY <2>2, <2>3, Zenon DEF SuiteRows
  <2>5. store'.tests = Upsert(store.tests, SuiteRows(saved))
    BY <2>4, TestsSet
  <2>6. UNCHANGED monitor
    BY <1>7, Zenon DEF RunMonkeyTests
  <2> QED BY <2>3, <2>5, <2>6
<1> QED BY <1>1, <1>2, <1>3, <1>4, <1>5, <1>6, <1>7 DEF ClientStep

\* The monitoring engine's steps store the results of the agents at most.
AgentRow(agent, cycle, passed) == [id \in {<<agent, cycle>>} |-> passed]

\* A step of the monitoring engine stores one row of an agent at most.
LEMMA MonitorTests ==
  ASSUME IsStore(store), MonitorStep
  PROVE  \/ store'.tests = store.tests
         \/ /\ Len(monitor.results) < Len(Agents)
            /\ \E payments \in Payments, amounts \in Amounts, agent \in {Agents[Len(monitor.results) + 1]} :
                 store'.tests = Upsert(store.tests,
                   AgentRow(agent, monitor.cycle,
                            AgentReports[<<agent, payments, amounts>>].status = "PASS"))
<1>1. CASE StartCycle \/ FinishCycle
  BY <1>1 DEF StartCycle, FinishCycle
<1>2. ASSUME NEW payments \in Payments, NEW amounts \in Amounts, NEW failed \in BOOLEAN,
             RunAgent(payments, amounts, failed)
      PROVE  \/ store'.tests = store.tests
             \/ /\ Len(monitor.results) < Len(Agents)
                /\ \E agent \in {Agents[Len(monitor.results) + 1]} :
                 store'.tests = Upsert(store.tests,
                   AgentRow(agent, monitor.cycle,
                            AgentReports[<<agent, payments, amounts>>].status = "PASS"))
  <2>1. \/ UNCHANGED store
        \/ \E agent \in {Agents[Len(monitor.results) + 1]} :
             store' = [store EXCEPT !.tests = Upsert(store.tests,
                        AgentRow(agent, monitor.cycle,
                                 AgentReports[<<agent, payments, amounts>>].status = "PASS"))]
    <3>1. PICK agent \in {Agents[Len(monitor.results) + 1]} :
            \E report \in {AgentReports[<<agent, payments, amounts>>]} :
              \/ UNCHANGED store
              \/ store' = [store EXCEPT !.tests =
                   Upsert(@, [id \in {<<agent, monitor.cycle>>} |-> report.status = "PASS"])]
      BY <1>2, Zenon DEF RunAgent
    <3>2. PICK report \in {AgentReports[<<agent, payments, amounts>>]} :
              \/ UNCHANGED store
              \/ store' = [store EXCEPT !.tests =
                   Upsert(@, [id \in {<<agent, monitor.cycle>>} |-> report.status = "PASS"])]
      BY <3>1
    <3>3. report = AgentReports[<<agent, payments, amounts>>]
      BY <3>2
    <3> QED BY <3>1, <3>2, <3>3, Zenon DEF AgentRow
  <2>2. Len(monitor.results) < Len(Agents)
    BY <1>2, Zenon DEF RunAgent
  <2> QED BY <2>1, <2>2, TestsStay, TestsSet
<1>3. ASSUME NEW payments \in Payments, NEW amounts \in Amounts, NEW lost, NEW saves \in 0..3,
             PipelineIntegrationTest(payments, amounts, lost, saves)
      PROVE  store'.tests = store.tests
  <2> DEFINE result == IntegrationResults[<<payments, amounts>>]
             summary == GenerateExecutiveSummary(result.findings, result.summary)
             findings == IF saves >= 1 THEN Upsert(store.findings, FindingRows(result.findings \ lost))
                         ELSE store.findings
             summaries == IF saves >= 2 THEN Append(store.summaries, summary) ELSE store.summaries
  <2>1. \E v : store' = [store EXCEPT !.findings = findings, !.summaries = summaries, !.verifications = v]
    BY <1>3, Zenon DEF PipelineIntegrationTest
  <2> HIDE DEF findings, summaries
  <2> QED BY <2>1, TestsStay
<1> QED BY <1>1, <1>2, <1>3 DEF MonitorStep

\* An upsert keeps the ids of the table, and adds those of the rows.
LEMMA UpsertKeeps ==
  ASSUME NEW table, NEW rows
  PROVE  /\ DOMAIN Upsert(table, rows) = DOMAIN rows \cup DOMAIN table
         /\ \A id \in DOMAIN Upsert(table, rows) :
              Upsert(table, rows)[id] = IF id \in DOMAIN rows THEN rows[id] ELSE table[id]
BY DEF Upsert

\* No stored test is ever deleted.
LEMMA TestsGrow ==
  ASSUME IsStore(store), Next PROVE DOMAIN store.tests \subseteq DOMAIN store'.tests
<1>1. ASSUME NEW rows PROVE DOMAIN store.tests \subseteq DOMAIN Upsert(store.tests, rows)
  <2>1. DOMAIN Upsert(store.tests, rows) = DOMAIN rows \cup DOMAIN store.tests
    BY UpsertKeeps, Zenon
  <2> QED BY <2>1
<1>2. \/ store'.tests = store.tests \/ \E rows : store'.tests = Upsert(store.tests, rows)
  BY ClientTests, MonitorTests DEF Next
<1> QED BY <1>1, <1>2

\* The total of a cycle, from the three reports.
LEMMA CycleTotal ==
  ASSUME NEW results, Reported(results), Len(results) = 3, NEW total,
         total = SumFunction([i \in DOMAIN results |-> results[i].passed])
  PROVE  /\ total \in 0..21
         /\ (\A i \in 1..3 : results[i].status = "PASS") => total = 21
<1>1. DOMAIN results = 1..3
  BY LenProperties DEF Reported
<1>2. PICK w : w = [i \in DOMAIN results |-> results[i].passed]
  OBVIOUS
<1>3. DOMAIN w = 1..3 /\ \A i \in 1..3 : w[i] = results[i].passed /\ GoodReport(i, results[i])
  BY <1>1, <1>2 DEF Reported
<1>4. /\ w[1] \in 0..7 /\ w[2] \in 0..8 /\ w[3] \in 0..6
      /\ results[1].status = "PASS" => w[1] = 7
      /\ results[2].status = "PASS" => w[2] = 8
      /\ results[3].status = "PASS" => w[3] = 6
  <2>1. 1 \in 1..3 /\ 2 \in 1..3 /\ 3 \in 1..3 /\ FullOf(1) = 7 /\ FullOf(2) = 8 /\ FullOf(3) = 6
    BY DEF FullOf
  <2> QED BY <1>3, <2>1 DEF GoodReport
<1>5. \A i \in 1..3 : w[i] \in Int
  <2>1. \A i \in 1..3 : i = 1 \/ i = 2 \/ i = 3
    OBVIOUS
  <2> QED BY <1>4, <2>1
<1>6. total = w[1] + (w[2] + w[3])
  BY <1>2, <1>3, <1>5, SumOfThree
<1>7. PICK a, b, c \in Int : a = w[1] /\ b = w[2] /\ c = w[3]
  BY <1>4
<1>8. total = a + (b + c) /\ a \in 0..7 /\ b \in 0..8 /\ c \in 0..6
  BY <1>4, <1>6, <1>7
<1>9. total \in 0..21
  BY <1>8
<1>10. (\A i \in 1..3 : results[i].status = "PASS") => a = 7 /\ b = 8 /\ c = 6
  BY <1>4, <1>7
<1> QED BY <1>8, <1>9, <1>10

\* Two agents and one more, each with a report of its own.
LEMMA CycleFinished ==
  ASSUME IsStore(store), MonitorInv, FinishCycle PROVE MonitorInv'
<1>1. PICK s, k, r, p : monitor = [step |-> s, cycle |-> k, results |-> r, last_report |-> p]
  BY DEF MonitorInv, TrueReport, IsMonitor
<1>2. s = "agents" /\ Len(r) = 3 /\ DOMAIN Agents = 1..3 /\ UNCHANGED store
  BY <1>1 DEF FinishCycle, Agents
<1>3. PICK total, status, regression :
        /\ total = SumFunction([i \in DOMAIN r |-> r[i].passed])
        /\ status = IF \A i \in DOMAIN Agents : r[i].status = "PASS" THEN "ALL_PASS" ELSE "DEGRADED"
        /\ regression = (p.status # "none" /\ total < p.total_passed)
  OBVIOUS
<1>4. PICK last : last = [status |-> status, total_passed |-> total, results |-> r,
                          regression |-> regression, integration |-> "none"]
  OBVIOUS
<1>5. monitor' = [monitor EXCEPT !.step = "report", !.last_report = last]
  <2>1. \E sum \in {SumFunction([i \in DOMAIN monitor.results |-> monitor.results[i].passed])} :
       monitor' = [monitor EXCEPT !.step = "report", !.last_report =
         [status |-> IF \A i \in DOMAIN Agents : monitor.results[i].status = "PASS"
                     THEN "ALL_PASS" ELSE "DEGRADED",
          total_passed |-> sum, results |-> monitor.results,
          regression |-> monitor.last_report.status # "none" /\ sum < monitor.last_report.total_passed,
          integration |-> "none"]]
    BY Zenon DEF FinishCycle
  <2>2. monitor.results = r /\ monitor.last_report = p
    BY <1>1
  <2>3. PICK sum \in {SumFunction([i \in DOMAIN monitor.results |-> monitor.results[i].passed])} :
       monitor' = [monitor EXCEPT !.step = "report", !.last_report =
         [status |-> IF \A i \in DOMAIN Agents : monitor.results[i].status = "PASS"
                     THEN "ALL_PASS" ELSE "DEGRADED",
          total_passed |-> sum, results |-> monitor.results,
          regression |-> monitor.last_report.status # "none" /\ sum < monitor.last_report.total_passed,
          integration |-> "none"]]
    BY <2>1
  <2>4. sum = total
    <3>1. sum = SumFunction([i \in DOMAIN monitor.results |-> monitor.results[i].passed])
      BY <2>3, Zenon
    <3> QED BY <1>3, <2>2, <3>1, Zenon
  <2>5. last = [status |-> IF \A i \in DOMAIN Agents : monitor.results[i].status = "PASS"
                     THEN "ALL_PASS" ELSE "DEGRADED",
          total_passed |-> sum, results |-> monitor.results,
          regression |-> monitor.last_report.status # "none" /\ sum < monitor.last_report.total_passed,
          integration |-> "none"]
    BY <1>3, <1>4, <2>2, <2>4, Zenon
  <2> QED BY <2>3, <2>5, Zenon
<1>6. monitor' = [step |-> "report", cycle |-> k, results |-> r, last_report |-> last]
  BY <1>1, <1>5
<1>7. Reported(r) /\ Backed(r, k, store.tests) /\ p.total_passed \in 0..21
  <2>1. FieldsAreTrue(s, k, r, p, store.tests)
    BY <1>1, MonitorFields DEF MonitorInv
  <2> QED BY <1>2, <2>1 DEF FieldsAreTrue, LastIsTrue
<1>8. total \in 0..21 /\ ((\A i \in 1..3 : r[i].status = "PASS") => total = 21)
  BY <1>2, <1>3, <1>7, CycleTotal
<1>9. ASSUME status = "ALL_PASS", NEW n \in DOMAIN Agents PROVE <<Agents[n], k>> \in DOMAIN store.tests
  BY <1>2, <1>3, <1>7, <1>9 DEF Backed
<1>10. ASSUME regression PROVE \E n \in DOMAIN r : r[n].status # "PASS"
  <2>1. PICK earlier : earlier = p.total_passed
    OBVIOUS
  <2>2. total < earlier /\ earlier \in 0..21
    BY <1>3, <1>7, <1>10, <2>1
  <2>3. total # 21
    BY <1>8, <2>2
  <2>4. DOMAIN r = 1..3
    BY <1>2, <1>7, LenProperties DEF Reported
  <2> QED BY <1>8, <2>3, <2>4
<1>11. IsReport(last) /\ last.total_passed = total /\ last.status = status
       /\ last.results = r /\ last.regression = regression
  BY <1>4 DEF IsReport
<1>12. FieldsAreTrue("report", k, r, last, store.tests)
  BY <1>7, <1>8, <1>9, <1>10, <1>11 DEF FieldsAreTrue, LastIsTrue
<1> QED BY <1>2, <1>6, <1>12, MonitorFields DEF MonitorInv

\* The monitoring engine's steps.
LEMMA MonitorReports ==
  ASSUME SystemicThreshold > 3, IsStore(store), MonitorInv, MonitorStep PROVE MonitorInv'
<1>1. PICK s, k, r, p : monitor = [step |-> s, cycle |-> k, results |-> r, last_report |-> p]
  BY DEF MonitorInv, TrueReport, IsMonitor
<1>0. FieldsAreTrue(s, k, r, p, store.tests)
  BY <1>1, MonitorFields DEF MonitorInv
<1>2. DOMAIN store.tests \subseteq DOMAIN store'.tests
  BY TestsGrow DEF Next
<1>3. CASE StartCycle
  <2>1. monitor' = [step |-> "agents", cycle |-> k + 1, results |-> <<>>, last_report |-> p]
    BY <1>1, <1>3 DEF StartCycle
  <2>2. Reported(<<>>) /\ Backed(<<>>, k + 1, store'.tests)
    <3>1. <<>> \in Seq({}) /\ Len(<<>>) = 0
      BY EmptySeq
    <3> QED BY <3>1 DEF Reported, Backed
  <2>3. FieldsAreTrue("agents", k + 1, <<>>, p, store'.tests)
    BY <1>0, <2>2 DEF FieldsAreTrue
  <2> QED BY <2>1, <2>3, MonitorFields DEF MonitorInv
<1>4. ASSUME NEW payments \in Payments, NEW amounts \in Amounts, NEW failed \in BOOLEAN,
             RunAgent(payments, amounts, failed)
      PROVE  MonitorInv'
  <2>1. PICK n : n = Len(r) + 1
    OBVIOUS
  <2>2. s = "agents" /\ Reported(r) /\ Backed(r, k, store.tests) /\ LastIsTrue(p)
    <3>1. monitor.step = "agents"
      BY <1>4, Zenon DEF RunAgent
    <3>2. s = "agents"
      BY <1>1, <3>1
    <3> QED BY <1>0, <3>2 DEF FieldsAreTrue
  <2>3. n \in 1..3 /\ Len(Agents) = 3
    <3>1. Len(Agents) = 3 /\ Len(r) < Len(Agents)
      BY <1>1, <1>4 DEF RunAgent, Agents
    <3>2. Len(r) \in 0..3
      BY <2>2 DEF Reported
    <3> QED BY <2>1, <3>1, <3>2
  <2>4. PICK report : /\ GoodReport(n, report)
                      /\ monitor' = [monitor EXCEPT !.results = Append(@, report)]
                      /\ report.status = "PASS" => <<Agents[n], k>> \in DOMAIN store'.tests
    <3>1. PICK found : found = AgentReports[<<Agents[n], payments, amounts>>]
      OBVIOUS
    <3>2. GoodReport(n, found)
      BY <2>3, <3>1, AgentsReport
    <3>3. PICK error : error = [status |-> "ERROR", passed |-> 0, total_checks |-> 0]
      OBVIOUS
    <3>4. GoodReport(n, error) /\ error.status # "PASS"
      BY <3>3 DEF GoodReport, FullOf
    <3>5. \/ monitor' = [monitor EXCEPT !.results = Append(@, error)]
          \/ /\ monitor' = [monitor EXCEPT !.results = Append(@, found)]
             /\ store' = [store EXCEPT !.tests =
                  Upsert(@, AgentRow(Agents[n], monitor.cycle, found.status = "PASS"))]
      <4>1. PICK agent \in {Agents[Len(monitor.results) + 1]} :
              \E report \in {AgentReports[<<agent, payments, amounts>>]} :
                \/ monitor' = [monitor EXCEPT !.results =
                     Append(@, [status |-> "ERROR", passed |-> 0, total_checks |-> 0])]
                \/ /\ monitor' = [monitor EXCEPT !.results = Append(@, report)]
                   /\ store' = [store EXCEPT !.tests =
                        Upsert(@, [id \in {<<agent, monitor.cycle>>} |-> report.status = "PASS"])]
        BY <1>4, Zenon DEF RunAgent
      <4>2. agent = Agents[n]
        BY <1>1, <2>1, <4>1
      <4>3. PICK report \in {AgentReports[<<agent, payments, amounts>>]} :
                \/ monitor' = [monitor EXCEPT !.results =
                     Append(@, [status |-> "ERROR", passed |-> 0, total_checks |-> 0])]
                \/ /\ monitor' = [monitor EXCEPT !.results = Append(@, report)]
                   /\ store' = [store EXCEPT !.tests =
                        Upsert(@, [id \in {<<agent, monitor.cycle>>} |-> report.status = "PASS"])]
        BY <4>1
      <4>4. report = found
        BY <3>1, <4>2, <4>3
      <4> QED BY <3>3, <4>2, <4>3, <4>4, Zenon DEF AgentRow
    <3>6. CASE monitor' = [monitor EXCEPT !.results = Append(@, error)]
      BY <3>4, <3>6, Zenon
    <3>7. CASE /\ monitor' = [monitor EXCEPT !.results = Append(@, found)]
               /\ store' = [store EXCEPT !.tests =
                    Upsert(@, AgentRow(Agents[n], monitor.cycle, found.status = "PASS"))]
      <4>1. PICK rows : rows = AgentRow(Agents[n], monitor.cycle, found.status = "PASS")
        OBVIOUS
      <4>2. store'.tests = Upsert(store.tests, rows)
        BY <3>7, <4>1, TestsSet
      <4>3. <<Agents[n], k>> \in DOMAIN rows
        BY <1>1, <4>1 DEF AgentRow
      <4>4. <<Agents[n], k>> \in DOMAIN store'.tests
        <5>1. DOMAIN store'.tests = DOMAIN rows \cup DOMAIN store.tests
          BY <4>2, UpsertKeeps, Zenon
        <5> QED BY <4>3, <5>1
      <4> QED BY <3>2, <3>7, <4>4, Zenon
    <3> QED BY <3>5, <3>6, <3>7
  <2>5. PICK more : more = Append(r, report)
    OBVIOUS
  <2>6. monitor' = [step |-> s, cycle |-> k, results |-> more, last_report |-> p]
    BY <1>1, <2>4, <2>5
  <2>7. Backed(r, k, store'.tests)
    BY <1>2, <2>2 DEF Backed
  <2>8. Reported(more) /\ Backed(more, k, store'.tests)
    BY <2>1, <2>2, <2>3, <2>4, <2>5, <2>7, ResultAppended
  <2>9. FieldsAreTrue(s, k, more, p, store'.tests)
    BY <2>2, <2>8 DEF FieldsAreTrue
  <2> QED BY <2>6, <2>9, MonitorFields DEF MonitorInv
<1>5. ASSUME NEW payments \in Payments, NEW amounts \in Amounts, NEW lost, NEW saves \in 0..3,
             PipelineIntegrationTest(payments, amounts, lost, saves)
      PROVE  MonitorInv'
  <2>1. PICK integration : monitor' = [monitor EXCEPT !.step = "idle", !.last_report.integration = integration]
    BY <1>5, Zenon DEF PipelineIntegrationTest
  <2>2. PICK t, u, v, g, i : p = [status |-> t, total_passed |-> u, results |-> v, regression |-> g, integration |-> i]
    BY <1>0 DEF FieldsAreTrue, LastIsTrue, IsReport
  <2>3. PICK last : last = [p EXCEPT !.integration = integration]
    OBVIOUS
  <2>4. last = [status |-> t, total_passed |-> u, results |-> v, regression |-> g, integration |-> integration]
    BY <2>2, <2>3
  <2>5. monitor' = [step |-> "idle", cycle |-> k, results |-> r, last_report |-> last]
    BY <1>1, <2>1, <2>3
  <2>6. p.total_passed = u /\ p.results = v /\ p.regression = g
    BY <2>2
  <2>7. IsReport(last) /\ last.total_passed = u /\ last.results = v /\ last.regression = g
    BY <2>4 DEF IsReport
  <2>8. Reported(r) /\ u \in 0..21 /\ (g => \E n \in DOMAIN v : v[n].status # "PASS")
    BY <1>0, <2>6, Zenon DEF FieldsAreTrue, LastIsTrue
  <2>9. LastIsTrue(last)
    BY <2>7, <2>8, Zenon DEF LastIsTrue
  <2>10. FieldsAreTrue("idle", k, r, last, store'.tests)
    BY <2>8, <2>9 DEF FieldsAreTrue
  <2> QED BY <2>5, <2>10, MonitorFields DEF MonitorInv
<1> QED BY <1>3, <1>4, <1>5, CycleFinished DEF MonitorStep

\* What a run of the suites stores has passed.
LEMMA SuiteRowsPass ==
  ASSUME SuitesPass, NEW saved \in {1, Len(MonkeyTests)}, NEW id \in DOMAIN SuiteRows(saved)
  PROVE  SuiteRows(saved)[id] = TRUE
<1>1. PICK results : MonkeyTests = Numbered(results)
  BY DEF MonkeyTests
<1>2. PICK tests : tests = MonkeyTests
  OBVIOUS
<1>3. PICK T : T = [test_id : STRING \X Nat, passed : {TRUE}]
  OBVIOUS
<1>4. tests \in Seq(T) /\ tests # <<>>
  BY <1>2, <1>3 DEF SuitesPass
<1>5. Len(tests) \in Nat /\ Len(tests) # 0 /\ DOMAIN tests = 1..Len(tests)
  BY <1>4, EmptySeq, LenProperties
<1>6. ASSUME NEW n \in DOMAIN tests PROVE tests[n].passed = TRUE /\ tests[n].test_id[2] = n
  <2>1. tests[n] \in T
    BY <1>4, ElementOfSeq, <1>5
  <2>2. tests[n].passed = TRUE
    BY <1>3, <2>1
  <2>3. tests[n].test_id = <<results[n].suite, n>>
    BY <1>1, <1>2 DEF Numbered
  <2> QED BY <2>2, <2>3
<1>7. PICK n \in 1..saved : id = tests[n].test_id
  BY <1>2 DEF SuiteRows
<1>8. n \in DOMAIN tests
  <2>1. PICK length : length = Len(tests)
    OBVIOUS
  <2>2. saved \in {1, length} /\ length \in Nat /\ length # 0 /\ DOMAIN tests = 1..length
    BY <1>2, <1>5, <2>1
  <2> QED BY <1>7, <2>2
<1>9. id[2] = n
  BY <1>6, <1>7, <1>8
<1>10. SuiteRows(saved)[id] = tests[id[2]].passed
  BY <1>2 DEF SuiteRows
<1> QED BY <1>6, <1>8, <1>9, <1>10

\* Every stored test has passed.
TestsPass == \A id \in DOMAIN store.tests : store.tests[id] = TRUE

\* A step stores no test that has not passed.
LEMMA TestsStayPassed ==
  ASSUME SuitesPass, IsStore(store), Len(monitor.results) \in Nat, TestsPass, Next PROVE TestsPass'
<1>1. ASSUME NEW rows, \A id \in DOMAIN rows : rows[id] = TRUE,
             store'.tests = Upsert(store.tests, rows)
      PROVE  TestsPass'
  <2>1. PICK tests : tests = Upsert(store.tests, rows)
    OBVIOUS
  <2>2. /\ DOMAIN tests = DOMAIN rows \cup DOMAIN store.tests
        /\ \A id \in DOMAIN tests : tests[id] = IF id \in DOMAIN rows THEN rows[id] ELSE store.tests[id]
    <3>1. /\ DOMAIN Upsert(store.tests, rows) = DOMAIN rows \cup DOMAIN store.tests
          /\ \A id \in DOMAIN Upsert(store.tests, rows) : Upsert(store.tests, rows)[id]
               = IF id \in DOMAIN rows THEN rows[id] ELSE store.tests[id]
      BY UpsertKeeps
    <3> QED BY <2>1, <3>1
  <2>3. \A id \in DOMAIN tests : tests[id] = TRUE
    BY <1>1, <2>2 DEF TestsPass
  <2> QED BY <1>1, <2>1, <2>3 DEF TestsPass
<1>2. ASSUME store'.tests = store.tests PROVE TestsPass'
  BY <1>2 DEF TestsPass
<1>3. ASSUME NEW saved \in {1, Len(MonkeyTests)}, store'.tests = Upsert(store.tests, SuiteRows(saved))
      PROVE  TestsPass'
  BY <1>1, <1>3, SuiteRowsPass
<1>4. ASSUME NEW payments \in Payments, NEW amounts \in Amounts, Len(monitor.results) < Len(Agents),
             Len(monitor.results) \in Nat, NEW agent \in {Agents[Len(monitor.results) + 1]},
             store'.tests = Upsert(store.tests, AgentRow(agent, monitor.cycle,
                              AgentReports[<<agent, payments, amounts>>].status = "PASS"))
      PROVE  TestsPass'
  <2>1. agent \in {Agents[i] : i \in DOMAIN Agents}
    <3>1. PICK n : n = Len(monitor.results)
      OBVIOUS
    <3>2. DOMAIN Agents = 1..3 /\ Len(Agents) = 3
      BY DEF Agents
    <3>3. n + 1 \in DOMAIN Agents /\ agent = Agents[n + 1]
      BY <1>4, <3>1, <3>2
    <3> QED BY <3>3
  <2>2. AgentReports[<<agent, payments, amounts>>].status = "PASS"
    <3>1. PICK run : run = <<agent, payments, amounts>>
      OBVIOUS
    <3>2. run \in DOMAIN AgentReports
      BY <2>1, <3>1 DEF AgentReports
    <3> QED BY <3>1, <3>2 DEF SuitesPass
  <2>3. PICK rows : rows = AgentRow(agent, monitor.cycle,
                                    AgentReports[<<agent, payments, amounts>>].status = "PASS")
    OBVIOUS
  <2>4. \A id \in DOMAIN rows : rows[id] = TRUE
    BY <2>2, <2>3 DEF AgentRow
  <2> QED BY <1>1, <1>4, <2>3, <2>4
<1> QED BY <1>2, <1>3, <1>4, ClientTests, MonitorTests DEF Next

\* What the monitoring engine holds, whatever the suites find.
THEOREM MonitorInvariant == ASSUME SystemicThreshold > 3 PROVE Spec => []MonitorInv
<1>1. Init => MonitorInv
  <2> SUFFICES ASSUME Init PROVE MonitorInv
    OBVIOUS
  <2>1. monitor = [step |-> "idle", cycle |-> 0, results |-> <<>>, last_report |-> NoReport]
    BY DEF Init
  <2>2. LastIsTrue(NoReport) /\ NoReport.status = "none"
    <3>1. NoReport = [status |-> "none", total_passed |-> 0, results |-> <<>>, regression |-> FALSE,
                      integration |-> "none"]
      BY DEF NoReport
    <3>2. IsReport(NoReport)
      BY <3>1, Zenon DEF IsReport
    <3>3. NoReport.total_passed = 0 /\ NoReport.regression = FALSE /\ NoReport.status = "none"
      BY <3>1
    <3> QED BY <3>2, <3>3 DEF LastIsTrue
  <2>3. <<>> \in Seq({}) /\ Len(<<>>) = 0
    BY EmptySeq
  <2>4. FieldsAreTrue("idle", 0, <<>>, NoReport, store.tests)
    BY <2>2, <2>3 DEF FieldsAreTrue, Reported
  <2> QED BY <2>1, <2>4, MonitorFields DEF MonitorInv
<1>2. Shape /\ MonitorInv /\ [Next]_vars => MonitorInv'
  <2> SUFFICES ASSUME Shape, MonitorInv, [Next]_vars PROVE MonitorInv'
    OBVIOUS
  <2>1. IsStore(store)
    BY DEF Shape
  <2>2. CASE UNCHANGED vars
    BY <2>2 DEF vars, MonitorInv
  <2>3. CASE MonitorStep
    BY <2>1, <2>3, MonitorReports
  <2>4. ASSUME NEW c \in Clients, ClientStep(c, Batches, Claims) PROVE MonitorInv'
    <3>1. UNCHANGED monitor /\ DOMAIN store.tests \subseteq DOMAIN store'.tests
      BY <2>1, <2>4, ClientTests, TestsGrow DEF Next
    <3>2. TrueReport(monitor, store'.tests)
      BY <3>1, MoreTests DEF MonitorInv
    <3> QED BY <3>1, <3>2 DEF MonitorInv
  <2> QED BY <2>2, <2>3, <2>4 DEF Next
<1>3. IInv => Shape
  BY DEF IInv
<1> QED BY <1>1, <1>2, <1>3, PipelineInvariant, PTL DEF Spec

\* A report that everything passed is backed by the stored results of its cycle,
\* and a regression means that an agent did not pass, in every cycle.
ReportsAreTrue ==
  /\ (monitor.last_report.status = "ALL_PASS" /\ monitor.step = "report") =>
       \A n \in DOMAIN Agents : <<Agents[n], monitor.cycle>> \in DOMAIN store.tests
  /\ monitor.last_report.regression =>
       \E n \in DOMAIN monitor.last_report.results : monitor.last_report.results[n].status # "PASS"

\* Reports are true in every cycle, if systemic groups are of four events or more.
THEOREM ReportsTrue == ASSUME SystemicThreshold > 3 PROVE Spec => []ReportsAreTrue
<1>1. MonitorInv => ReportsAreTrue
  BY DEF MonitorInv, TrueReport, ReportsAreTrue
<1> QED BY MonitorInvariant, <1>1, PTL

\* If the suites and agents find nothing, no failed test is ever stored either.
THEOREM ReportsBacked ==
  ASSUME SystemicThreshold > 3, SuitesPass PROVE Spec => []ReportsAreBacked
<1>1. Init => TestsPass
  BY DEF Init, TestsPass
<1>2. Shape /\ MonitorInv /\ TestsPass /\ [Next]_vars => TestsPass'
  <2> SUFFICES ASSUME Shape, MonitorInv, TestsPass, [Next]_vars PROVE TestsPass'
    OBVIOUS
  <2>1. IsStore(store) /\ Len(monitor.results) \in Nat
    BY DEF Shape, MonitorInv, TrueReport, Reported
  <2>2. CASE UNCHANGED vars
    BY <2>2 DEF vars, TestsPass
  <2> QED BY <2>1, <2>2, TestsStayPassed
<1>3. IInv => Shape
  BY DEF IInv
<1>4. TestsPass /\ ReportsAreTrue => ReportsAreBacked
  BY DEF TestsPass, ReportsAreTrue, ReportsAreBacked
<1> QED BY <1>1, <1>2, <1>3, <1>4, PipelineInvariant, MonitorInvariant, ReportsTrue, PTL DEF Spec
===============================================================================
