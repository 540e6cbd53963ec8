------------------------------ MODULE JsonProofs ------------------------------
(***************************************************************************)
(* Whatever calls a program makes of parson.c, with memory or without, its *)
(* objects and arrays keep their shape, and every value has one owner: the *)
(* program, or one place in one container.                                 *)
(*                                                                         *)
(* What is freed with a value is found level by level.  That every level   *)
(* has a property is shown by an induction over the levels: the set of the *)
(* levels that have it contains 0 and with n also n + 1.                   *)
(***************************************************************************)
EXTENDS JsonTree, TLAPS, FiniteSetTheorems, FunctionTheorems, WellFoundedInduction

-----------------------------------------------------------------------------
(* Induction. *)

(* A set of natural numbers that is not empty has a least element. *)
LEMMA Least ==
  ASSUME NEW T \in SUBSET Nat, T # {}
  PROVE  \E x \in T : \A y \in T : x <= y
<1>1. IsWellFoundedOn(OpToRel(<, Nat), Nat)
  BY NatLessThanWellFounded, Zenon
<1>2. \E x \in T : \A y \in T : ~ (<< y, x >> \in OpToRel(<, Nat))
  BY <1>1, WFMin, Zenon
<1>3. \A x, y \in Nat : << y, x >> \in OpToRel(<, Nat) <=> y < x
  BY Zenon DEF OpToRel
<1>4. \E x \in T : \A y \in T : ~ (y < x)
  BY <1>2, <1>3, Zenon
<1> QED
  BY <1>4

(* A set that contains 0, and with a number the next, contains all.        *)
LEMMA Induct ==
  ASSUME NEW S, 0 \in S, \A n \in Nat : n \in S => n + 1 \in S
  PROVE  Nat \subseteq S
<1> SUFFICES ASSUME Nat \ S # {} PROVE FALSE
  OBVIOUS
<1>1. PICK x \in Nat \ S : \A y \in Nat \ S : x <= y
  BY Least
<1>2. x # 0 /\ x - 1 \in Nat
  BY <1>1
<1>3. x - 1 \in S
  BY <1>1, <1>2
<1> QED
  BY <1>2, <1>3

-----------------------------------------------------------------------------
(* The recursive functions of the module satisfy their equations.          *)

(* The levels below a value, from each to the next. *)
LEMMA LevelsStep ==
  ASSUME NEW h, NEW v
  PROVE  /\ Levels(h, v)[0] = {v}
         /\ \A n \in Nat :
              Levels(h, v)[n + 1] =
                Levels(h, v)[n] \cup UNION {Items(h, w) : w \in Levels(h, v)[n]}
<1> DEFINE down == Levels(h, v)
<1>1. NatInductiveDefHypothesis(down, {v},
        LAMBDA above, n : above \cup UNION {Items(h, w) : w \in above})
  BY DEF NatInductiveDefHypothesis, Levels
<1>2. NatInductiveDefConclusion(down, {v},
        LAMBDA above, n : above \cup UNION {Items(h, w) : w \in above})
  BY <1>1, NatInductiveDef
<1>3. down = [n \in Nat |-> IF n = 0 THEN {v}
                            ELSE down[n - 1] \cup UNION {Items(h, w) : w \in down[n - 1]}]
  BY <1>2 DEF NatInductiveDefConclusion
<1> HIDE DEF down
<1>4. down[0] = {v}
  BY <1>3
<1>5. ASSUME NEW n \in Nat
      PROVE  down[n + 1] = down[n] \cup UNION {Items(h, w) : w \in down[n]}
  <2>1. n + 1 \in Nat /\ n + 1 # 0 /\ (n + 1) - 1 = n
    OBVIOUS
  <2> QED
    BY <1>3, <2>1, Zenon
<1> QED
  BY <1>4, <1>5 DEF down

(* The objects a dotted name leads to, from each to the next. *)
LEMMA WaysStep ==
  ASSUME NEW h, NEW o, NEW path, NEW k \in Nat
  PROVE  Ways(h, o, path)[k + 1] =
           IF Ways(h, o, path)[k] = None THEN None
           ELSE json_value_get(h, json_object_get_value(h, Ways(h, o, path)[k], path[k + 1]), "object")
<1> DEFINE at == Ways(h, o, path)
<1>1. NatInductiveDefHypothesis(at, o,
        LAMBDA p, j : IF p = None THEN None
                      ELSE json_value_get(h, json_object_get_value(h, p, path[j]), "object"))
  BY DEF NatInductiveDefHypothesis, Ways
<1>2. NatInductiveDefConclusion(at, o,
        LAMBDA p, j : IF p = None THEN None
                      ELSE json_value_get(h, json_object_get_value(h, p, path[j]), "object"))
  BY <1>1, NatInductiveDef
<1>3. at = [j \in Nat |->
              IF j = 0 THEN o
              ELSE IF at[j - 1] = None THEN None
                   ELSE json_value_get(h, json_object_get_value(h, at[j - 1], path[j]), "object")]
  BY <1>2 DEF NatInductiveDefConclusion
<1> HIDE DEF at
<1>4. k + 1 \in Nat /\ k + 1 # 0 /\ (k + 1) - 1 = k
  OBVIOUS
<1>5. at[k + 1] = IF at[k] = None THEN None
                  ELSE json_value_get(h, json_object_get_value(h, at[k], path[k + 1]), "object")
  BY <1>3, <1>4, Zenon
<1> QED
  BY <1>5 DEF at

LEMMA WaysStart ==
  ASSUME NEW h, NEW o, NEW path
  PROVE  Ways(h, o, path)[0] = o
<1> DEFINE at == Ways(h, o, path)
<1>1. NatInductiveDefHypothesis(at, o,
        LAMBDA p, j : IF p = None THEN None
                      ELSE json_value_get(h, json_object_get_value(h, p, path[j]), "object"))
  BY DEF NatInductiveDefHypothesis, Ways
<1>2. NatInductiveDefConclusion(at, o,
        LAMBDA p, j : IF p = None THEN None
                      ELSE json_value_get(h, json_object_get_value(h, p, path[j]), "object"))
  BY <1>1, NatInductiveDef
<1>3. at = [j \in Nat |->
              IF j = 0 THEN o
              ELSE IF at[j - 1] = None THEN None
                   ELSE json_value_get(h, json_object_get_value(h, at[j - 1], path[j]), "object")]
  BY <1>2 DEF NatInductiveDefConclusion
<1> HIDE DEF at
<1>4. at[0] = o
  BY <1>3
<1> QED
  BY <1>4 DEF at

(* Memory is counted. *)
LEMMA MemoryIsCounted == Memory \subseteq Int
BY TreeAssumption DEF Memory

(* The steps along a dotted name, from each to the next. *)
LEMMA WalksStep ==
  ASSUME NEW h, NEW o, NEW path, NEW mem \in Int, NEW k \in Nat
  PROVE  Walks(h, o, path, mem)[k + 1] = Into(Walks(h, o, path, mem)[k], path[k + 1], mem - 2 * k)
<1> DEFINE at == Walks(h, o, path, mem)
<1>1. NatInductiveDefHypothesis(at, [heap |-> h, object |-> o, ok |-> TRUE],
        LAMBDA s, j : Into(s, path[j], mem - 2 * (j - 1)))
  BY DEF NatInductiveDefHypothesis, Walks
<1>2. NatInductiveDefConclusion(at, [heap |-> h, object |-> o, ok |-> TRUE],
        LAMBDA s, j : Into(s, path[j], mem - 2 * (j - 1)))
  BY <1>1, NatInductiveDef
<1>3. at = [j \in Nat |-> IF j = 0 THEN [heap |-> h, object |-> o, ok |-> TRUE]
                          ELSE Into(at[j - 1], path[j], mem - 2 * (j - 1))]
  BY <1>2 DEF NatInductiveDefConclusion
<1> HIDE DEF at
<1>4. k + 1 \in Nat /\ k + 1 # 0 /\ (k + 1) - 1 = k
  OBVIOUS
<1>5. at[k + 1] = Into(at[k], path[k + 1], mem - 2 * k)
  BY <1>3, <1>4, Zenon
<1> QED
  BY <1>5 DEF at

LEMMA WalksStart ==
  ASSUME NEW h, NEW o, NEW path, NEW mem \in Int
  PROVE  Walks(h, o, path, mem)[0] = [heap |-> h, object |-> o, ok |-> TRUE]
<1> DEFINE at == Walks(h, o, path, mem)
<1>1. NatInductiveDefHypothesis(at, [heap |-> h, object |-> o, ok |-> TRUE],
        LAMBDA s, j : Into(s, path[j], mem - 2 * (j - 1)))
  BY DEF NatInductiveDefHypothesis, Walks
<1>2. NatInductiveDefConclusion(at, [heap |-> h, object |-> o, ok |-> TRUE],
        LAMBDA s, j : Into(s, path[j], mem - 2 * (j - 1)))
  BY <1>1, NatInductiveDef
<1>3. at = [j \in Nat |-> IF j = 0 THEN [heap |-> h, object |-> o, ok |-> TRUE]
                          ELSE Into(at[j - 1], path[j], mem - 2 * (j - 1))]
  BY <1>2 DEF NatInductiveDefConclusion
<1> HIDE DEF at
<1>4. at[0] = [heap |-> h, object |-> o, ok |-> TRUE]
  BY <1>3
<1> QED
  BY <1>4 DEF at

(* The capacity a copy grows to, from each entry to the next. *)
LEMMA GrownForStep ==
  /\ GrownFor[0] = 0
  /\ \A n \in Nat : GrownFor[n + 1] = IF n < GrownFor[n] THEN GrownFor[n] ELSE Doubled(GrownFor[n])
<1>1. NatInductiveDefHypothesis(GrownFor, 0, LAMBDA c, n : IF n - 1 < c THEN c ELSE Doubled(c))
  BY DEF NatInductiveDefHypothesis, GrownFor
<1>2. NatInductiveDefConclusion(GrownFor, 0, LAMBDA c, n : IF n - 1 < c THEN c ELSE Doubled(c))
  BY <1>1, NatInductiveDef
<1>3. GrownFor = [n \in Nat |->
                    IF n = 0 THEN 0
                    ELSE IF n - 1 < GrownFor[n - 1] THEN GrownFor[n - 1] ELSE Doubled(GrownFor[n - 1])]
  BY <1>2 DEF NatInductiveDefConclusion
<1>4. GrownFor[0] = 0
  BY <1>3
<1>5. ASSUME NEW n \in Nat
      PROVE  GrownFor[n + 1] = IF n < GrownFor[n] THEN GrownFor[n] ELSE Doubled(GrownFor[n])
  <2>1. n + 1 \in Nat /\ n + 1 # 0 /\ (n + 1) - 1 = n
    OBVIOUS
  <2> QED
    BY <1>3, <2>1, Zenon
<1> QED
  BY <1>4, <1>5

(* The capacities, from each to the next. *)
LEMMA CapacitiesStep ==
  /\ Capacities[0] = STARTING_CAPACITY
  /\ \A k \in Nat : Capacities[k + 1] = 2 * Capacities[k]
<1>1. NatInductiveDefHypothesis(Capacities, STARTING_CAPACITY, LAMBDA c, k : 2 * c)
  BY DEF NatInductiveDefHypothesis, Capacities
<1>2. NatInductiveDefConclusion(Capacities, STARTING_CAPACITY, LAMBDA c, k : 2 * c)
  BY <1>1, NatInductiveDef
<1>3. Capacities = [k \in Nat |-> IF k = 0 THEN STARTING_CAPACITY ELSE 2 * Capacities[k - 1]]
  BY <1>2 DEF NatInductiveDefConclusion
<1>4. Capacities[0] = STARTING_CAPACITY
  BY <1>3
<1>5. ASSUME NEW k \in Nat
      PROVE  Capacities[k + 1] = 2 * Capacities[k]
  <2>1. k + 1 \in Nat /\ k + 1 # 0 /\ (k + 1) - 1 = k
    OBVIOUS
  <2> QED
    BY <1>3, <2>1, Zenon
<1> QED
  BY <1>4, <1>5

-----------------------------------------------------------------------------
(* Capacities grow; so a container that holds no more than a capacity of   *)
(* the list never needs a larger one.                                      *)
LEMMA CapacitiesGrow ==
  /\ \A k \in Nat : Capacities[k] \in Nat \ {0}
  /\ \A j, k \in Nat : j <= k => Capacities[j] <= Capacities[k]
<1>1. \A k \in Nat : Capacities[k] \in Nat \ {0}
  <2> DEFINE S == {k \in Nat : Capacities[k] \in Nat \ {0}}
  <2>1. 0 \in S
    BY CapacitiesStep, TreeAssumption
  <2>2. ASSUME NEW k \in Nat, k \in S PROVE k + 1 \in S
    <3>1. Capacities[k] \in Nat \ {0} /\ Capacities[k + 1] = 2 * Capacities[k]
      BY <2>2, CapacitiesStep
    <3> QED
      BY <3>1
  <2> HIDE DEF S
  <2>3. Nat \subseteq S
    BY <2>1, <2>2, Induct
  <2> QED
    BY <2>3 DEF S
<1>2. ASSUME NEW j \in Nat PROVE \A d \in Nat : Capacities[j] <= Capacities[j + d]
  <2> DEFINE S == {d \in Nat : Capacities[j] <= Capacities[j + d]}
  <2>1. 0 \in S
    BY <1>1
  <2>2. ASSUME NEW d \in Nat, d \in S PROVE d + 1 \in S
    <3>1. /\ j + d \in Nat /\ j + (d + 1) = (j + d) + 1
          /\ Capacities[j] <= Capacities[j + d]
      BY <2>2
    <3>2. Capacities[(j + d) + 1] = 2 * Capacities[j + d]
      BY <3>1, CapacitiesStep
    <3>3. Capacities[j] \in Nat /\ Capacities[j + d] \in Nat
      BY <1>1, <3>1
    <3>4. Capacities[j] <= Capacities[(j + d) + 1]
      BY <3>1, <3>2, <3>3
    <3> QED
      BY <3>1, <3>4
  <2> HIDE DEF S
  <2>3. Nat \subseteq S
    BY <2>1, <2>2, Induct
  <2> QED
    BY <2>3 DEF S
<1>3. ASSUME NEW j \in Nat, NEW k \in Nat, j <= k PROVE Capacities[j] <= Capacities[k]
  <2>1. k - j \in Nat /\ j + (k - j) = k
    BY <1>3
  <2>2. Capacities[j] <= Capacities[j + (k - j)]
    BY <1>2, <2>1
  <2> QED
    BY <2>1, <2>2
<1> QED
  BY <1>1, <1>3

LEMMA CapacityFits ==
  ASSUME NEW k \in Nat, NEW n \in Nat, n <= Capacities[k]
  PROVE  CapacityFor(n) \in n .. Capacities[k]
<1> DEFINE M == Capacities[k]
           Reached(m) == /\ GrownFor[m] \in Nat
                         /\ m <= GrownFor[m]
                         /\ m <= M => GrownFor[m] <= M
                         /\ GrownFor[m] = 0 \/ \E j \in Nat : GrownFor[m] = Capacities[j]
           S == {m \in Nat : Reached(m)}
<1>0. M \in Nat
  BY CapacitiesGrow
<1>1. 0 \in S
  BY GrownForStep, <1>0
<1>2. ASSUME NEW m \in Nat, m \in S PROVE m + 1 \in S
  <2> HIDE DEF M
  <2>0. Reached(m)
    BY <1>2
  <2> DEFINE c == GrownFor[m]
  <2>1. GrownFor[m + 1] = IF m < c THEN c ELSE Doubled(c)
    BY GrownForStep
  <2>2. CASE m < c
    BY <2>0, <2>1, <2>2, <1>0
  <2>3. CASE ~ (m < c)
    <3>1. c = m /\ GrownFor[m + 1] = Doubled(c) /\ c \in Nat
      BY <2>0, <2>1, <2>3
    <3>2. CASE c = 0
      <4>1. Doubled(c) = Capacities[0] /\ Capacities[0] \in Nat \ {0}
        BY <3>2, CapacitiesStep, CapacitiesGrow, TreeAssumption DEF Doubled
      <4>2. Capacities[0] <= M
        BY CapacitiesGrow DEF M
      <4>3. Reached(m + 1)
        <5>1. GrownFor[m + 1] = Capacities[0]
          BY <3>1, <4>1
        <5>2. m + 1 <= Capacities[0]
          BY <3>1, <3>2, <4>1
        <5>3. \E j \in Nat : GrownFor[m + 1] = Capacities[j]
          BY <5>1
        <5> QED
          BY <5>1, <5>2, <5>3, <4>1, <4>2
      <4> QED
        BY <4>3
    <3>3. CASE c # 0
      <4>1. PICK j \in Nat : c = Capacities[j]
        BY <2>0, <3>3
      <4>2. /\ Capacities[j + 1] = 2 * c /\ Capacities[0] = STARTING_CAPACITY
            /\ Capacities[0] <= Capacities[j + 1] /\ Capacities[j + 1] \in Nat
        <5>1. j + 1 \in Nat /\ 0 <= j + 1
          OBVIOUS
        <5> QED
          BY <4>1, <5>1, CapacitiesStep, CapacitiesGrow
      <4>3. Doubled(c) = Capacities[j + 1]
        BY <4>2, TreeAssumption DEF Doubled
      <4>4. m + 1 <= M => Capacities[j + 1] <= M
        <5> SUFFICES ASSUME m + 1 <= M PROVE Capacities[j + 1] <= M
          OBVIOUS
        <5>1. c < M
          BY <3>1, <1>0
        <5>2. ASSUME k <= j PROVE FALSE
          <6>1. Capacities[k] <= Capacities[j]
            BY <5>2, CapacitiesGrow
          <6>2. M <= c
            BY <6>1, <4>1 DEF M
          <6> QED
            BY <6>2, <5>1, <1>0, <3>1
        <5>3. j + 1 <= k /\ j + 1 \in Nat
          BY <5>2
        <5> QED
          BY <5>3, CapacitiesGrow DEF M
      <4>5. Reached(m + 1)
        <5>1. GrownFor[m + 1] = Capacities[j + 1]
          BY <3>1, <4>3
        <5>2. m + 1 <= Capacities[j + 1]
          BY <3>1, <3>3, <4>2
        <5>3. \E i \in Nat : GrownFor[m + 1] = Capacities[i]
          BY <5>1
        <5> QED
          BY <5>1, <5>2, <5>3, <4>2, <4>4
      <4> QED
        BY <4>5
    <3> QED
      BY <3>2, <3>3
  <2> QED
    BY <2>2, <2>3
<1> HIDE DEF S
<1>3. Nat \subseteq S
  BY <1>1, <1>2, Induct
<1>4. Reached(n)
  BY <1>3 DEF S
<1> QED
  BY <1>4, <1>0 DEF CapacityFor

(* The same of a container's limit. *)
LEMMA CapacityOfCopy ==
  ASSUME NEW b, NEW n \in Nat, n <= Limit(b)
  PROVE  CapacityFor(n) \in n .. Limit(b)
<1>1. PICK k \in Nat : Limit(b) = Capacities[k]
  BY TreeAssumption DEF Limit
<1> QED
  BY <1>1, CapacityFits

-----------------------------------------------------------------------------
(* The inductive invariant.  A block keeps the shape TypeOK speaks of, and *)
(* a block that is free is empty.                                          *)
BlockSet == [type  : {"free", "object", "array", "scalar"},
            names : Seq(Names),  items : Seq(Values),  capacity : Nat]

Sound(b) ==
  /\ b.type = "free" => b = Free
  /\ b.type = "scalar" => b.items = << >>
  /\ IsInjective(b.names)
  /\ Len(b.names) = (IF b.type = "object" THEN Len(b.items) ELSE 0)
  /\ Len(b.items) <= b.capacity
  /\ b.type # "free" => b.capacity <= Limit(b)

Typed(h) == h \in [Values -> BlockSet] /\ \A v \in Values : Sound(h[v])

(* No two places hold the same value. *)
OnePlace(h) ==
  \A c, d \in Values : \A i \in DOMAIN h[c].items, j \in DOMAIN h[d].items :
    h[c].items[i] = h[d].items[j] => c = d /\ i = j

(* No place holds a value that was freed. *)
NoneFreed(h) == \A c \in Values : \A i \in DOMAIN h[c].items : h[h[c].items[i]].type # "free"

(* The values of S are there, and in no container. *)
Rooted(h, S) ==
  /\ S \subseteq Values
  /\ \A s \in S : h[s].type # "free"
  /\ \A c \in Values : \A i \in DOMAIN h[c].items : h[c].items[i] \notin S

GoodHeap(h) == Typed(h) /\ OnePlace(h) /\ NoneFreed(h)

OwnInv == GoodHeap(heap) /\ Rooted(heap, held)

(* The invariant says what the two properties say. *)
LEMMA OwnInvMeansTypeOK == OwnInv => TypeOK
<1> SUFFICES ASSUME OwnInv PROVE TypeOK
  OBVIOUS
<1>1. Typed(heap) /\ Rooted(heap, held)
  BY DEF OwnInv, GoodHeap
<1>2. held \subseteq Live
  BY <1>1 DEF Rooted, Live
<1>3. ASSUME NEW v \in Live
      PROVE  LET b == heap[v] IN
             /\ b.type \in {"object", "array", "scalar"}
             /\ b.names \in Seq(Names) /\ IsInjective(b.names)
             /\ Len(b.names) = (IF b.type = "object" THEN Len(b.items) ELSE 0)
             /\ b.type = "scalar" => b.items = << >>
             /\ b.capacity \in Len(b.items) .. Limit(b)
  <2>1. heap[v] \in BlockSet /\ Sound(heap[v]) /\ heap[v].type # "free"
    BY <1>1 DEF Typed, Live
  <2> DEFINE b == heap[v]
  <2>2. /\ b.type \in {"object", "array", "scalar"}
        /\ b.names \in Seq(Names) /\ b.items \in Seq(Values) /\ b.capacity \in Nat
    BY <2>1 DEF BlockSet
  <2>3. Limit(b) \in Nat
    BY TreeAssumption DEF Limit
  <2>4. /\ IsInjective(b.names)
        /\ Len(b.names) = (IF b.type = "object" THEN Len(b.items) ELSE 0)
        /\ b.type = "scalar" => b.items = << >>
        /\ Len(b.items) <= b.capacity /\ b.capacity <= Limit(b)
    BY <2>1 DEF Sound
  <2> HIDE DEF b
  <2>5. b.capacity \in Len(b.items) .. Limit(b)
    BY <2>2, <2>3, <2>4
  <2> QED
    BY <2>2, <2>4, <2>5 DEF b
<1> QED
  BY <1>2, <1>3 DEF TypeOK

LEMMA OwnInvMeansOneOwner == OwnInv => OneOwner
<1> SUFFICES ASSUME OwnInv, NEW v \in Values
             PROVE  /\ v \in Live => Cardinality(PlacesOf(v)) + (IF v \in held THEN 1 ELSE 0) <= 1
                    /\ v \notin Live => PlacesOf(v) = {} /\ v \notin held
  BY DEF OneOwner
<1>1. OnePlace(heap) /\ NoneFreed(heap) /\ Rooted(heap, held)
  BY DEF OwnInv, GoodHeap
<1>2. \A p \in PlacesOf(v) :
        \E c \in Values : \E i \in DOMAIN heap[c].items : p = << c, i >> /\ heap[c].items[i] = v
  BY DEF PlacesOf
<1>3. \A p, q \in PlacesOf(v) : p = q
  BY <1>1, <1>2 DEF OnePlace
<1>4. PlacesOf(v) # {} => v \in Live /\ v \notin held
  BY <1>1, <1>2 DEF NoneFreed, Rooted, Live
<1>5. v \in held => v \in Live
  BY <1>1 DEF Rooted, Live
<1>6. CASE PlacesOf(v) = {}
  <2>1. Cardinality(PlacesOf(v)) = 0
    BY <1>6, FS_EmptySet
  <2> QED
    BY <2>1, <1>5, <1>6
<1>7. CASE PlacesOf(v) # {}
  <2>1. PICK p : p \in PlacesOf(v)
    BY <1>7
  <2>2. PlacesOf(v) = {p}
    BY <2>1, <1>3
  <2>3. Cardinality(PlacesOf(v)) = 1
    BY <2>2, FS_Singleton
  <2> QED
    BY <2>3, <1>4, <1>7
<1> QED
  BY <1>6, <1>7

-----------------------------------------------------------------------------
(* What is freed with a value: the value, and what is in something freed.  *)
LEMMA LevelsBelow ==
  ASSUME NEW h \in [Values -> BlockSet], NEW v \in Values, NEW n \in Nat
  PROVE  /\ v \in Levels(h, v)[n]
         /\ Levels(h, v)[n] \subseteq Values
         /\ \A x \in Levels(h, v)[n] : x # v => \E p \in Levels(h, v)[n] : x \in Items(h, p)
<1> DEFINE down == Levels(h, v)
           Below(m) == /\ v \in down[m]
                       /\ down[m] \subseteq Values
                       /\ \A x \in down[m] : x # v => \E p \in down[m] : x \in Items(h, p)
           S == {m \in Nat : Below(m)}
<1>0. \A w \in Values : Items(h, w) \subseteq Values
  <2> TAKE w \in Values
  <2>1. h[w].items \in Seq(Values)
    BY DEF BlockSet
  <2> QED
    BY <2>1 DEF Items
<1>1. 0 \in S
  BY LevelsStep
<1>2. ASSUME NEW m \in Nat, m \in S PROVE m + 1 \in S
  <2>1. Below(m)
    BY <1>2
  <2>2. down[m + 1] = down[m] \cup UNION {Items(h, w) : w \in down[m]}
    BY LevelsStep
  <2> HIDE DEF down
  <2>3. v \in down[m + 1] /\ down[m + 1] \subseteq Values
    BY <2>1, <2>2, <1>0
  <2>4. \A x \in down[m + 1] : x # v => \E p \in down[m + 1] : x \in Items(h, p)
    BY <2>1, <2>2
  <2> QED
    BY <2>3, <2>4
<1> HIDE DEF S
<1>3. Nat \subseteq S
  BY <1>1, <1>2, Induct
<1>4. Below(n)
  BY <1>3 DEF S
<1> QED
  BY <1>4

LEMMA DepthIsNat ==
  ASSUME NEW v \in Values
  PROVE  Cardinality(Values) - 1 \in Nat
<1>1. Cardinality(Values) \in Nat /\ Cardinality(Values) # 0
  BY TreeAssumption, FS_CardinalityType, FS_EmptySet
<1> QED
  BY <1>1

LEMMA WithinBelow ==
  ASSUME NEW h \in [Values -> BlockSet], NEW v \in Values
  PROVE  /\ v \in Within(h, v)
         /\ Within(h, v) \subseteq Values
         /\ \A c \in Values : \A i \in DOMAIN h[c].items :
              (OnePlace(h) /\ h[c].items[i] \in Within(h, v) /\ h[c].items[i] # v) => c \in Within(h, v)
<1>1. Cardinality(Values) - 1 \in Nat
  BY DepthIsNat
<1>2. /\ v \in Within(h, v)
      /\ Within(h, v) \subseteq Values
      /\ \A x \in Within(h, v) : x # v => \E p \in Within(h, v) : x \in Items(h, p)
  BY <1>1, LevelsBelow DEF Within
<1>3. ASSUME NEW c \in Values, NEW i \in DOMAIN h[c].items, OnePlace(h),
             h[c].items[i] \in Within(h, v), h[c].items[i] # v
      PROVE  c \in Within(h, v)
  <2>1. PICK p \in Within(h, v) : h[c].items[i] \in Items(h, p)
    BY <1>2, <1>3
  <2>2. PICK j \in DOMAIN h[p].items : h[c].items[i] = h[p].items[j]
    BY <2>1 DEF Items
  <2>3. c = p
    BY <1>2, <1>3, <2>1, <2>2 DEF OnePlace
  <2> QED
    BY <2>1, <2>3
<1> QED
  BY <1>2, <1>3

LEMMA FreeBlock == Free \in BlockSet /\ Sound(Free) /\ Free.type = "free" /\ Free.items = << >>
<1>1. << >> \in Seq(Names) /\ << >> \in Seq(Values) /\ Len(<< >>) = 0
  OBVIOUS
<1>2. IsInjective(<< >>)
  BY DEF IsInjective
<1> QED
  BY <1>1, <1>2 DEF Free, Block, BlockSet, Sound

LEMMA Freed ==
  ASSUME NEW h, Typed(h), NEW v \in Values
  PROVE  /\ \A w \in Values :
              json_value_free(h, v)[w] = IF w \in Within(h, v) THEN Free ELSE h[w]
         /\ Typed(json_value_free(h, v))
<1>1. \A w \in Values : json_value_free(h, v)[w] = IF w \in Within(h, v) THEN Free ELSE h[w]
  BY DEF json_value_free
<1>2. \A w \in Values : h[w] \in BlockSet /\ Sound(h[w])
  BY DEF Typed
<1>3. json_value_free(h, v) = [w \in Values |-> IF w \in Within(h, v) THEN Free ELSE h[w]]
  BY DEF json_value_free
<1>4. \A w \in Values : json_value_free(h, v)[w] \in BlockSet /\ Sound(json_value_free(h, v)[w])
  BY <1>1, <1>2, FreeBlock
<1>5. json_value_free(h, v) \in [Values -> BlockSet]
  BY <1>3, <1>4
<1> QED
  BY <1>1, <1>4, <1>5 DEF Typed

(* A root is freed: what is left is sound, and the other roots are roots.  *)
LEMMA FreeRoot ==
  ASSUME NEW h, GoodHeap(h), NEW S, Rooted(h, S), NEW v \in S
  PROVE  GoodHeap(json_value_free(h, v)) /\ Rooted(json_value_free(h, v), S \ {v})
<1> DEFINE g == json_value_free(h, v)
           W == Within(h, v)
<1>1. /\ Typed(h) /\ OnePlace(h) /\ NoneFreed(h)
      /\ h \in [Values -> BlockSet] /\ v \in Values /\ S \subseteq Values
  BY DEF GoodHeap, Typed, Rooted
<1>2. /\ \A w \in Values : g[w] = IF w \in W THEN Free ELSE h[w]
      /\ Typed(g)
  BY <1>1, Freed
<1>3. \A c \in Values : \A i \in DOMAIN h[c].items :
        (h[c].items[i] \in W /\ h[c].items[i] # v) => c \in W
  BY <1>1, WithinBelow
<1>4. \A c \in Values : \A i \in DOMAIN h[c].items : h[c].items[i] \notin S
  BY DEF Rooted
<1>5. \A c \in Values : h[c].items \in Seq(Values)
  BY <1>1 DEF BlockSet
<1> HIDE DEF g, W
<1>6. \A c \in Values : \A i \in DOMAIN g[c].items :
        /\ c \notin W /\ g[c] = h[c] /\ i \in DOMAIN h[c].items
        /\ h[c].items[i] \in Values /\ h[c].items[i] \notin W
  <2> TAKE c \in Values
  <2> TAKE i \in DOMAIN g[c].items
  <2>1. c \notin W /\ g[c] = h[c]
    <3>1. DOMAIN Free.items = {}
      BY FreeBlock
    <3> QED
      BY <3>1, <1>2
  <2>2. i \in DOMAIN h[c].items /\ h[c].items[i] \in Values
    BY <2>1, <1>5
  <2>3. h[c].items[i] # v
    BY <2>2, <1>4
  <2> QED
    BY <2>1, <2>2, <2>3, <1>3
<1>7. OnePlace(g)
  BY <1>1, <1>6 DEF OnePlace
<1>8. NoneFreed(g)
  BY <1>1, <1>2, <1>6 DEF NoneFreed
<1>9. \A x \in S : x # v => x \notin W
  <2> TAKE x \in S
  <2> HAVE x # v
  <2>1. \A y \in W : y # v => \E p \in W : y \in Items(h, p)
    BY <1>1, DepthIsNat, LevelsBelow DEF Within, W
  <2>2. W \subseteq Values
    BY <1>1, WithinBelow DEF W
  <2>3. \A p \in W : x \notin Items(h, p)
    BY <2>2, <1>4 DEF Items
  <2> QED
    BY <2>1, <2>3
<1>10. Rooted(g, S \ {v})
  BY <1>1, <1>2, <1>4, <1>6, <1>9 DEF Rooted
<1> QED
  BY <1>2, <1>7, <1>8, <1>10 DEF g, GoodHeap

(* A root is in nothing but itself. *)
LEMMA RootsStay ==
  ASSUME NEW h \in [Values -> BlockSet], NEW S, Rooted(h, S), NEW s \in S, NEW v \in Values, s # v
  PROVE  s \notin Within(h, v)
<1>1. \A y \in Within(h, v) : y # v => \E p \in Within(h, v) : y \in Items(h, p)
  BY DepthIsNat, LevelsBelow DEF Within
<1>2. \A p \in Within(h, v) : s \notin Items(h, p)
  BY WithinBelow DEF Items, Rooted
<1> QED
  BY <1>1, <1>2

(* Another entry at a place. *)
LEMMA EntryReplaced ==
  ASSUME NEW b \in BlockSet, Sound(b), NEW i \in DOMAIN b.items, NEW v \in Values
  PROVE  LET d == [b EXCEPT !.items[i] = v] IN
         /\ d \in BlockSet /\ Sound(d) /\ d.type = b.type
         /\ DOMAIN d.items = DOMAIN b.items
         /\ \A j \in DOMAIN b.items : d.items[j] = IF j = i THEN v ELSE b.items[j]
<1> DEFINE d == [b EXCEPT !.items[i] = v]
           t == [b.items EXCEPT ![i] = v]
<1>1. /\ b.items \in Seq(Values) /\ b.names \in Seq(Names) /\ b.capacity \in Nat
      /\ b.type \in {"free", "object", "array", "scalar"}
  BY DEF BlockSet
<1>2. /\ t \in Seq(Values) /\ Len(t) = Len(b.items) /\ DOMAIN t = DOMAIN b.items
      /\ \A j \in DOMAIN b.items : t[j] = IF j = i THEN v ELSE b.items[j]
  BY <1>1
<1>3. /\ d.type = b.type /\ d.names = b.names /\ d.capacity = b.capacity /\ d.items = t
      /\ d = [type |-> b.type, names |-> b.names, items |-> t, capacity |-> b.capacity]
  <2>1. d = [b EXCEPT !.items = t]
    BY DEF BlockSet
  <2> HIDE DEF d, t
  <2> QED
    BY <2>1 DEF BlockSet
<1> HIDE DEF d, t
<1>4. d \in BlockSet
  BY <1>1, <1>2, <1>3 DEF BlockSet
<1>5. b.items # << >>
  OBVIOUS
<1>6. b.type # "free" /\ b.type # "scalar"
  BY <1>5, FreeBlock DEF Sound
<1>7. Limit(d) = Limit(b)
  BY <1>3 DEF Limit
<1>8. Sound(d)
  BY <1>2, <1>3, <1>6, <1>7 DEF Sound
<1> QED
  BY <1>2, <1>3, <1>4, <1>8 DEF d

(* What was at a place is freed, and a root put there. *)
LEMMA PutInstead ==
  ASSUME NEW h, GoodHeap(h), NEW S, Rooted(h, S), NEW v \in S,
         NEW c \in Values, NEW i \in DOMAIN h[c].items
  PROVE  LET g == [json_value_free(h, h[c].items[i]) EXCEPT ![c].items[i] = v]
         IN GoodHeap(g) /\ Rooted(g, S \ {v})
<1> DEFINE x == h[c].items[i]
           f == json_value_free(h, x)
           W == Within(h, x)
           g == [f EXCEPT ![c].items[i] = v]
<1>1. /\ Typed(h) /\ OnePlace(h) /\ NoneFreed(h)
      /\ h \in [Values -> BlockSet] /\ v \in Values /\ S \subseteq Values
  BY DEF GoodHeap, Typed, Rooted
<1>2. \A d \in Values : h[d] \in BlockSet /\ Sound(h[d]) /\ h[d].items \in Seq(Values)
  BY <1>1 DEF BlockSet, Typed
<1>3. x \in Values /\ x \notin S
  BY <1>2 DEF Rooted
<1>4. /\ \A w \in Values : f[w] = IF w \in W THEN Free ELSE h[w]
      /\ Typed(f) /\ f \in [Values -> BlockSet]
  BY <1>1, <1>3, Freed DEF Typed
<1>5. \A s \in S : s \notin W
  BY <1>1, <1>3, RootsStay
<1>6. \A d \in Values : \A j \in DOMAIN h[d].items :
        (h[d].items[j] \in W /\ h[d].items[j] # x) => d \in W
  BY <1>1, <1>3, WithinBelow
<1> HIDE DEF W, f
<1>7. /\ \A d \in Values : d # c => g[d] = f[d]
      /\ g[c] = [f[c] EXCEPT !.items[i] = v]
      /\ g = [d \in Values |-> IF d = c THEN [f[c] EXCEPT !.items[i] = v] ELSE f[d]]
  BY <1>4
<1> HIDE DEF g
<1>8. /\ g[c] \in BlockSet /\ Sound(g[c]) /\ g[c].type = f[c].type
      /\ \A j \in DOMAIN g[c].items :
           /\ c \notin W /\ j \in DOMAIN h[c].items
           /\ g[c].items[j] = IF j = i THEN v ELSE h[c].items[j]
  <2>1. CASE c \in W
    <3>1. f[c] = Free
      BY <1>4, <2>1
    <3>2. g[c] = Free
      <4>1. [Free EXCEPT !.items[i] = v] = Free
        <5>1. i \notin DOMAIN Free.items
          BY FreeBlock
        <5>2. [Free.items EXCEPT ![i] = v] = Free.items
          BY FreeBlock
        <5> QED
          BY <5>2 DEF Free, Block
      <4> QED
        BY <3>1, <4>1, <1>7
    <3>3. DOMAIN g[c].items = {}
      BY <3>2, FreeBlock
    <3> QED
      BY <3>1, <3>2, <3>3, FreeBlock
  <2>2. CASE c \notin W
    <3>1. f[c] = h[c]
      BY <1>4, <2>2
    <3>2. h[c] \in BlockSet /\ Sound(h[c])
      BY <1>2
    <3>3. g[c] = [h[c] EXCEPT !.items[i] = v]
      BY <3>1, <1>7
    <3>4. /\ g[c] \in BlockSet /\ Sound(g[c]) /\ g[c].type = h[c].type
          /\ DOMAIN g[c].items = DOMAIN h[c].items
          /\ \A j \in DOMAIN h[c].items : g[c].items[j] = IF j = i THEN v ELSE h[c].items[j]
      BY <3>2, <3>3, <1>1, EntryReplaced
    <3> QED
      BY <3>1, <3>4, <2>2
  <2> QED
    BY <2>1, <2>2
<1>9. \A d \in Values : g[d] \in BlockSet /\ Sound(g[d]) /\ g[d].type = f[d].type
  BY <1>4, <1>7, <1>8 DEF Typed
<1>10. Typed(g)
  BY <1>7, <1>9 DEF Typed
<1>11. \A d \in Values : \A j \in DOMAIN g[d].items :
         /\ d \notin W /\ j \in DOMAIN h[d].items
         /\ g[d].items[j] = IF d = c /\ j = i THEN v ELSE h[d].items[j]
  <2> TAKE d \in Values
  <2> TAKE j \in DOMAIN g[d].items
  <2>1. CASE d = c
    BY <1>8, <2>1
  <2>2. CASE d # c
    <3>1. g[d] = f[d]
      BY <1>7, <2>2
    <3>2. DOMAIN Free.items = {}
      BY FreeBlock
    <3>3. d \notin W /\ g[d] = h[d]
      BY <3>1, <3>2, <1>4
    <3> QED
      BY <3>3, <2>2
  <2> QED
    BY <2>1, <2>2
<1>12. \A d \in Values : \A j \in DOMAIN g[d].items :
         ~ (d = c /\ j = i) => /\ h[d].items[j] \notin W
                               /\ h[d].items[j] \in Values
                               /\ h[d].items[j] # v
  <2> TAKE d \in Values
  <2> TAKE j \in DOMAIN g[d].items
  <2> HAVE ~ (d = c /\ j = i)
  <2>1. d \notin W /\ j \in DOMAIN h[d].items
    BY <1>11
  <2>2. h[d].items[j] # x
    BY <1>1, <2>1 DEF OnePlace
  <2>3. h[d].items[j] \in Values
    BY <1>2, <2>1
  <2>4. h[d].items[j] # v
    BY <2>1 DEF Rooted
  <2> QED
    BY <2>1, <2>2, <2>3, <2>4, <1>6
<1>13. OnePlace(g)
  <2> SUFFICES ASSUME NEW d \in Values, NEW e \in Values,
                      NEW j \in DOMAIN g[d].items, NEW k \in DOMAIN g[e].items,
                      g[d].items[j] = g[e].items[k]
               PROVE  d = e /\ j = k
    BY DEF OnePlace
  <2>1. j \in DOMAIN h[d].items /\ k \in DOMAIN h[e].items
    BY <1>11
  <2>2. CASE d = c /\ j = i
    BY <2>2, <1>11, <1>12
  <2>3. CASE e = c /\ k = i
    BY <2>3, <1>11, <1>12
  <2>4. CASE ~ (d = c /\ j = i) /\ ~ (e = c /\ k = i)
    <3>1. h[d].items[j] = h[e].items[k]
      BY <2>4, <1>11
    <3> QED
      BY <3>1, <2>1, <1>1 DEF OnePlace
  <2> QED
    BY <2>2, <2>3, <2>4
<1>14. NoneFreed(g)
  <2> SUFFICES ASSUME NEW d \in Values, NEW j \in DOMAIN g[d].items
               PROVE  g[g[d].items[j]].type # "free"
    BY DEF NoneFreed
  <2>1. CASE d = c /\ j = i
    <3>1. g[d].items[j] = v /\ g[v].type = h[v].type
      BY <2>1, <1>1, <1>4, <1>5, <1>9, <1>11
    <3> QED
      BY <3>1 DEF Rooted
  <2>2. CASE ~ (d = c /\ j = i)
    <3>1. g[d].items[j] = h[d].items[j] /\ j \in DOMAIN h[d].items
      BY <2>2, <1>11
    <3>2. g[h[d].items[j]].type = h[h[d].items[j]].type
      BY <2>2, <1>4, <1>9, <1>12
    <3> QED
      BY <3>1, <3>2, <1>1 DEF NoneFreed
  <2> QED
    BY <2>1, <2>2
<1>15. Rooted(g, S \ {v})
  <2>1. \A s \in S : g[s].type # "free"
    BY <1>1, <1>4, <1>5, <1>9 DEF Rooted
  <2>2. \A d \in Values : \A j \in DOMAIN g[d].items : g[d].items[j] \notin S \ {v}
    BY <1>11 DEF Rooted
  <2> QED
    BY <1>1, <2>1, <2>2 DEF Rooted
<1> QED
  BY <1>10, <1>13, <1>14, <1>15 DEF GoodHeap, g, f

-----------------------------------------------------------------------------
(* A heap whose containers hold the same, and whose blocks are free as     *)
(* before, is as good.                                                     *)
LEMMA SameItems ==
  ASSUME NEW h, GoodHeap(h), NEW S, Rooted(h, S), NEW g, Typed(g),
         \A d \in Values : g[d].items = h[d].items /\ (g[d].type = "free" <=> h[d].type = "free")
  PROVE  GoodHeap(g) /\ Rooted(g, S)
<1>1. OnePlace(h) /\ NoneFreed(h) /\ \A d \in Values : h[d].items \in Seq(Values)
  BY DEF GoodHeap, Typed, BlockSet
<1>2. OnePlace(g)
  BY <1>1 DEF OnePlace
<1>3. NoneFreed(g)
  <2> SUFFICES ASSUME NEW c \in Values, NEW i \in DOMAIN g[c].items
               PROVE  g[g[c].items[i]].type # "free"
    BY DEF NoneFreed
  <2>1. /\ i \in DOMAIN h[c].items /\ h[c].items[i] \in Values /\ g[c].items[i] = h[c].items[i]
        /\ h[h[c].items[i]].type # "free"
    BY <1>1 DEF NoneFreed
  <2> QED
    BY <2>1
<1>4. Rooted(g, S)
  BY DEF Rooted
<1> QED
  BY <1>2, <1>3, <1>4 DEF GoodHeap

(* A root becomes the last entry of a container. *)
LEMMA Entered ==
  ASSUME NEW h, GoodHeap(h), NEW S, Rooted(h, S), NEW v \in S,
         NEW c \in Values, h[c].type # "free",
         NEW b \in BlockSet, Sound(b), b.type = h[c].type, b.items = Append(h[c].items, v)
  PROVE  LET g == [h EXCEPT ![c] = b]
         IN  /\ GoodHeap(g) /\ Rooted(g, S \ {v})
             /\ \A d \in Values : g[d].type = h[d].type
<1> DEFINE g == [h EXCEPT ![c] = b]
<1>1. /\ h \in [Values -> BlockSet] /\ \A d \in Values : Sound(h[d])
      /\ OnePlace(h) /\ NoneFreed(h) /\ v \in Values
  BY DEF GoodHeap, Typed, Rooted
<1>2. \A d \in Values : g[d] = IF d = c THEN b ELSE h[d]
  BY <1>1
<1>3. g \in [Values -> BlockSet]
  BY <1>1
<1> HIDE DEF g
<1>4. Typed(g)
  BY <1>1, <1>2, <1>3 DEF Typed
<1>5. \A d \in Values : g[d].type = h[d].type
  BY <1>2
<1>6. \A d \in Values : h[d].items \in Seq(Values)
  BY <1>1 DEF BlockSet
<1>7. \A d \in Values : \A j \in DOMAIN g[d].items :
        \/ /\ j \in DOMAIN h[d].items
           /\ g[d].items[j] = h[d].items[j]
        \/ /\ d = c /\ j = Len(h[c].items) + 1
           /\ g[d].items[j] = v
  <2> TAKE d \in Values
  <2> TAKE j \in DOMAIN g[d].items
  <2>1. CASE d = c
    <3>1. g[d].items = Append(h[c].items, v) /\ h[c].items \in Seq(Values)
      BY <1>2, <1>6, <2>1
    <3> QED
      BY <2>1, <3>1
  <2>2. CASE d # c
    BY <1>2, <2>2
  <2> QED
    BY <2>1, <2>2
<1>8. \A d \in Values : \A j \in DOMAIN h[d].items : h[d].items[j] # v /\ h[d].items[j] \in Values
  BY <1>6 DEF Rooted
<1>9. OnePlace(g)
  BY <1>1, <1>7, <1>8 DEF OnePlace
<1>10. NoneFreed(g)
  <2> SUFFICES ASSUME NEW d \in Values, NEW j \in DOMAIN g[d].items
               PROVE  g[g[d].items[j]].type # "free"
    BY DEF NoneFreed
  <2>1. CASE j \in DOMAIN h[d].items /\ g[d].items[j] = h[d].items[j]
    BY <2>1, <1>1, <1>5, <1>8 DEF NoneFreed
  <2>2. CASE g[d].items[j] = v
    BY <2>2, <1>1, <1>5 DEF Rooted
  <2> QED
    BY <2>1, <2>2, <1>7
<1>11. Rooted(g, S \ {v})
  <2>1. \A d \in Values : \A j \in DOMAIN g[d].items : g[d].items[j] \notin S \ {v}
    BY <1>7 DEF Rooted
  <2> QED
    BY <2>1, <1>5 DEF Rooted
<1> QED
  BY <1>4, <1>5, <1>9, <1>10, <1>11 DEF GoodHeap, g

(* Where a container is not full, or can grow, there is a place.           *)
LEMMA GrownFits ==
  ASSUME NEW b \in BlockSet, Sound(b), b.type # "free", NEW mem \in Int, ~ NoPlace(b, mem)
  PROVE  Grown(b) \in Nat /\ Len(b.items) + 1 <= Grown(b) /\ Grown(b) <= Limit(b)
<1>1. /\ Len(b.items) \in Nat /\ b.capacity \in Nat /\ Limit(b) \in Nat
      /\ Len(b.items) <= b.capacity /\ b.capacity <= Limit(b)
      /\ STARTING_CAPACITY \in Nat \ {0}
  BY TreeAssumption DEF BlockSet, Sound, Limit
<1>2. CASE Len(b.items) < b.capacity
  <2>1. Grown(b) = b.capacity
    BY <1>2 DEF Grown
  <2> QED
    BY <1>1, <1>2, <2>1
<1>3. CASE ~ (Len(b.items) < b.capacity)
  <2>1. Grown(b) = Doubled(b.capacity)
    BY <1>3 DEF Grown
  <2>2. Grown(b) \in Nat /\ b.capacity + 1 <= Grown(b)
    BY <1>1, <2>1 DEF Doubled
  <2>3. ~ (Grown(b) > Limit(b))
    BY <1>1, <2>2 DEF NoPlace
  <2> QED
    BY <1>1, <1>3, <2>2, <2>3
<1> QED
  BY <1>2, <1>3

(* The place of a name is one of an entry. *)
LEMMA PlaceOfName ==
  ASSUME NEW h, NEW o, h[o] \in BlockSet, Sound(h[o]), h[o].type = "object", NEW n
  PROVE  /\ DOMAIN h[o].names = DOMAIN h[o].items
         /\ Place(h, o, n) # 0 =>
              Place(h, o, n) \in DOMAIN h[o].items /\ h[o].names[Place(h, o, n)] = n
         /\ Place(h, o, n) = 0 => \A i \in DOMAIN h[o].names : h[o].names[i] # n
<1>1. h[o].names \in Seq(Names) /\ h[o].items \in Seq(Values) /\ Len(h[o].names) = Len(h[o].items)
  BY DEF BlockSet, Sound
<1>2. DOMAIN h[o].names = DOMAIN h[o].items /\ 0 \notin DOMAIN h[o].names
  BY <1>1
<1>3. CASE \E i \in DOMAIN h[o].names : h[o].names[i] = n
  <2>1. Place(h, o, n) \in DOMAIN h[o].names /\ h[o].names[Place(h, o, n)] = n
    BY <1>3 DEF Place
  <2> QED
    BY <2>1, <1>2
<1>4. CASE ~ \E i \in DOMAIN h[o].names : h[o].names[i] = n
  <2>1. Place(h, o, n) = 0
    BY <1>4 DEF Place
  <2> QED
    BY <2>1, <1>2, <1>4
<1> QED
  BY <1>3, <1>4

(* Objects and arrays as the calls make them. *)
LEMMA ObjectMade ==
  ASSUME NEW names \in Seq(Names), NEW items \in Seq(Values), NEW capacity \in Nat,
         IsInjective(names), Len(names) = Len(items),
         Len(items) <= capacity, capacity <= OBJECT_MAX_CAPACITY
  PROVE  LET b == Block("object", names, items, capacity)
         IN  b \in BlockSet /\ Sound(b) /\ b.type = "object" /\ b.items = items
<1> DEFINE b == Block("object", names, items, capacity)
<1>1. b = [type |-> "object", names |-> names, items |-> items, capacity |-> capacity]
  BY DEF Block
<1>2. b.type = "object" /\ b.names = names /\ b.items = items /\ b.capacity = capacity
  BY <1>1
<1>3. b \in BlockSet
  BY <1>1 DEF BlockSet
<1> HIDE DEF b
<1>4. Limit(b) = OBJECT_MAX_CAPACITY
  BY <1>2 DEF Limit
<1>5. Sound(b)
  BY <1>2, <1>4 DEF Sound
<1> QED
  BY <1>2, <1>3, <1>5 DEF b

LEMMA ArrayMade ==
  ASSUME NEW items \in Seq(Values), NEW capacity \in Nat,
         Len(items) <= capacity, capacity <= ARRAY_MAX_CAPACITY
  PROVE  LET b == Block("array", << >>, items, capacity)
         IN  b \in BlockSet /\ Sound(b) /\ b.type = "array" /\ b.items = items
<1> DEFINE none == << >>
           b == Block("array", none, items, capacity)
<1>1. none \in Seq(Names) /\ Len(none) = 0 /\ IsInjective(none)
  BY DEF IsInjective
<1> HIDE DEF none
<1>2. b = [type |-> "array", names |-> none, items |-> items, capacity |-> capacity]
  BY DEF Block
<1>3. b.type = "array" /\ b.names = none /\ b.items = items /\ b.capacity = capacity
  BY <1>2
<1>4. b \in BlockSet
  <2>1. none \in Seq(Names)
    BY <1>1
  <2> QED
    BY <1>2, <2>1 DEF BlockSet
<1> HIDE DEF b
<1>5. Limit(b) = ARRAY_MAX_CAPACITY
  BY <1>3 DEF Limit
<1>6. Sound(b)
  BY <1>1, <1>3, <1>5 DEF Sound
<1> QED
  BY <1>3, <1>4, <1>6 DEF b, none

LEMMA Widened ==
  ASSUME NEW b \in BlockSet, NEW n
  PROVE  [b EXCEPT !.capacity = n] = Block(b.type, b.names, b.items, n)
<1>1. [b EXCEPT !.capacity = n]
        = [type |-> b.type, names |-> b.names, items |-> b.items, capacity |-> n]
  BY DEF BlockSet
<1> QED
  BY <1>1 DEF Block

-----------------------------------------------------------------------------
(* What a call leaves that takes a root, or fails and takes none. *)
Takes(r, S, v) ==
  /\ r.ok \in BOOLEAN
  /\ GoodHeap(r.heap)
  /\ Rooted(r.heap, IF r.ok THEN S \ {v} ELSE S)

(* The calls that add. *)
LEMMA ObjectAdds ==
  ASSUME NEW h, GoodHeap(h), NEW S, Rooted(h, S), NEW v \in S,
         NEW o \in Values, h[o].type = "object", NEW n \in Names, NEW mem \in Int
  PROVE  /\ Takes(json_object_add(h, o, n, v, mem), S, v)
         /\ \A d \in Values : json_object_add(h, o, n, v, mem).heap[d].type = h[d].type
<1> DEFINE b == h[o]
           r == json_object_add(h, o, n, v, mem)
           wide == Block("object", b.names, b.items, Grown(b))
           full == Block("object", Append(b.names, n), Append(b.items, v), Grown(b))
<1>1. /\ h \in [Values -> BlockSet] /\ b \in BlockSet /\ Sound(b) /\ v \in Values
      /\ \A d \in Values : Sound(h[d])
  BY DEF GoodHeap, Typed, Rooted
<1>2. /\ b.names \in Seq(Names) /\ b.items \in Seq(Values) /\ b.type = "object"
      /\ IsInjective(b.names) /\ Len(b.names) = Len(b.items)
  BY <1>1 DEF BlockSet, Sound
<1>3. CASE NoPlace(b, mem)
  <2>1. r = Fails(h)
    BY <1>3 DEF json_object_add
  <2> QED
    BY <2>1 DEF Fails, Takes
<1>4. CASE ~ NoPlace(b, mem)
  <2>1. Grown(b) \in Nat /\ Len(b.items) + 1 <= Grown(b) /\ Grown(b) <= Limit(b)
    BY <1>1, <1>2, <1>4, GrownFits
  <2>2. CASE Place(h, o, n) # 0 \/ mem < 2
    <3>1. r = Fails([h EXCEPT ![o].capacity = Grown(b)])
      BY <1>4, <2>2 DEF json_object_add
    <3> DEFINE g == [h EXCEPT ![o].capacity = Grown(b)]
    <3>2. r.heap = g /\ r.ok = FALSE
      BY <3>1 DEF Fails
    <3>3. [b EXCEPT !.capacity = Grown(b)] = wide
      BY <1>1, <1>2, Widened
    <3>4. g = [h EXCEPT ![o] = wide]
      BY <1>1, <3>3
    <3>5. \A d \in Values : g[d] = IF d = o THEN wide ELSE h[d]
      BY <1>1, <3>4
    <3>6. Len(b.items) <= Grown(b) /\ b.items \in Seq(Values) /\ Grown(b) <= OBJECT_MAX_CAPACITY
      BY <1>2, <2>1 DEF Limit
    <3> HIDE DEF b
    <3>7. wide \in BlockSet /\ Sound(wide) /\ wide.items = b.items /\ wide.type = "object"
      BY <1>2, <2>1, <3>6, ObjectMade
    <3>8. g \in [Values -> BlockSet]
      BY <1>1, <3>4, <3>7
    <3>9. b = h[o]
      BY DEF b
    <3> HIDE DEF g, wide, r
    <3>10. Typed(g)
      BY <1>1, <3>5, <3>7, <3>8 DEF Typed
    <3>11. \A d \in Values : g[d].items = h[d].items /\ g[d].type = h[d].type
      BY <1>2, <3>5, <3>7, <3>9
    <3>12. GoodHeap(g) /\ Rooted(g, S)
      BY <3>10, <3>11, SameItems
    <3> QED
      BY <3>2, <3>11, <3>12 DEF r, Takes
  <2>3. CASE ~ (Place(h, o, n) # 0 \/ mem < 2)
    <3>1. r = Done([h EXCEPT ![o] = full])
      BY <1>4, <2>3 DEF json_object_add
    <3>2. \A i \in DOMAIN b.names : b.names[i] # n
      BY <1>1, <2>3, PlaceOfName
    <3>3. b = h[o] /\ Grown(b) <= OBJECT_MAX_CAPACITY
      BY <1>2, <2>1 DEF Limit
    <3> HIDE DEF b
    <3>4. /\ Append(b.names, n) \in Seq(Names) /\ Len(Append(b.names, n)) = Len(b.names) + 1
          /\ Append(b.items, v) \in Seq(Values) /\ Len(Append(b.items, v)) = Len(b.items) + 1
          /\ \A i \in DOMAIN Append(b.names, n) :
                \/ i \in DOMAIN b.names /\ Append(b.names, n)[i] = b.names[i]
                \/ i = Len(b.names) + 1 /\ Append(b.names, n)[i] = n
      BY <1>1, <1>2
    <3>5. IsInjective(Append(b.names, n))
      BY <1>2, <3>2, <3>4 DEF IsInjective
    <3>6. Len(Append(b.items, v)) = Len(Append(b.names, n)) /\ Len(Append(b.items, v)) <= Grown(b)
      BY <1>2, <2>1, <3>4
    <3>7. full \in BlockSet /\ Sound(full) /\ full.items = Append(b.items, v) /\ full.type = "object"
      BY <2>1, <3>3, <3>4, <3>5, <3>6, ObjectMade, Zenon
    <3>8. full.type = h[o].type /\ full.items = Append(h[o].items, v) /\ h[o].type # "free"
      BY <1>2, <3>3, <3>7
    <3> HIDE DEF full, r
    <3> DEFINE g == [h EXCEPT ![o] = full]
    <3>9. h[o].type # "free" /\ v \in S
      BY <3>8
    <3>10. GoodHeap(g) /\ Rooted(g, S \ {v})
      BY <3>7, <3>8, <3>9, Entered, Zenon
    <3>12. \A d \in Values : g[d].type = h[d].type
      BY <1>1, <3>8
    <3>11. r.ok = TRUE /\ r.heap = [h EXCEPT ![o] = full]
      BY <3>1 DEF Done
    <3> QED
      BY <3>10, <3>11, <3>12 DEF r, Takes
  <2> QED
    BY <2>2, <2>3
<1> QED
  BY <1>3, <1>4

LEMMA ArrayAdds ==
  ASSUME NEW h, GoodHeap(h), NEW S, Rooted(h, S), NEW v \in S,
         NEW a \in Values, h[a].type = "array", NEW mem \in Int
  PROVE  Takes(json_array_add(h, a, v, mem), S, v)
<1> DEFINE b == h[a]
           r == json_array_add(h, a, v, mem)
           full == Block("array", << >>, Append(b.items, v), Grown(b))
<1>1. /\ h \in [Values -> BlockSet] /\ b \in BlockSet /\ Sound(b) /\ v \in Values
  BY DEF GoodHeap, Typed, Rooted
<1>2. b.items \in Seq(Values) /\ b.type = "array"
  BY <1>1 DEF BlockSet
<1>3. CASE NoPlace(b, mem)
  <2>1. r = Fails(h)
    BY <1>3 DEF json_array_add
  <2> QED
    BY <2>1 DEF Fails, Takes
<1>4. CASE ~ NoPlace(b, mem)
  <2>1. Grown(b) \in Nat /\ Len(b.items) + 1 <= Grown(b) /\ Grown(b) <= Limit(b)
    BY <1>1, <1>2, <1>4, GrownFits
  <2>2. r = Done([h EXCEPT ![a] = full])
    BY <1>4 DEF json_array_add
  <2>3. b = h[a] /\ Grown(b) <= ARRAY_MAX_CAPACITY
    BY <1>2, <2>1 DEF Limit
  <2> HIDE DEF b
  <2>5. Append(b.items, v) \in Seq(Values) /\ Len(Append(b.items, v)) = Len(b.items) + 1
    BY <1>1, <1>2
  <2>6. Len(Append(b.items, v)) <= Grown(b)
    BY <2>1, <2>5
  <2>7. full \in BlockSet /\ Sound(full) /\ full.items = Append(b.items, v) /\ full.type = "array"
    BY <2>1, <2>3, <2>5, <2>6, ArrayMade, Zenon
  <2>8. full.type = h[a].type /\ full.items = Append(h[a].items, v) /\ h[a].type # "free"
    BY <1>2, <2>3, <2>7
  <2> HIDE DEF full, r
  <2> DEFINE g == [h EXCEPT ![a] = full]
  <2>9. GoodHeap(g) /\ Rooted(g, S \ {v})
    BY <2>7, <2>8, Entered, Zenon
  <2>10. r.ok = TRUE /\ r.heap = [h EXCEPT ![a] = full]
    BY <2>2 DEF Done
  <2> QED
    BY <2>9, <2>10 DEF r, Takes
<1> QED
  BY <1>3, <1>4

LEMMA ObjectSets ==
  ASSUME NEW h, GoodHeap(h), NEW S, Rooted(h, S), NEW v \in S,
         NEW o \in Values, h[o].type = "object", NEW n \in Names, NEW mem \in Int
  PROVE  Takes(json_object_set_value(h, o, n, v, mem), S, v)
<1> DEFINE i == Place(h, o, n)
           r == json_object_set_value(h, o, n, v, mem)
<1>1. h[o] \in BlockSet /\ Sound(h[o])
  BY DEF GoodHeap, Typed
<1>2. CASE i = 0
  <2>1. r = json_object_add(h, o, n, v, mem)
    BY <1>2 DEF json_object_set_value
  <2> QED
    BY <2>1, ObjectAdds
<1>3. CASE i # 0
  <2>1. i \in DOMAIN h[o].items
    BY <1>1, <1>3, PlaceOfName
  <2>2. r = Done([json_value_free(h, h[o].items[i]) EXCEPT ![o].items[i] = v])
    BY <1>3 DEF json_object_set_value
  <2>3. r.ok = TRUE /\ r.heap = [json_value_free(h, h[o].items[i]) EXCEPT ![o].items[i] = v]
    BY <2>2 DEF Done
  <2> HIDE DEF i, r
  <2>4. LET g == [json_value_free(h, h[o].items[i]) EXCEPT ![o].items[i] = v]
        IN GoodHeap(g) /\ Rooted(g, S \ {v})
    BY <2>1, PutInstead
  <2> QED
    BY <2>3, <2>4 DEF r, Takes
<1> QED
  BY <1>2, <1>3

-----------------------------------------------------------------------------
(* A block is made into a value: one more root. *)
LEMMA FreshBlock ==
  ASSUME NEW h, GoodHeap(h), NEW S, Rooted(h, S), Unused(h) # {},
         NEW b \in BlockSet, Sound(b), b.type # "free", b.items = << >>
  PROVE  LET new == malloc(h)
             g   == [h EXCEPT ![new] = b]
         IN  /\ new \in Values /\ new \notin S
             /\ GoodHeap(g) /\ Rooted(g, S \cup {new})
             /\ \A d \in Values : g[d] = IF d = new THEN b ELSE h[d]
<1> DEFINE new == malloc(h)
           g == [h EXCEPT ![new] = b]
<1>1. /\ h \in [Values -> BlockSet] /\ \A d \in Values : Sound(h[d])
      /\ OnePlace(h) /\ NoneFreed(h)
  BY DEF GoodHeap, Typed
<1>2. new \in Values /\ h[new].type = "free"
  <2>1. new \in Unused(h)
    BY DEF malloc
  <2> QED
    BY <2>1 DEF Unused
<1> HIDE DEF new
<1>3. \A d \in Values : g[d] = IF d = new THEN b ELSE h[d]
  BY <1>1
<1>4. g \in [Values -> BlockSet]
  BY <1>1
<1> HIDE DEF g
<1>5. Typed(g)
  BY <1>1, <1>3, <1>4 DEF Typed
<1>6. h[new].items = << >>
  <2>1. h[new] = Free
    BY <1>1, <1>2 DEF Sound
  <2> QED
    BY <2>1, FreeBlock
<1>7. \A d \in Values : g[d].items = h[d].items
  BY <1>3, <1>6
<1>8. \A d \in Values : \A i \in DOMAIN h[d].items :
        h[d].items[i] \in Values /\ h[d].items[i] # new
  <2> TAKE d \in Values
  <2> TAKE i \in DOMAIN h[d].items
  <2>1. h[d].items \in Seq(Values)
    BY <1>1 DEF BlockSet
  <2>2. h[h[d].items[i]].type # "free"
    BY <1>1 DEF NoneFreed
  <2> QED
    BY <2>1, <2>2, <1>2
<1>9. OnePlace(g)
  BY <1>1, <1>7 DEF OnePlace
<1>10. NoneFreed(g)
  BY <1>1, <1>3, <1>7, <1>8 DEF NoneFreed
<1>11. new \notin S
  BY <1>2 DEF Rooted
<1>12. Rooted(g, S \cup {new})
  <2>1. \A s \in S \cup {new} : g[s].type # "free"
    BY <1>2, <1>3, <1>11 DEF Rooted
  <2>2. \A d \in Values : \A i \in DOMAIN g[d].items : g[d].items[i] \notin S \cup {new}
    BY <1>7, <1>8 DEF Rooted
  <2> QED
    BY <1>2, <2>1, <2>2 DEF Rooted
<1> QED
  BY <1>2, <1>3, <1>5, <1>9, <1>10, <1>11, <1>12 DEF GoodHeap, g, new

LEMMA EmptyBlocks ==
  /\ Scalar \in BlockSet /\ Sound(Scalar) /\ Scalar.type = "scalar" /\ Scalar.items = << >>
  /\ \A type \in {"object", "array", "scalar"} :
       LET b == Block(type, << >>, << >>, 0)
       IN  b \in BlockSet /\ Sound(b) /\ b.type = type /\ b.items = << >>
<1>1. \A type \in {"object", "array", "scalar"} :
        LET b == Block(type, << >>, << >>, 0)
        IN  b \in BlockSet /\ Sound(b) /\ b.type = type /\ b.items = << >>
  <2> TAKE type \in {"object", "array", "scalar"}
  <2> DEFINE none == << >>
             b == Block(type, none, none, 0)
  <2>1. none \in Seq(Names) /\ none \in Seq(Values) /\ Len(none) = 0
    OBVIOUS
  <2>2. IsInjective(none) /\ none = << >>
    BY DEF IsInjective
  <2> HIDE DEF none
  <2>3. b = [type |-> type, names |-> none, items |-> none, capacity |-> 0]
    BY DEF Block
  <2>4. b.type = type /\ b.names = none /\ b.items = none /\ b.capacity = 0
    BY <2>3
  <2>5. b \in BlockSet
    <3>1. none \in Seq(Names) /\ none \in Seq(Values) /\ type \in {"free", "object", "array", "scalar"}
      BY <2>1
    <3> QED
      BY <2>3, <3>1 DEF BlockSet
  <2> HIDE DEF b
  <2>6. Limit(b) \in Nat
    BY TreeAssumption DEF Limit
  <2>7. Sound(b)
    BY <2>1, <2>2, <2>4, <2>6 DEF Sound
  <2> QED
    BY <2>2, <2>4, <2>5, <2>7 DEF b, none
<1>2. Scalar = Block("scalar", << >>, << >>, 0)
  BY DEF Scalar
<1> QED
  BY <1>1, <1>2

-----------------------------------------------------------------------------
(* What a look-up finds is an entry of the object. *)
LEMMA LookUp ==
  ASSUME NEW h, Typed(h), NEW o \in Values, h[o].type = "object", NEW n,
         json_value_get(h, json_object_get_value(h, o, n), "object") # None
  PROVE  LET p == json_value_get(h, json_object_get_value(h, o, n), "object")
         IN  p \in Values /\ h[p].type = "object" /\ p \in Items(h, o)
<1> DEFINE i == Place(h, o, n)
           x == json_object_get_value(h, o, n)
           p == json_value_get(h, x, "object")
<1>1. x # None /\ h[x].type = "object" /\ p = x
  BY DEF json_value_get
<1>2. i # 0 /\ x = h[o].items[i]
  BY <1>1 DEF json_object_get_value
<1>3. h[o] \in BlockSet /\ Sound(h[o])
  BY DEF Typed
<1>4. i \in DOMAIN h[o].items
  BY <1>2, <1>3, PlaceOfName
<1>5. h[o].items \in Seq(Values)
  BY <1>3 DEF BlockSet
<1> QED
  BY <1>1, <1>2, <1>4, <1>5 DEF Items

(* Along a dotted name the heap stays good, and keeps its roots. *)
OnTheWay(s, S) ==
  /\ s = [heap |-> s.heap, object |-> s.object, ok |-> s.ok]
  /\ s.ok \in BOOLEAN
  /\ GoodHeap(s.heap) /\ Rooted(s.heap, S)
  /\ s.ok => s.object \in Values /\ s.heap[s.object].type = "object"

LEMMA StepInto ==
  ASSUME NEW s, NEW S, OnTheWay(s, S), NEW n \in Names, NEW mem \in Int
  PROVE  OnTheWay(Into(s, n, mem), S)
<1> DEFINE found == json_value_get(s.heap, json_object_get_value(s.heap, s.object, n), "object")
           new == malloc(s.heap)
           b == Block("object", << >>, << >>, 0)
           g == [s.heap EXCEPT ![new] = b]
           r == json_object_add(g, s.object, n, new, mem)
           t == Into(s, n, mem)
<1>1. /\ s = [heap |-> s.heap, object |-> s.object, ok |-> s.ok] /\ s.ok \in BOOLEAN
      /\ GoodHeap(s.heap) /\ Rooted(s.heap, S)
  BY DEF OnTheWay
<1>2. CASE ~ s.ok
  <2>1. t = s
    BY <1>2 DEF Into
  <2> QED
    BY <2>1
<1>3. CASE s.ok /\ found # None
  <2>1. t = [s EXCEPT !.object = found]
    BY <1>3 DEF Into
  <2>2. s.object \in Values /\ s.heap[s.object].type = "object" /\ Typed(s.heap)
    BY <1>3 DEF OnTheWay, GoodHeap
  <2>3. found \in Values /\ s.heap[found].type = "object"
    BY <1>3, <2>2, LookUp
  <2> HIDE DEF found, t
  <2>4. t = [heap |-> s.heap, object |-> found, ok |-> s.ok]
    BY <1>1, <2>1
  <2>5. t.heap = s.heap /\ t.object = found /\ t.ok = s.ok
    BY <2>4
  <2> QED
    BY <1>1, <2>3, <2>4, <2>5 DEF OnTheWay, t
<1>4. CASE s.ok /\ found = None /\ Unused(s.heap) = {}
  <2>1. t = [s EXCEPT !.ok = FALSE]
    BY <1>4 DEF Into
  <2> HIDE DEF t
  <2>2. t = [heap |-> s.heap, object |-> s.object, ok |-> FALSE]
    BY <1>1, <2>1
  <2>3. t.heap = s.heap /\ t.object = s.object /\ t.ok = FALSE
    BY <2>2
  <2> QED
    BY <1>1, <2>2, <2>3 DEF OnTheWay, t
<1>5. CASE s.ok /\ found = None /\ Unused(s.heap) # {}
  <2>1. t = IF r.ok THEN [heap |-> r.heap, object |-> new, ok |-> TRUE]
            ELSE [s EXCEPT !.heap = json_value_free(r.heap, new), !.ok = FALSE]
    BY <1>5 DEF Into
  <2>2. b \in BlockSet /\ Sound(b) /\ b.type = "object" /\ b.items = << >>
    BY EmptyBlocks
  <2>3. s.object \in Values /\ s.heap[s.object].type = "object"
    BY <1>5 DEF OnTheWay
  <2> HIDE DEF b, t, found
  <2>4. /\ new \in Values /\ new \notin S
        /\ GoodHeap(g) /\ Rooted(g, S \cup {new})
        /\ \A d \in Values : g[d] = IF d = new THEN b ELSE s.heap[d]
    <3>1. b.type # "free"
      BY <2>2
    <3> QED
      BY <1>1, <1>5, <2>2, <3>1, FreshBlock
  <2> HIDE DEF g, new
  <2>5. g[s.object].type = "object"
    BY <2>2, <2>3, <2>4
  <2>6. /\ Takes(r, S \cup {new}, new)
        /\ \A d \in Values : r.heap[d].type = g[d].type
    <3>1. new \in S \cup {new}
      OBVIOUS
    <3> QED
      BY <2>3, <2>4, <2>5, <3>1, ObjectAdds
  <2>10. /\ r.ok \in BOOLEAN /\ GoodHeap(r.heap)
         /\ Rooted(r.heap, IF r.ok THEN (S \cup {new}) \ {new} ELSE S \cup {new})
    BY <2>6 DEF Takes
  <2>7. (S \cup {new}) \ {new} = S
    BY <2>4
  <2> HIDE DEF r
  <2>8. CASE r.ok
    <3>1. t = [heap |-> r.heap, object |-> new, ok |-> TRUE]
      BY <2>1, <2>8
    <3>2. t.heap = r.heap /\ t.object = new /\ t.ok = TRUE
      BY <3>1
    <3>3. r.heap[new].type = "object"
      BY <2>2, <2>4, <2>6
    <3>4. Rooted(r.heap, S)
      BY <2>7, <2>8, <2>10
    <3> QED
      BY <2>4, <2>10, <3>1, <3>2, <3>3, <3>4 DEF OnTheWay, t
  <2>9. CASE ~ r.ok
    <3> DEFINE f == json_value_free(r.heap, new)
    <3>1. GoodHeap(f) /\ Rooted(f, (S \cup {new}) \ {new})
      <4>1. new \in S \cup {new} /\ Rooted(r.heap, S \cup {new}) /\ GoodHeap(r.heap)
        BY <2>9, <2>10
      <4> QED
        BY <4>1, FreeRoot, Zenon
    <3>2. t = [s EXCEPT !.heap = f, !.ok = FALSE]
      BY <2>1, <2>9
    <3> HIDE DEF f
    <3>3. t = [heap |-> f, object |-> s.object, ok |-> FALSE]
      BY <1>1, <3>2
    <3>4. t.heap = f /\ t.object = s.object /\ t.ok = FALSE
      BY <3>3
    <3>5. Rooted(f, S)
      BY <3>1, <2>7
    <3> QED
      BY <3>1, <3>3, <3>4, <3>5 DEF OnTheWay, t
  <2> QED
    BY <2>8, <2>9, <2>10
<1> QED
  BY <1>1, <1>2, <1>3, <1>4, <1>5

LEMMA WalkKeeps ==
  ASSUME NEW h, GoodHeap(h), NEW S, Rooted(h, S), NEW o \in Values, h[o].type = "object",
         NEW path \in Paths, NEW mem \in Int
  PROVE  OnTheWay(Walks(h, o, path, mem)[Len(path) - 1], S)
<1> DEFINE at == Walks(h, o, path, mem)
           T == {k \in Nat : k < Len(path) => OnTheWay(at[k], S)}
<1>1. path \in Seq(Names) /\ Len(path) - 1 \in Nat
  <2>1. PICK k \in 1..MAXPATH : path \in [1..k -> Names]
    BY DEF Paths
  <2>2. MAXPATH \in Nat
    BY TreeAssumption
  <2>3. k \in Nat /\ k >= 1
    BY <2>1, <2>2
  <2>4. Len(path) = k /\ path \in Seq(Names)
    BY <2>1, <2>3
  <2> QED
    BY <2>3, <2>4
<1>2. 0 \in T
  <2>1. at[0] = [heap |-> h, object |-> o, ok |-> TRUE]
    BY WalksStart
  <2> HIDE DEF at
  <2>2. at[0].heap = h /\ at[0].object = o /\ at[0].ok = TRUE
    BY <2>1
  <2>3. OnTheWay(at[0], S)
    BY <2>1, <2>2 DEF OnTheWay
  <2> QED
    BY <2>3
<1>3. ASSUME NEW k \in Nat, k \in T PROVE k + 1 \in T
  <2> SUFFICES ASSUME k + 1 < Len(path) PROVE OnTheWay(at[k + 1], S)
    BY <1>1
  <2>1. k < Len(path) /\ path[k + 1] \in Names
    BY <1>1
  <2>2. OnTheWay(at[k], S)
    BY <2>1, <1>3
  <2>3. at[k + 1] = Into(at[k], path[k + 1], mem - 2 * k)
    BY WalksStep, Zenon
  <2> HIDE DEF at
  <2> QED
    BY <2>1, <2>2, <2>3, StepInto
<1> HIDE DEF T
<1>4. Nat \subseteq T
  BY <1>2, <1>3, Induct
<1>5. Len(path) - 1 \in T
  BY <1>1, <1>4
<1> QED
  BY <1>1, <1>5 DEF T

LEMMA PathHasNames ==
  ASSUME NEW path \in Paths
  PROVE  path \in Seq(Names) /\ Len(path) \in Nat \ {0} /\ Last(path) \in Names
<1>1. PICK k \in 1..MAXPATH : path \in [1..k -> Names]
  BY DEF Paths
<1>2. k \in Nat /\ k >= 1
  BY <1>1, TreeAssumption
<1>3. Len(path) = k /\ path \in Seq(Names) /\ path[k] \in Names
  BY <1>1, <1>2
<1> QED
  BY <1>2, <1>3 DEF Last

LEMMA DotSets ==
  ASSUME NEW h, GoodHeap(h), NEW S, Rooted(h, S), NEW v \in S,
         NEW o \in Values, h[o].type = "object", NEW path \in Paths, NEW mem \in Int
  PROVE  Takes(json_object_dotset_value(h, o, path, v, mem), S, v)
<1> DEFINE s == Walks(h, o, path, mem)[Len(path) - 1]
           r == json_object_dotset_value(h, o, path, v, mem)
<1>1. r = IF s.ok THEN json_object_set_value(s.heap, s.object, Last(path), v, Left(path, mem))
          ELSE Fails(s.heap)
  BY DEF json_object_dotset_value
<1>2. OnTheWay(s, S)
  BY WalkKeeps
<1>3. Last(path) \in Names /\ Left(path, mem) \in Int
  BY PathHasNames DEF Left
<1> HIDE DEF s
<1>4. GoodHeap(s.heap) /\ Rooted(s.heap, S) /\ s.ok \in BOOLEAN
  BY <1>2 DEF OnTheWay
<1>5. CASE s.ok
  <2>1. s.object \in Values /\ s.heap[s.object].type = "object"
    BY <1>2, <1>5 DEF OnTheWay
  <2>2. Takes(json_object_set_value(s.heap, s.object, Last(path), v, Left(path, mem)), S, v)
    BY <1>3, <1>4, <2>1, ObjectSets
  <2> QED
    BY <1>1, <1>5, <2>2
<1>6. CASE ~ s.ok
  <2>1. r = Fails(s.heap)
    BY <1>1, <1>6
  <2>2. Fails(s.heap).ok = FALSE /\ Fails(s.heap).heap = s.heap
    BY DEF Fails
  <2>3. Takes(Fails(s.heap), S, v)
    BY <1>4, <2>2 DEF Takes
  <2> QED
    BY <2>1, <2>3
<1> QED
  BY <1>4, <1>5, <1>6

-----------------------------------------------------------------------------
(* No container of a root's is in one of its own entries: the entry's tree *)
(* would have a place for it, and for what it is in, up to the root.       *)
LEMMA LevelUp ==
  ASSUME NEW h, NEW c, NEW x \in Items(h, c), NEW m \in Nat
  PROVE  Levels(h, x)[m] \subseteq Levels(h, c)[m + 1]
<1> DEFINE T == {n \in Nat : Levels(h, x)[n] \subseteq Levels(h, c)[n + 1]}
<1>1. 0 \in T
  <2>1. Levels(h, x)[0] = {x} /\ Levels(h, c)[0] = {c}
    BY LevelsStep
  <2>2. Levels(h, c)[0 + 1] = Levels(h, c)[0] \cup UNION {Items(h, w) : w \in Levels(h, c)[0]}
    BY LevelsStep
  <2> QED
    BY <2>1, <2>2
<1>2. ASSUME NEW n \in Nat, n \in T PROVE n + 1 \in T
  <2>1. Levels(h, x)[n + 1] = Levels(h, x)[n] \cup UNION {Items(h, w) : w \in Levels(h, x)[n]}
    BY LevelsStep
  <2>2. n + 1 \in Nat
    OBVIOUS
  <2>3. Levels(h, c)[(n + 1) + 1]
          = Levels(h, c)[n + 1] \cup UNION {Items(h, w) : w \in Levels(h, c)[n + 1]}
    <3>1. \A k \in Nat : Levels(h, c)[k + 1]
                           = Levels(h, c)[k] \cup UNION {Items(h, w) : w \in Levels(h, c)[k]}
      BY LevelsStep
    <3> QED
      BY <2>2, <3>1, Zenon
  <2> QED
    BY <1>2, <2>1, <2>2, <2>3
<1> HIDE DEF T
<1>3. Nat \subseteq T
  BY <1>1, <1>2, Induct
<1> QED
  BY <1>3 DEF T

LEMMA NotInside ==
  ASSUME NEW h, GoodHeap(h), NEW S, Rooted(h, S), NEW r \in S, NEW n \in Nat,
         NEW c \in Levels(h, r)[n], NEW i \in DOMAIN h[c].items, NEW m \in Nat
  PROVE  c \notin Levels(h, h[c].items[i])[m]
<1> DEFINE T == {k \in Nat : \A d \in Levels(h, r)[k] : \A j \in DOMAIN h[d].items :
                               \A l \in Nat : d \notin Levels(h, h[d].items[j])[l]}
<1>1. h \in [Values -> BlockSet] /\ OnePlace(h) /\ r \in Values
  BY DEF GoodHeap, Typed, Rooted
<1>2. \A d \in Values : \A j \in DOMAIN h[d].items : h[d].items[j] \in Values
  <2> TAKE d \in Values
  <2>1. h[d].items \in Seq(Values)
    BY <1>1 DEF BlockSet
  <2> QED
    BY <2>1
<1>3. \A k \in Nat : Levels(h, r)[k] \subseteq Values
  BY <1>1, LevelsBelow
<1>4. 0 \in T
  <2>1. Levels(h, r)[0] = {r}
    BY LevelsStep
  <2> SUFFICES ASSUME NEW j \in DOMAIN h[r].items, NEW l \in Nat,
                      r \in Levels(h, h[r].items[j])[l]
               PROVE  FALSE
    BY <2>1
  <2> DEFINE x == h[r].items[j]
  <2>2. x \in Values /\ x # r
    BY <1>1, <1>2 DEF Rooted
  <2>3. \A y \in Levels(h, x)[l] : y # x => \E p \in Levels(h, x)[l] : y \in Items(h, p)
    BY <1>1, <2>2, LevelsBelow
  <2>4. PICK p \in Levels(h, x)[l] : r \in Items(h, p)
    BY <2>2, <2>3
  <2>5. p \in Values
    BY <1>1, <2>2, LevelsBelow
  <2> QED
    BY <2>4, <2>5 DEF Items, Rooted
<1>5. ASSUME NEW k \in Nat, k \in T PROVE k + 1 \in T
  <2> SUFFICES ASSUME NEW d \in Levels(h, r)[k + 1], NEW j \in DOMAIN h[d].items, NEW l \in Nat,
                      d \in Levels(h, h[d].items[j])[l]
               PROVE  FALSE
    OBVIOUS
  <2> DEFINE x == h[d].items[j]
  <2>1. \A e \in Levels(h, r)[k] : \A q \in DOMAIN h[e].items :
          \A u \in Nat : e \notin Levels(h, h[e].items[q])[u]
    BY <1>5
  <2> HIDE DEF T
  <2>2. d \notin Levels(h, r)[k]
    BY <2>1
  <2>3. Levels(h, r)[k + 1] = Levels(h, r)[k] \cup UNION {Items(h, w) : w \in Levels(h, r)[k]}
    BY LevelsStep
  <2>4. PICK p \in Levels(h, r)[k] : d \in Items(h, p)
    BY <2>2, <2>3
  <2>5. PICK q \in DOMAIN h[p].items : d = h[p].items[q]
    BY <2>4 DEF Items
  <2>6. p \in Values /\ d \in Values /\ x \in Values
    BY <1>2, <1>3, <2>4, <2>5
  <2>7. p # d
    BY <2>2
  <2>8. d # x
    BY <1>1, <2>5, <2>6, <2>7 DEF OnePlace
  <2>9. \A y \in Levels(h, x)[l] : y # x => \E e \in Levels(h, x)[l] : y \in Items(h, e)
    BY <1>1, <2>6, LevelsBelow
  <2>10. PICK e \in Levels(h, x)[l] : d \in Items(h, e)
    BY <2>8, <2>9
  <2>11. e \in Values
    BY <1>1, <2>6, LevelsBelow
  <2>12. e = p
    BY <1>1, <2>5, <2>6, <2>10, <2>11 DEF OnePlace, Items
  <2>13. x \in Items(h, d)
    BY DEF Items
  <2>14. Levels(h, x)[l] \subseteq Levels(h, d)[l + 1]
    BY <2>13, LevelUp
  <2>15. p \in Levels(h, h[p].items[q])[l + 1] /\ l + 1 \in Nat
    BY <2>5, <2>10, <2>12, <2>14
  <2> QED
    BY <2>1, <2>4, <2>5, <2>15
<1> HIDE DEF T
<1>6. Nat \subseteq T
  BY <1>4, <1>5, Induct
<1> QED
  BY <1>6 DEF T

(* What is down from a root. *)
Below(h, S) == {c \in Values : \E r \in S : \E n \in Nat : c \in Levels(h, r)[n]}

LEMMA NotInsideItself ==
  ASSUME NEW h, GoodHeap(h), NEW S, Rooted(h, S), NEW c \in Below(h, S), NEW i \in DOMAIN h[c].items
  PROVE  c \notin Within(h, h[c].items[i])
<1>1. PICK r \in S, n \in Nat : c \in Levels(h, r)[n]
  BY DEF Below
<1>2. h[c].items[i] \in Values
  <2>1. c \in Values
    BY DEF Below
  <2>2. h[c].items \in Seq(Values)
    BY <2>1 DEF GoodHeap, Typed, BlockSet
  <2> QED
    BY <2>2
<1>3. Cardinality(Values) - 1 \in Nat
  BY <1>2, DepthIsNat
<1> QED
  BY <1>1, <1>3, NotInside DEF Within

(* The entry at i leaves a sequence, whose others stay, each in one place. *)
From(s, i, j) == IF j = i THEN Len(s) ELSE j

Without(t, s, i) ==
  /\ Len(t) = Len(s) - 1
  /\ \A j \in DOMAIN t : From(s, i, j) \in DOMAIN s /\ From(s, i, j) # i /\ t[j] = s[From(s, i, j)]
  /\ \A j, k \in DOMAIN t : From(s, i, j) = From(s, i, k) => j = k

LEMMA SwappedSeq ==
  ASSUME NEW T, NEW s \in Seq(T), NEW i \in DOMAIN s
  PROVE  Swapped(s, i) \in Seq(T) /\ Without(Swapped(s, i), s, i)
<1> DEFINE t == Swapped(s, i)
<1>1. /\ Len(s) \in Nat /\ DOMAIN s = 1..Len(s) /\ i \in 1..Len(s)
      /\ Len(s) - 1 \in Nat
  OBVIOUS
<1>2. t = [j \in 1 .. Len(s) - 1 |-> IF j = i THEN s[Len(s)] ELSE s[j]]
  BY DEF Swapped, Last
<1>3. \A j \in 1 .. Len(s) - 1 : t[j] \in T
  <2> TAKE j \in 1 .. Len(s) - 1
  <2>1. t[j] = IF j = i THEN s[Len(s)] ELSE s[j]
    BY <1>2
  <2>2. j \in 1..Len(s) /\ Len(s) \in 1..Len(s)
    BY <1>1
  <2>3. s[j] \in T /\ s[Len(s)] \in T
    BY <2>2
  <2> QED
    BY <2>1, <2>3
<1>4. DOMAIN t = 1 .. Len(s) - 1
  BY <1>2
<1>5. t \in Seq(T) /\ Len(t) = Len(s) - 1
  <2>1. t \in [1 .. Len(s) - 1 -> T]
    BY <1>2, <1>3, <1>4
  <2> DEFINE l == Len(s) - 1
  <2>2. l \in Nat
    BY <1>1
  <2> HIDE DEF t, l
  <2>3. t \in Seq(T) /\ Len(t) = l
    BY <2>1, <2>2 DEF l
  <2> QED
    BY <2>3 DEF l
<1>6. \A j \in DOMAIN t : /\ From(s, i, j) \in DOMAIN s /\ From(s, i, j) # i
                          /\ t[j] = s[From(s, i, j)]
  <2> TAKE j \in DOMAIN t
  <2>1. j \in 1 .. Len(s) - 1
    BY <1>4
  <2>2. t[j] = IF j = i THEN s[Len(s)] ELSE s[j]
    BY <1>2, <2>1
  <2>3. From(s, i, j) \in DOMAIN s /\ From(s, i, j) # i
    BY <1>1, <2>1 DEF From
  <2> QED
    BY <2>2, <2>3 DEF From
<1>7. \A j, k \in DOMAIN t : From(s, i, j) = From(s, i, k) => j = k
  BY <1>1, <1>4 DEF From
<1> QED
  BY <1>5, <1>6, <1>7 DEF Without

LEMMA Rewritten ==
  ASSUME NEW b \in BlockSet, NEW names, NEW items
  PROVE  [[b EXCEPT !.items = items] EXCEPT !.names = names]
           = Block(b.type, names, items, b.capacity)
<1>1. [b EXCEPT !.items = items]
        = [type |-> b.type, names |-> b.names, items |-> items, capacity |-> b.capacity]
  BY DEF BlockSet
<1> DEFINE d == [b EXCEPT !.items = items]
<1> HIDE DEF d
<1>2. d = [type |-> b.type, names |-> b.names, items |-> items, capacity |-> b.capacity]
  BY <1>1 DEF d
<1>3. [d EXCEPT !.names = names]
        = [type |-> b.type, names |-> names, items |-> items, capacity |-> b.capacity]
  BY <1>2
<1> QED
  BY <1>3 DEF d, Block

(* An entry is taken out of a container that is not in it. *)
LEMMA EntryRemoved ==
  ASSUME NEW h, GoodHeap(h), NEW S, Rooted(h, S),
         NEW c \in Values, h[c].type \in {"object", "array"}, NEW i \in DOMAIN h[c].items,
         c \notin Within(h, h[c].items[i])
  PROVE  GoodHeap(Removed(h, c, i)) /\ Rooted(Removed(h, c, i), S)
<1> DEFINE x == h[c].items[i]
           f == json_value_free(h, x)
           W == Within(h, x)
           ns == IF h[c].type = "object" THEN Swapped(h[c].names, i) ELSE << >>
           its == Swapped(h[c].items, i)
           b == Block(h[c].type, ns, its, h[c].capacity)
           g == Removed(h, c, i)
<1>1. /\ Typed(h) /\ OnePlace(h) /\ NoneFreed(h)
      /\ h \in [Values -> BlockSet] /\ S \subseteq Values
  BY DEF GoodHeap, Typed, Rooted
<1>2. \A d \in Values : h[d] \in BlockSet /\ Sound(h[d]) /\ h[d].items \in Seq(Values)
  BY <1>1 DEF BlockSet, Typed
<1>3. x \in Values /\ x \notin S
  BY <1>2 DEF Rooted
<1>4. /\ \A w \in Values : f[w] = IF w \in W THEN Free ELSE h[w]
      /\ Typed(f) /\ f \in [Values -> BlockSet]
  BY <1>1, <1>3, Freed DEF Typed
<1>5. \A s \in S : s \notin W
  BY <1>1, <1>3, RootsStay
<1>6. \A d \in Values : \A j \in DOMAIN h[d].items :
        (h[d].items[j] \in W /\ h[d].items[j] # x) => d \in W
  BY <1>1, <1>3, WithinBelow
<1>7. c \notin W /\ f[c] = h[c]
  BY <1>4
<1>8. g = [f EXCEPT ![c].items = its, ![c].names = ns]
  BY DEF Removed
<1> HIDE DEF W, f
<1>9. its \in Seq(Values) /\ Without(its, h[c].items, i)
  BY <1>2, SwappedSeq
<1>10. b \in BlockSet /\ Sound(b) /\ b.type = h[c].type /\ b.items = its
  <2>1. /\ h[c].capacity \in Nat /\ Len(its) <= h[c].capacity /\ Len(h[c].items) \in Nat
        /\ h[c].names \in Seq(Names) /\ IsInjective(h[c].names)
        /\ h[c].type = "object" => Len(h[c].names) = Len(h[c].items)
    <3>1. /\ h[c] \in BlockSet /\ Sound(h[c]) /\ h[c].items \in Seq(Values)
      BY <1>2
    <3>2. /\ h[c].capacity \in Nat /\ Len(h[c].items) \in Nat /\ Len(h[c].items) <= h[c].capacity
      BY <3>1 DEF BlockSet, Sound
    <3>3. Len(its) <= h[c].capacity
      BY <3>2, <1>9 DEF Without
    <3> QED
      BY <3>1, <3>2, <3>3 DEF BlockSet, Sound
  <2>2. h[c].capacity <= Limit(h[c])
    BY <1>2 DEF Sound
  <2>3. CASE h[c].type = "object"
    <3>1. ns = Swapped(h[c].names, i) /\ i \in DOMAIN h[c].names
      BY <1>2, <2>1, <2>3
    <3>2. ns \in Seq(Names) /\ Without(ns, h[c].names, i)
      BY <2>1, <3>1, SwappedSeq
    <3>3. IsInjective(ns)
      BY <2>1, <3>2 DEF IsInjective, Without
    <3>4. h[c].capacity <= OBJECT_MAX_CAPACITY /\ Len(ns) = Len(its)
      BY <1>9, <2>1, <2>2, <2>3, <3>2 DEF Limit, Without
    <3> HIDE DEF ns, its
    <3>5. Block("object", ns, its, h[c].capacity) = b
      BY <2>3
    <3> QED
      BY <1>9, <2>1, <2>3, <3>2, <3>3, <3>4, <3>5, ObjectMade
  <2>4. CASE h[c].type = "array"
    <3>1. ns = << >>
      BY <2>4
    <3>2. h[c].capacity <= ARRAY_MAX_CAPACITY
      BY <2>2, <2>4 DEF Limit
    <3> HIDE DEF ns, its
    <3>3. Block("array", << >>, its, h[c].capacity) = b
      BY <2>4, <3>1
    <3> QED
      BY <1>9, <2>1, <2>4, <3>2, <3>3, ArrayMade
  <2> QED
    BY <2>3, <2>4
<1> HIDE DEF ns, its
<1>11. \A d \in Values : g[d] = IF d = c THEN b ELSE f[d]
  <2>1. \A d \in Values : g[d] = IF d = c THEN [[f[c] EXCEPT !.items = its] EXCEPT !.names = ns] ELSE f[d]
    BY <1>4, <1>8
  <2>2. [[h[c] EXCEPT !.items = its] EXCEPT !.names = ns] = b
    BY <1>2, Rewritten
  <2> HIDE DEF b, g
  <2> QED
    BY <2>1, <2>2, <1>7
<1>12. g \in [Values -> BlockSet]
  <2>1. g = [d \in Values |-> g[d]]
    BY <1>4, <1>8
  <2> HIDE DEF g, b
  <2> QED
    BY <2>1, <1>4, <1>10, <1>11
<1> HIDE DEF g, b
<1>13. Typed(g)
  BY <1>4, <1>10, <1>11, <1>12 DEF Typed
<1>14. \A d \in Values : g[d].type = f[d].type
  BY <1>7, <1>10, <1>11
<1> DEFINE at(d, j) == IF d = c THEN From(h[c].items, i, j) ELSE j
<1>15. \A d \in Values : \A j \in DOMAIN g[d].items :
         /\ d \notin W /\ at(d, j) \in DOMAIN h[d].items
         /\ g[d].items[j] = h[d].items[at(d, j)]
         /\ ~ (d = c /\ at(d, j) = i)
  <2> TAKE d \in Values
  <2> TAKE j \in DOMAIN g[d].items
  <2>1. CASE d = c
    BY <2>1, <1>7, <1>9, <1>10, <1>11 DEF Without
  <2>2. CASE d # c
    <3>1. g[d] = f[d] /\ DOMAIN Free.items = {}
      BY <1>11, <2>2, FreeBlock
    <3>2. d \notin W /\ g[d] = h[d]
      BY <3>1, <1>4
    <3> QED
      BY <3>2, <2>2
  <2> QED
    BY <2>1, <2>2
<1>16. \A d \in Values : \A j, k \in DOMAIN g[d].items : at(d, j) = at(d, k) => j = k
  BY <1>9, <1>10, <1>11 DEF Without
<1> HIDE DEF at
<1>17. \A d \in Values : \A j \in DOMAIN g[d].items : g[d].items[j] \in Values /\ g[d].items[j] \notin W
  <2> TAKE d \in Values
  <2> TAKE j \in DOMAIN g[d].items
  <2>1. h[d].items[at(d, j)] # x
    BY <1>1, <1>15 DEF OnePlace
  <2>2. h[d].items[at(d, j)] \in Values
    BY <1>2, <1>15
  <2> QED
    BY <1>6, <1>15, <2>1, <2>2
<1>18. OnePlace(g)
  <2> SUFFICES ASSUME NEW d \in Values, NEW e \in Values,
                      NEW j \in DOMAIN g[d].items, NEW k \in DOMAIN g[e].items,
                      g[d].items[j] = g[e].items[k]
               PROVE  d = e /\ j = k
    BY DEF OnePlace
  <2>1. d = e /\ at(d, j) = at(e, k)
    BY <1>1, <1>15 DEF OnePlace
  <2> QED
    BY <2>1, <1>16
<1>19. NoneFreed(g)
  <2> SUFFICES ASSUME NEW d \in Values, NEW j \in DOMAIN g[d].items
               PROVE  g[g[d].items[j]].type # "free"
    BY DEF NoneFreed
  <2>1. g[g[d].items[j]].type = h[g[d].items[j]].type
    BY <1>4, <1>14, <1>17
  <2> QED
    BY <2>1, <1>1, <1>15 DEF NoneFreed
<1>20. Rooted(g, S)
  <2>1. \A s \in S : g[s].type # "free"
    BY <1>1, <1>4, <1>5, <1>14 DEF Rooted
  <2>2. \A d \in Values : \A j \in DOMAIN g[d].items : g[d].items[j] \notin S
    BY <1>15 DEF Rooted
  <2> QED
    BY <1>1, <2>1, <2>2 DEF Rooted
<1> QED
  BY <1>13, <1>18, <1>19, <1>20 DEF GoodHeap, g

-----------------------------------------------------------------------------
(* A container is emptied. *)
LEMMA EmptyContainer ==
  ASSUME NEW b \in BlockSet, Sound(b), b.type \in {"object", "array"}
  PROVE  LET e == Block(b.type, << >>, << >>, b.capacity)
         IN  e \in BlockSet /\ Sound(e) /\ e.type = b.type /\ e.items = << >>
<1> DEFINE none == << >>
<1>1. /\ none \in Seq(Names) /\ none \in Seq(Values) /\ IsInjective(none)
      /\ Len(none) = 0 /\ none = << >>
  BY DEF IsInjective
<1>2. b.capacity \in Nat /\ b.capacity <= Limit(b)
  BY DEF BlockSet, Sound
<1> HIDE DEF none
<1>3. Len(none) <= b.capacity
  BY <1>1, <1>2
<1>4. CASE b.type = "object"
  <2>1. b.capacity <= OBJECT_MAX_CAPACITY
    BY <1>2, <1>4 DEF Limit
  <2>2. LET e == Block("object", none, none, b.capacity)
        IN  e \in BlockSet /\ Sound(e) /\ e.type = "object" /\ e.items = none
    BY <1>1, <1>2, <1>3, <2>1, ObjectMade, Zenon
  <2> QED
    BY <1>1, <1>4, <2>2
<1>5. CASE b.type = "array"
  <2>1. b.capacity <= ARRAY_MAX_CAPACITY
    BY <1>2, <1>5 DEF Limit
  <2>2. LET e == Block("array", << >>, none, b.capacity)
        IN  e \in BlockSet /\ Sound(e) /\ e.type = "array" /\ e.items = none
    BY <1>1, <1>2, <1>3, <2>1, ArrayMade, Zenon
  <2> QED
    BY <1>1, <1>5, <2>2
<1> QED
  BY <1>4, <1>5

LEMMA ContainerCleared ==
  ASSUME NEW h, GoodHeap(h), NEW S, Rooted(h, S),
         NEW c \in Values, h[c].type \in {"object", "array"}
  PROVE  GoodHeap(Cleared(h, c)) /\ Rooted(Cleared(h, c), S)
<1> DEFINE W == Within(h, c)
           none == << >>
           b == Block(h[c].type, none, none, h[c].capacity)
           g == Cleared(h, c)
<1>1. /\ Typed(h) /\ OnePlace(h) /\ NoneFreed(h)
      /\ h \in [Values -> BlockSet] /\ S \subseteq Values
  BY DEF GoodHeap, Typed, Rooted
<1>2. \A d \in Values : h[d] \in BlockSet /\ Sound(h[d]) /\ h[d].items \in Seq(Values)
  BY <1>1 DEF BlockSet, Typed
<1>3. b \in BlockSet /\ Sound(b) /\ b.type = h[c].type /\ DOMAIN b.items = {}
  <2>1. b.items = << >> /\ b \in BlockSet /\ Sound(b) /\ b.type = h[c].type
    BY <1>2, EmptyContainer
  <2> QED
    BY <2>1
<1>4. \A s \in S : s # c => s \notin W
  BY <1>1, RootsStay
<1>5. \A d \in Values : \A j \in DOMAIN h[d].items :
        (h[d].items[j] \in W /\ h[d].items[j] # c) => d \in W
  BY <1>1, WithinBelow
<1>6. [h[c] EXCEPT !.names = none, !.items = none] = b
  <2>1. \A y : [y EXCEPT !.names = none, !.items = none]
                 = [[y EXCEPT !.names = none] EXCEPT !.items = none]
    OBVIOUS
  <2>2. [h[c] EXCEPT !.names = none]
          = [type |-> h[c].type, names |-> none, items |-> h[c].items, capacity |-> h[c].capacity]
    BY <1>2 DEF BlockSet
  <2> DEFINE e == [h[c] EXCEPT !.names = none]
  <2> HIDE DEF e, none
  <2>3. e = [type |-> h[c].type, names |-> none, items |-> h[c].items, capacity |-> h[c].capacity]
    BY <2>2 DEF e
  <2>4. [e EXCEPT !.items = none] = b
    BY <2>3 DEF Block
  <2> QED
    BY <2>1, <2>4 DEF e
<1>7. g = [d \in Values |-> IF d = c THEN b ELSE IF d \in W THEN Free ELSE h[d]]
  BY <1>6 DEF Cleared
<1> HIDE DEF W, b, none
<1>8. \A d \in Values : g[d] = IF d = c THEN b ELSE IF d \in W THEN Free ELSE h[d]
  BY <1>7
<1>9. \A d \in Values : g[d] \in BlockSet /\ Sound(g[d])
  BY <1>2, <1>3, <1>8, FreeBlock
<1>10. g \in [Values -> BlockSet]
  BY <1>7, <1>9
<1> HIDE DEF g
<1>11. Typed(g)
  BY <1>9, <1>10 DEF Typed
<1>12. \A d \in Values : \A j \in DOMAIN g[d].items :
         /\ g[d] = h[d] /\ h[d].items[j] \in Values
         /\ h[d].items[j] = c \/ h[d].items[j] \notin W
  <2> TAKE d \in Values
  <2> TAKE j \in DOMAIN g[d].items
  <2>1. DOMAIN Free.items = {}
    BY FreeBlock
  <2>2. d # c /\ d \notin W /\ g[d] = h[d]
    BY <2>1, <1>3, <1>8
  <2> QED
    BY <2>2, <1>2, <1>5
<1>13. OnePlace(g)
  BY <1>1, <1>12 DEF OnePlace
<1>14. NoneFreed(g)
  BY <1>1, <1>3, <1>8, <1>12 DEF NoneFreed
<1>15. Rooted(g, S)
  <2>1. \A s \in S : g[s].type # "free"
    BY <1>1, <1>3, <1>4, <1>8 DEF Rooted
  <2>2. \A d \in Values : \A j \in DOMAIN g[d].items : g[d].items[j] \notin S
    BY <1>12 DEF Rooted
  <2> QED
    BY <1>1, <2>1, <2>2 DEF Rooted
<1> QED
  BY <1>11, <1>13, <1>14, <1>15 DEF GoodHeap, g

-----------------------------------------------------------------------------
(* There are as many levels as there can be values in a row: a level that  *)
(* adds nothing is the last, and one that adds something adds a value.     *)
LEMMA WithinIsClosed ==
  ASSUME NEW h \in [Values -> BlockSet], NEW v \in Values, NEW w \in Within(h, v)
  PROVE  Items(h, w) \subseteq Within(h, v)
<1> DEFINE L(n) == Levels(h, v)[n]
           Full(n) == \A x \in L(n) : Items(h, x) \subseteq L(n)
           T == {n \in Nat : Full(n) \/ Cardinality(L(n)) >= n + 1}
<1>1. \A n \in Nat : /\ L(n) \subseteq Values /\ IsFiniteSet(L(n)) /\ Cardinality(L(n)) \in Nat
                     /\ Cardinality(L(n)) <= Cardinality(Values)
                     /\ Cardinality(L(n)) = Cardinality(Values) => L(n) = Values
  <2> TAKE n \in Nat
  <2>1. L(n) \subseteq Values /\ IsFiniteSet(Values)
    BY LevelsBelow, TreeAssumption
  <2> HIDE DEF L
  <2>2. /\ IsFiniteSet(L(n)) /\ Cardinality(L(n)) <= Cardinality(Values)
        /\ Cardinality(Values) = Cardinality(L(n)) => Values = L(n)
    BY <2>1, FS_Subset
  <2>3. Cardinality(L(n)) \in Nat
    BY <2>2, FS_CardinalityType
  <2> QED
    BY <2>1, <2>2, <2>3
<1>2. \A n \in Nat : L(n + 1) = L(n) \cup UNION {Items(h, x) : x \in L(n)}
  BY LevelsStep
<1>3. 0 \in T
  <2>1. L(0) = {v}
    BY LevelsStep
  <2>2. Cardinality(L(0)) = 1
    BY <2>1, FS_Singleton
  <2> QED
    BY <2>2
<1>4. ASSUME NEW n \in Nat, n \in T PROVE n + 1 \in T
  <2> HIDE DEF L
  <2>1. L(n + 1) = L(n) \cup UNION {Items(h, x) : x \in L(n)}
    BY <1>2
  <2>2. CASE Full(n)
    <3>1. L(n + 1) = L(n)
      BY <2>1, <2>2
    <3>2. Full(n + 1)
      BY <2>2, <3>1
    <3> QED
      BY <3>2
  <2>3. CASE ~ Full(n)
    <3>1. L(n) \subseteq L(n + 1) /\ L(n + 1) # L(n)
      BY <2>1, <2>3
    <3>2. n + 1 \in Nat
      OBVIOUS
    <3>3. IsFiniteSet(L(n + 1)) /\ Cardinality(L(n + 1)) \in Nat /\ Cardinality(L(n)) \in Nat
      BY <1>1, <3>2
    <3>4. /\ Cardinality(L(n)) <= Cardinality(L(n + 1))
          /\ Cardinality(L(n + 1)) = Cardinality(L(n)) => L(n + 1) = L(n)
      BY <3>1, <3>3, FS_Subset
    <3>5. Cardinality(L(n)) >= n + 1
      BY <1>4, <2>3
    <3>6. Cardinality(L(n + 1)) >= (n + 1) + 1
      BY <3>1, <3>3, <3>4, <3>5
    <3> QED
      BY <3>2, <3>6
  <2> QED
    BY <2>2, <2>3
<1> HIDE DEF T
<1>5. Nat \subseteq T
  BY <1>3, <1>4, Induct
<1> DEFINE m == Cardinality(Values) - 1
<1>6. m \in Nat /\ Cardinality(Values) \in Nat /\ Within(h, v) = L(m)
  BY DepthIsNat, FS_CardinalityType, TreeAssumption DEF Within
<1>7. Full(m) \/ Cardinality(L(m)) >= m + 1
  BY <1>5, <1>6 DEF T
<1> HIDE DEF L
<1>8. CASE Full(m)
  BY <1>6, <1>8
<1>9. CASE Cardinality(L(m)) >= m + 1
  <2>1. L(m) = Values
    BY <1>1, <1>6, <1>9
  <2>2. h[w].items \in Seq(Values)
    BY <1>6, <2>1 DEF BlockSet
  <2>3. Items(h, w) \subseteq Values
    BY <2>2 DEF Items
  <2> QED
    BY <1>6, <2>1, <2>3
<1> QED
  BY <1>7, <1>8, <1>9

(* Where there is room, there are blocks for all of a set. *)
LEMMA BlocksThere ==
  ASSUME NEW S, IsFiniteSet(S), NEW T, IsFiniteSet(T), Cardinality(S) <= Cardinality(T)
  PROVE  \E to \in Injection(S, T) : TRUE
<1>1. /\ Cardinality(S) \in Nat /\ ExistsBijection(1..Cardinality(S), S)
      /\ Cardinality(T) \in Nat /\ ExistsBijection(1..Cardinality(T), T)
  BY FS_CardinalityType
<1>2. ExistsInjection(1..Cardinality(S), 1..Cardinality(T))
  BY <1>1, Fun_NatInjLeq
<1>3. ExistsBijection(S, 1..Cardinality(S))
  BY <1>1, Fun_ExistsBijSymmetric
<1>4. ExistsInjection(S, 1..Cardinality(S)) /\ ExistsInjection(1..Cardinality(T), T)
  BY <1>1, <1>3 DEF ExistsBijection, ExistsInjection, Bijection
<1>5. ExistsInjection(S, 1..Cardinality(T))
  BY <1>2, <1>4, Fun_ExistsInjTransitive
<1>6. ExistsInjection(S, T)
  BY <1>4, <1>5, Fun_ExistsInjTransitive
<1> QED
  BY <1>6 DEF ExistsInjection

LEMMA BlocksFound ==
  ASSUME NEW S, IsFiniteSet(S), Room(Cardinality(S))
  PROVE  /\ Blocks(S) \in [S -> Unused(heap)]
         /\ \A x, y \in S : Blocks(S)[x] = Blocks(S)[y] => x = y
<1>1. IsFiniteSet(Unused(heap))
  BY FS_Subset, TreeAssumption DEF Unused
<1>2. \E to \in Injection(S, Unused(heap)) : TRUE
  BY <1>1, BlocksThere DEF Room
<1>3. Blocks(S) \in Injection(S, Unused(heap))
  BY <1>2 DEF Blocks
<1> QED
  BY <1>3 DEF Injection, IsInjective

-----------------------------------------------------------------------------
(* New blocks: none of them was there, and they hold one another only, so  *)
(* that no two of their places hold the same one.                          *)
NewTree(h, g, N, r) ==
  /\ N \subseteq Unused(h)
  /\ \A d \in Values : d \notin N => g[d] = h[d]
  /\ \A d \in N : g[d].type # "free" /\ \A j \in DOMAIN g[d].items : g[d].items[j] \in N
  /\ \A c, d \in N : \A i \in DOMAIN g[c].items, j \in DOMAIN g[d].items :
       g[c].items[i] = g[d].items[j] => c = d /\ i = j
  /\ r \in N /\ \A d \in N : \A j \in DOMAIN g[d].items : g[d].items[j] # r

LEMMA NewBlocks ==
  ASSUME NEW h, GoodHeap(h), NEW S, Rooted(h, S), NEW g, Typed(g), NEW N, NEW r, NewTree(h, g, N, r)
  PROVE  GoodHeap(g) /\ Rooted(g, S \cup {r})
<1> USE DEF NewTree
<1>1. /\ h \in [Values -> BlockSet] /\ \A d \in Values : Sound(h[d])
      /\ OnePlace(h) /\ NoneFreed(h)
  BY DEF GoodHeap, Typed
<1>2. \A d \in N : d \in Values /\ h[d].type = "free"
  BY DEF Unused
<1>3. \A d \in Values : \A j \in DOMAIN h[d].items : h[d].items[j] \in Values /\ h[d].items[j] \notin N
  <2> TAKE d \in Values
  <2> TAKE j \in DOMAIN h[d].items
  <2>1. h[d].items \in Seq(Values)
    BY <1>1 DEF BlockSet
  <2>2. h[h[d].items[j]].type # "free"
    BY <1>1 DEF NoneFreed
  <2> QED
    BY <2>1, <2>2, <1>2
<1>4. OnePlace(g)
  BY <1>1, <1>3 DEF OnePlace
<1>5. NoneFreed(g)
  BY <1>1, <1>3 DEF NoneFreed
<1>6. \A s \in S : s \notin N
  BY <1>2 DEF Rooted
<1>7. Rooted(g, S \cup {r})
  <2>1. \A s \in S \cup {r} : s \in Values /\ g[s].type # "free"
    BY <1>2, <1>6 DEF Rooted
  <2>2. \A d \in Values : \A j \in DOMAIN g[d].items : g[d].items[j] \notin S \cup {r}
    BY <1>3, <1>6 DEF Rooted
  <2> QED
    BY <2>1, <2>2 DEF Rooted
<1> QED
  BY <1>4, <1>5, <1>7 DEF GoodHeap

(* The copy of a block. *)
LEMMA CopiedBlock ==
  ASSUME NEW b \in BlockSet, Sound(b), b.type # "free",
         NEW items \in Seq(Values), Len(items) = Len(b.items)
  PROVE  LET e == Block(b.type, b.names, items, CapacityFor(Len(b.items)))
         IN  e \in BlockSet /\ Sound(e) /\ e.type = b.type /\ e.items = items
<1> DEFINE k == CapacityFor(Len(b.items))
           e == Block(b.type, b.names, items, k)
<1>1. /\ b.type \in {"free", "object", "array", "scalar"} /\ b.names \in Seq(Names)
      /\ b.items \in Seq(Values) /\ b.capacity \in Nat /\ Len(b.items) \in Nat
  BY DEF BlockSet
<1>2. Limit(b) \in Nat
  BY TreeAssumption DEF Limit
<1>3. Len(b.items) <= Limit(b)
  BY <1>1, <1>2 DEF Sound
<1>4. k \in Len(b.items) .. Limit(b)
  BY <1>1, <1>3, CapacityOfCopy
<1>5. k \in Nat /\ Len(items) <= k /\ k <= Limit(b)
  BY <1>1, <1>2, <1>4
<1> HIDE DEF k
<1>6. e = [type |-> b.type, names |-> b.names, items |-> items, capacity |-> k]
  BY DEF Block
<1>7. e.type = b.type /\ e.names = b.names /\ e.items = items /\ e.capacity = k
  BY <1>6
<1>8. e \in BlockSet
  BY <1>1, <1>5, <1>6 DEF BlockSet
<1> HIDE DEF e
<1>9. Limit(e) = Limit(b)
  BY <1>7 DEF Limit
<1>10. b.type = "scalar" => items = << >>
  <2> SUFFICES ASSUME b.type = "scalar" PROVE items = << >>
    OBVIOUS
  <2>1. b.items = << >>
    BY DEF Sound
  <2>2. Len(items) = 0
    BY <2>1
  <2> QED
    BY <2>2
<1>11. Sound(e)
  BY <1>5, <1>7, <1>9, <1>10 DEF Sound
<1> QED
  BY <1>7, <1>8, <1>11 DEF e, k

(* What is in a value is in one of its entries; so no container of a root's *)
(* is an entry of anything in it.                                          *)
LEMMA ThroughAnEntry ==
  ASSUME NEW h \in [Values -> BlockSet], NEW v \in Values, NEW m \in Nat,
         NEW x \in Levels(h, v)[m], x # v
  PROVE  \E y \in Items(h, v) : x \in Levels(h, y)[m]
<1> DEFINE Through(k) == \A z \in Levels(h, v)[k] : z = v \/ \E y \in Items(h, v) : z \in Levels(h, y)[k]
           T == {k \in Nat : Through(k)}
<1>1. 0 \in T
  BY LevelsStep
<1>2. ASSUME NEW k \in Nat, k \in T PROVE k + 1 \in T
  <2> SUFFICES ASSUME NEW z \in Levels(h, v)[k + 1], z # v
               PROVE  \E y \in Items(h, v) : z \in Levels(h, y)[k + 1]
    OBVIOUS
  <2>1. \A y : Levels(h, y)[k] \subseteq Levels(h, y)[k + 1]
    BY LevelsStep
  <2>2. \A y : \A w \in Levels(h, y)[k] : Items(h, w) \subseteq Levels(h, y)[k + 1]
    BY LevelsStep
  <2>3. z \in Levels(h, v)[k] \/ \E w \in Levels(h, v)[k] : z \in Items(h, w)
    BY LevelsStep
  <2>4. CASE z \in Levels(h, v)[k]
    BY <1>2, <2>1, <2>4
  <2>5. ASSUME NEW w \in Levels(h, v)[k], z \in Items(h, w)
        PROVE  \E y \in Items(h, v) : z \in Levels(h, y)[k + 1]
    <3>1. CASE w = v
      <4>1. h[v].items \in Seq(Values)
        BY DEF BlockSet
      <4>2. z \in Values /\ k + 1 \in Nat
        BY <2>5, <3>1, <4>1 DEF Items
      <4> QED
        BY <2>5, <3>1, <4>2, LevelsBelow
    <3>2. CASE w # v
      BY <1>2, <2>2, <2>5, <3>2
    <3> QED
      BY <3>1, <3>2
  <2> QED
    BY <2>3, <2>4, <2>5
<1> HIDE DEF T
<1>3. Nat \subseteq T
  BY <1>1, <1>2, Induct
<1> QED
  BY <1>3 DEF T

LEMMA NoEntryInItself ==
  ASSUME NEW h, GoodHeap(h), NEW S, Rooted(h, S), NEW c \in Below(h, S),
         NEW x \in Within(h, c), NEW i \in DOMAIN h[x].items
  PROVE  h[x].items[i] # c
<1> SUFFICES ASSUME h[x].items[i] = c PROVE FALSE
  OBVIOUS
<1> DEFINE m == Cardinality(Values) - 1
<1>1. h \in [Values -> BlockSet] /\ c \in Values
  BY DEF GoodHeap, Typed, Below
<1>2. PICK r \in S, n \in Nat : c \in Levels(h, r)[n]
  BY DEF Below
<1>3. m \in Nat /\ m + 1 \in Nat
  BY <1>1, DepthIsNat
<1>4. x \in Levels(h, c)[m]
  BY DEF Within
<1> HIDE DEF m
<1>5. CASE x = c
  <2>1. c \notin Levels(h, c)[0]
    BY <1>2, <1>5, NotInside
  <2> QED
    BY <2>1, LevelsStep
<1>6. CASE x # c
  <2>1. PICK y \in Items(h, c) : x \in Levels(h, y)[m]
    BY <1>1, <1>3, <1>4, <1>6, ThroughAnEntry
  <2>2. PICK j \in DOMAIN h[c].items : y = h[c].items[j]
    BY DEF Items
  <2>3. c \in Items(h, x)
    BY DEF Items
  <2>4. c \in Levels(h, y)[m + 1]
    BY <1>3, <2>1, <2>3, LevelsStep
  <2>5. c \notin Levels(h, h[c].items[j])[m + 1]
    BY <1>2, <1>3, NotInside
  <2> QED
    BY <2>2, <2>4, <2>5
<1> QED
  BY <1>5, <1>6

(* The copy of a value: a root more, with a tree of its own. *)
LEMMA CopyMade ==
  ASSUME NEW h, GoodHeap(h), NEW S, Rooted(h, S), NEW v \in Below(h, S), h[v].type # "free",
         NEW to, to \in [Within(h, v) -> Unused(h)],
         \A x, y \in Within(h, v) : to[x] = to[y] => x = y
  PROVE  GoodHeap(Copied(h, v, to)) /\ Rooted(Copied(h, v, to), S \cup {to[v]})
<1> DEFINE W == Within(h, v)
           N == {to[x] : x \in W}
           its(x) == [i \in DOMAIN h[x].items |-> to[h[x].items[i]]]
           new(x) == Block(h[x].type, h[x].names, its(x), CapacityFor(Len(h[x].items)))
           g == Copied(h, v, to)
<1>1. /\ h \in [Values -> BlockSet] /\ OnePlace(h) /\ NoneFreed(h) /\ v \in Values
      /\ \A d \in Values : h[d] \in BlockSet /\ Sound(h[d]) /\ h[d].items \in Seq(Values)
  BY DEF GoodHeap, Typed, BlockSet, Below
<1>2. /\ v \in W /\ W \subseteq Values
      /\ \A x \in W : \A i \in DOMAIN h[x].items : h[x].items[i] \in W
  BY <1>1, WithinBelow, WithinIsClosed DEF Items
<1>3. \A x \in W : h[x].type # "free"
  <2> TAKE x \in W
  <2>1. CASE x = v
    BY <2>1
  <2>2. CASE x # v
    <3>1. PICK p \in W : x \in Items(h, p)
      BY <1>1, <2>2, DepthIsNat, LevelsBelow DEF Within
    <3> QED
      BY <3>1, <1>1, <1>2 DEF Items, NoneFreed
  <2> QED
    BY <2>1, <2>2
<1> HIDE DEF W
<1>4. to \in [W -> Unused(h)] /\ \A x, y \in W : to[x] = to[y] => x = y
  BY DEF W
<1>5. N \subseteq Unused(h) /\ N \subseteq Values
  BY <1>4 DEF Unused
<1>6. \A x \in W : /\ its(x) \in Seq(Values) /\ Len(its(x)) = Len(h[x].items)
                   /\ DOMAIN its(x) = DOMAIN h[x].items
                   /\ \A i \in DOMAIN h[x].items : its(x)[i] = to[h[x].items[i]]
  <2> TAKE x \in W
  <2> DEFINE s == its(x)
             n == Len(h[x].items)
  <2>1. n \in Nat /\ DOMAIN h[x].items = 1..n
    BY <1>1, <1>2
  <2>2. s = [i \in 1..n |-> to[h[x].items[i]]]
    BY <2>1
  <2>3. \A i \in 1..n : to[h[x].items[i]] \in Values
    BY <1>2, <1>4, <1>5, <2>1
  <2> HIDE DEF s, n
  <2>4. s \in Seq(Values) /\ Len(s) = n /\ DOMAIN s = 1..n
    BY <2>1, <2>2, <2>3
  <2>5. \A i \in 1..n : s[i] = to[h[x].items[i]]
    BY <2>2
  <2> QED
    BY <2>1, <2>4, <2>5 DEF s, n
<1>7. \A x \in W : /\ new(x) \in BlockSet /\ Sound(new(x))
                   /\ new(x).type = h[x].type /\ new(x).items = its(x)
  <2> TAKE x \in W
  <2> DEFINE s == its(x)
  <2>1. /\ h[x] \in BlockSet /\ Sound(h[x]) /\ h[x].type # "free"
        /\ s \in Seq(Values) /\ Len(s) = Len(h[x].items)
    BY <1>1, <1>2, <1>3, <1>6
  <2> HIDE DEF s
  <2>2. LET e == Block(h[x].type, h[x].names, s, CapacityFor(Len(h[x].items)))
        IN  e \in BlockSet /\ Sound(e) /\ e.type = h[x].type /\ e.items = s
    BY <2>1, CopiedBlock
  <2> QED
    BY <2>2 DEF s
<1>8. g = [d \in Values |-> IF \E x \in W : to[x] = d
                            THEN new(CHOOSE x \in W : to[x] = d) ELSE h[d]]
  BY DEF Copied, W
<1> HIDE DEF its, new, g
<1>9. \A x \in W : g[to[x]] = new(x)
  <2> TAKE x \in W
  <2>1. to[x] \in Values
    BY <1>5
  <2>2. (CHOOSE y \in W : to[y] = to[x]) = x
    BY <1>4
  <2>3. g[to[x]] = IF \E y \in W : to[y] = to[x]
                   THEN new(CHOOSE y \in W : to[y] = to[x]) ELSE h[to[x]]
    BY <1>8, <2>1
  <2>4. g[to[x]] = new(CHOOSE y \in W : to[y] = to[x])
    BY <2>3
  <2> QED
    BY <2>2, <2>4
<1>10. \A d \in Values : d \notin N => g[d] = h[d]
  BY <1>8
<1>11. \A d \in Values : g[d] \in BlockSet /\ Sound(g[d])
  <2> TAKE d \in Values
  <2>1. CASE d \in N
    <3>1. PICK x \in W : d = to[x]
      BY <2>1
    <3> QED
      BY <3>1, <1>7, <1>9
  <2>2. CASE d \notin N
    BY <2>2, <1>1, <1>10
  <2> QED
    BY <2>1, <2>2
<1>12. Typed(g)
  <2>1. DOMAIN g = Values /\ g = [d \in Values |-> g[d]]
    BY <1>8
  <2>2. g \in [Values -> BlockSet]
    BY <2>1, <1>11
  <2> QED
    BY <2>2, <1>11 DEF Typed
<1>13. \A x \in W : /\ g[to[x]].type # "free"
                    /\ DOMAIN g[to[x]].items = DOMAIN h[x].items
                    /\ \A i \in DOMAIN h[x].items : g[to[x]].items[i] = to[h[x].items[i]]
  BY <1>3, <1>6, <1>7, <1>9
<1>14. \A d \in N : g[d].type # "free" /\ \A j \in DOMAIN g[d].items : g[d].items[j] \in N
  BY <1>2, <1>13
<1>15. \A c, d \in N : \A i \in DOMAIN g[c].items, j \in DOMAIN g[d].items :
         g[c].items[i] = g[d].items[j] => c = d /\ i = j
  <2> SUFFICES ASSUME NEW x \in W, NEW y \in W,
                      NEW i \in DOMAIN h[x].items, NEW j \in DOMAIN h[y].items,
                      to[h[x].items[i]] = to[h[y].items[j]]
               PROVE  x = y /\ i = j
    BY <1>13
  <2>1. h[x].items[i] = h[y].items[j]
    BY <1>2, <1>4
  <2> QED
    BY <2>1, <1>1, <1>2 DEF OnePlace
<1>16. to[v] \in N
  BY <1>2
<1>17. \A d \in N : \A j \in DOMAIN g[d].items : g[d].items[j] # to[v]
  <2> SUFFICES ASSUME NEW x \in W, NEW i \in DOMAIN h[x].items, to[h[x].items[i]] = to[v]
               PROVE  FALSE
    BY <1>13
  <2>1. h[x].items[i] = v
    BY <1>2, <1>4
  <2> QED
    BY <2>1, NoEntryInItself DEF W
<1> HIDE DEF N
<1>18. NewTree(h, g, N, to[v])
  BY <1>5, <1>10, <1>14, <1>15, <1>16, <1>17 DEF NewTree
<1>19. GoodHeap(g) /\ Rooted(g, S \cup {to[v]})
  BY <1>12, <1>18, NewBlocks
<1> QED
  BY <1>19 DEF g

(* A document's container in new blocks, with its scalars. *)
Parsed(h, b, n, to) ==
  [v \in Values |-> IF v = to[0] THEN b ELSE IF \E i \in 1..n : to[i] = v THEN Scalar ELSE h[v]]

LEMMA ContainerMade ==
  ASSUME NEW h, GoodHeap(h), NEW S, Rooted(h, S), NEW n \in Nat,
         NEW to \in [0..n -> Unused(h)], \A i, j \in 0..n : to[i] = to[j] => i = j,
         NEW b \in BlockSet, Sound(b), b.type # "free",
         DOMAIN b.items = 1..n, \A i \in 1..n : b.items[i] = to[i]
  PROVE  GoodHeap(Parsed(h, b, n, to)) /\ Rooted(Parsed(h, b, n, to), S \cup {to[0]})
<1> DEFINE N == {to[i] : i \in 0..n}
           g == Parsed(h, b, n, to)
<1>0. g = [v \in Values |-> IF v = to[0] THEN b
                            ELSE IF \E i \in 1..n : to[i] = v THEN Scalar ELSE h[v]]
  BY DEF Parsed
<1> HIDE DEF g
<1>1. \A d \in Values : h[d] \in BlockSet /\ Sound(h[d])
  BY DEF GoodHeap, Typed
<1>2. 0 \in 0..n /\ \A i \in 1..n : i \in 0..n /\ i # 0
  OBVIOUS
<1>3. N \subseteq Unused(h) /\ Unused(h) \subseteq Values
  BY DEF Unused
<1>4. \A d \in Values : g[d] = IF d = to[0] THEN b ELSE IF \E i \in 1..n : to[i] = d THEN Scalar ELSE h[d]
  BY <1>0
<1>5. \A i \in 0..n : i = 0 \/ i \in 1..n
  OBVIOUS
<1>6. \A d \in Values : g[d] \in BlockSet /\ Sound(g[d])
  BY <1>1, <1>4, EmptyBlocks
<1>7. Typed(g)
  <2>1. g \in [Values -> BlockSet]
    <3>1. g = [d \in Values |-> g[d]]
      BY <1>0
    <3> QED
      BY <3>1, <1>6
  <2> QED
    BY <2>1, <1>6 DEF Typed
<1>8. DOMAIN b.items = 1..n /\ \A i \in 1..n : b.items[i] = to[i]
  OBVIOUS
<1>9. DOMAIN Scalar.items = {} /\ Scalar.type # "free"
  BY EmptyBlocks
<1>10. \A d \in N : d # to[0] => g[d] = Scalar
  BY <1>3, <1>4, <1>5
<1>11. to[0] \in N /\ g[to[0]] = b
  BY <1>2, <1>3, <1>4
<1>12. \A d \in N : \A j \in DOMAIN g[d].items : d = to[0] /\ j \in 1..n /\ g[d].items[j] = to[j]
  BY <1>8, <1>9, <1>10, <1>11
<1>13. \A d \in N : g[d].type # "free"
  BY <1>9, <1>10, <1>11
<1>14. \A d \in Values : d \notin N => g[d] = h[d]
  BY <1>2, <1>4
<1>15. \A i \in 0..n : to[i] \in N
  OBVIOUS
<1> HIDE DEF N
<1>16. \A d \in N : \A j \in DOMAIN g[d].items : g[d].items[j] \in N /\ g[d].items[j] # to[0]
  <2> TAKE d \in N
  <2> TAKE j \in DOMAIN g[d].items
  <2>1. g[d].items[j] = to[j] /\ j \in 0..n /\ j # 0
    BY <1>2, <1>12
  <2> QED
    BY <2>1, <1>2, <1>15
<1>17. ASSUME NEW c \in N, NEW d \in N, NEW i \in DOMAIN g[c].items, NEW j \in DOMAIN g[d].items,
              g[c].items[i] = g[d].items[j]
       PROVE  c = d /\ i = j
  <2>1. c = d /\ g[c].items[i] = to[i] /\ g[d].items[j] = to[j] /\ i \in 0..n /\ j \in 0..n
    BY <1>2, <1>12
  <2>2. to[i] = to[j]
    BY <1>17, <2>1
  <2> QED
    BY <2>1, <2>2
<1>18. \A c, d \in N : \A i \in DOMAIN g[c].items, j \in DOMAIN g[d].items :
         g[c].items[i] = g[d].items[j] => c = d /\ i = j
  BY <1>17
<1>19. NewTree(h, g, N, to[0])
  <2>1. N \subseteq Unused(h) /\ to[0] \in N
    BY <1>3, <1>11
  <2>2. ASSUME NEW d \in N, NEW j \in DOMAIN g[d].items PROVE g[d].items[j] # to[0]
    BY <1>16
  <2>3. \A d \in N : \A j \in DOMAIN g[d].items : g[d].items[j] \in N
    BY <1>16
  <2>4. \A d \in N : g[d].type # "free" /\ \A j \in DOMAIN g[d].items : g[d].items[j] \in N
    BY <1>13, <2>3
  <2> QED
    BY <1>14, <1>18, <2>1, <2>2, <2>4, Zenon DEF NewTree
<1> QED
  BY <1>7, <1>19, NewBlocks DEF g

(* A container never has fewer places than it grew for. *)
LEMMA CapacityEnough ==
  ASSUME NEW n \in Nat
  PROVE  CapacityFor(n) \in Nat /\ n <= CapacityFor(n)
<1> DEFINE T == {k \in Nat : k < Capacities[k]}
<1>1. 0 \in T
  BY CapacitiesGrow
<1>2. ASSUME NEW k \in Nat, k \in T PROVE k + 1 \in T
  <2>1. Capacities[k + 1] = 2 * Capacities[k] /\ Capacities[k] \in Nat /\ k < Capacities[k]
    BY <1>2, CapacitiesStep, CapacitiesGrow
  <2>2. k + 1 < Capacities[k + 1]
    BY <2>1
  <2> QED
    BY <2>2
<1> HIDE DEF T
<1>3. Nat \subseteq T
  BY <1>1, <1>2, Induct
<1>4. n < Capacities[n] /\ Capacities[n] \in Nat
  BY <1>3, CapacitiesGrow DEF T
<1>5. n <= Capacities[n]
  BY <1>4
<1>6. CapacityFor(n) \in n .. Capacities[n]
  BY <1>5, CapacityFits
<1> QED
  BY <1>4, <1>6

-----------------------------------------------------------------------------
(* What the program can reach is down from a value it owns. *)
LEMMA BelowGoesOn ==
  ASSUME NEW h, NEW S, NEW c \in Below(h, S), NEW x \in Items(h, c), x \in Values
  PROVE  x \in Below(h, S)
<1>1. PICK r \in S, n \in Nat : c \in Levels(h, r)[n]
  BY DEF Below
<1>2. x \in Levels(h, r)[n + 1] /\ n + 1 \in Nat
  BY <1>1, LevelsStep
<1> QED
  BY <1>2 DEF Below

LEMMA OwnedIsBelow ==
  ASSUME OwnInv
  PROVE  Owned \subseteq Below(heap, held)
<1> SUFFICES ASSUME NEW r \in held, NEW c \in Within(heap, r) PROVE c \in Below(heap, held)
  BY DEF Owned
<1>1. heap \in [Values -> BlockSet] /\ r \in Values
  BY DEF OwnInv, GoodHeap, Typed, Rooted
<1>2. c \in Values
  BY <1>1, WithinBelow
<1>3. Cardinality(Values) - 1 \in Nat
  BY <1>1, DepthIsNat
<1> QED
  BY <1>2, <1>3 DEF Below, Within

LEMMA WayIsBelow ==
  ASSUME NEW h, GoodHeap(h), NEW S, NEW o \in Below(h, S), h[o].type = "object", NEW path,
         NEW m \in Nat, Ways(h, o, path)[m] # None
  PROVE  Ways(h, o, path)[m] \in Below(h, S) /\ h[Ways(h, o, path)[m]].type = "object"
<1> DEFINE at(k) == Ways(h, o, path)[k]
           Reached(k) == at(k) = None \/ (at(k) \in Below(h, S) /\ h[at(k)].type = "object")
           T == {k \in Nat : Reached(k)}
<1>1. at(0) = o
  BY WaysStart
<1>2. \A k \in Nat :
        at(k + 1) = IF at(k) = None THEN None
                    ELSE json_value_get(h, json_object_get_value(h, at(k), path[k + 1]), "object")
  BY WaysStep, Zenon
<1> HIDE DEF at
<1>3. 0 \in T
  BY <1>1
<1>4. ASSUME NEW k \in Nat, k \in T PROVE k + 1 \in T
  <2> DEFINE p == at(k)
             q == at(k + 1)
  <2>1. q = IF p = None THEN None
            ELSE json_value_get(h, json_object_get_value(h, p, path[k + 1]), "object")
    BY <1>2
  <2>2. p = None \/ (p \in Below(h, S) /\ h[p].type = "object")
    BY <1>4
  <2> SUFFICES q = None \/ (q \in Below(h, S) /\ h[q].type = "object")
    OBVIOUS
  <2> HIDE DEF p, q
  <2>3. CASE q = None
    BY <2>3
  <2>4. CASE q # None
    <3>1. p \in Below(h, S) /\ h[p].type = "object"
      BY <2>1, <2>2, <2>4
    <3>2. q = json_value_get(h, json_object_get_value(h, p, path[k + 1]), "object")
      BY <2>1, <2>4
    <3>3. p \in Values /\ Typed(h)
      BY <3>1 DEF Below, GoodHeap
    <3> DEFINE n == path[k + 1]
    <3> HIDE DEF n
    <3>4. q = json_value_get(h, json_object_get_value(h, p, n), "object")
      BY <3>2 DEF n
    <3>5. q \in Values /\ h[q].type = "object" /\ q \in Items(h, p)
      BY <2>4, <3>1, <3>3, <3>4, LookUp
    <3> QED
      BY <3>1, <3>5, BelowGoesOn
  <2> QED
    BY <2>3, <2>4
<1> HIDE DEF T
<1>5. Nat \subseteq T
  BY <1>3, <1>4, Induct
<1>6. Reached(m)
  BY <1>5 DEF T
<1> QED
  BY <1>6 DEF at

LEMMA AlongIsBelow ==
  ASSUME NEW h, GoodHeap(h), NEW S, NEW o \in Below(h, S), h[o].type = "object", NEW path \in Paths,
         Along(h, o, path) # None
  PROVE  Along(h, o, path) \in Below(h, S) /\ h[Along(h, o, path)].type = "object"
<1>1. Len(path) - 1 \in Nat
  BY PathHasNames
<1> QED
  BY <1>1, WayIsBelow DEF Along

-----------------------------------------------------------------------------
(* The calls.  First what they have in common: fewer roots are roots still; *)
(* a value is given away, or stays the caller's if it is refused; a call   *)
(* that makes its own value has it taken, or frees it, or forgets it.      *)
LEMMA FewerRoots ==
  ASSUME NEW h, NEW S, Rooted(h, S), NEW T \in SUBSET S
  PROVE  Rooted(h, T)
BY DEF Rooted

LEMMA GiveKeeps ==
  ASSUME OwnInv, NEW v \in held, NEW r, Takes(r, held, v), Give(v, r)
  PROVE  OwnInv'
<1>1. /\ GoodHeap(r.heap) /\ heap' = r.heap
      /\ Rooted(r.heap, held')
  BY DEF Takes, Give
<1>2. GoodHeap(heap') /\ Rooted(heap', held')
  BY <1>1
<1> QED
  BY <1>2 DEF OwnInv, GoodHeap, Typed, OnePlace, NoneFreed, Rooted

LEMMA OneMore ==
  ASSUME OwnInv, Unused(heap) # {}
  PROVE  /\ malloc(heap) \in Values /\ malloc(heap) \notin held
         /\ GoodHeap(WithNew) /\ Rooted(WithNew, held \cup {malloc(heap)})
         /\ \A d \in Values : heap[d].type # "free" => WithNew[d] = heap[d]
<1> DEFINE new == malloc(heap)
           g == [heap EXCEPT ![new] = Scalar]
<1>1. GoodHeap(heap) /\ Rooted(heap, held)
  BY DEF OwnInv
<1>2. Scalar \in BlockSet /\ Sound(Scalar) /\ Scalar.type # "free" /\ Scalar.items = << >>
  BY EmptyBlocks
<1>3. /\ new \in Values /\ new \notin held
      /\ GoodHeap(g) /\ Rooted(g, held \cup {new})
      /\ \A d \in Values : g[d] = IF d = new THEN Scalar ELSE heap[d]
  BY <1>1, <1>2, FreshBlock
<1>4. heap[new].type = "free"
  BY DEF malloc, Unused
<1> HIDE DEF new
<1>5. \A d \in Values : heap[d].type # "free" => g[d] = heap[d]
  BY <1>3, <1>4
<1> QED
  BY <1>3, <1>5 DEF new, WithNew

LEMMA KeepKeeps ==
  ASSUME OwnInv, Unused(heap) # {}, NEW r, NEW frees \in BOOLEAN,
         Takes(r, held \cup {malloc(heap)}, malloc(heap)), Keep(r, frees)
  PROVE  OwnInv'
<1> DEFINE new == malloc(heap)
           S == held \cup {new}
<1>1. new \notin held /\ new \in S /\ S \ {new} = held
  BY OneMore
<1>2. GoodHeap(r.heap) /\ r.ok \in BOOLEAN /\ Rooted(r.heap, IF r.ok THEN S \ {new} ELSE S)
  BY DEF Takes
<1>3. held' = held
  BY DEF Keep
<1>4. CASE r.ok \/ ~ frees
  <2>1. heap' = r.heap
    BY <1>4 DEF Keep
  <2>2. Rooted(r.heap, held)
    BY <1>1, <1>2, FewerRoots
  <2> QED
    BY <1>2, <1>3, <2>1, <2>2
    DEF OwnInv, GoodHeap, Typed, OnePlace, NoneFreed, Rooted
<1>5. CASE ~ r.ok /\ frees
  <2>1. heap' = json_value_free(r.heap, new)
    BY <1>5 DEF Keep
  <2>2. Rooted(r.heap, S)
    BY <1>2, <1>5
  <2> HIDE DEF new, S
  <2>3. GoodHeap(json_value_free(r.heap, new)) /\ Rooted(json_value_free(r.heap, new), S \ {new})
    BY <1>1, <1>2, <2>2, FreeRoot
  <2>4. GoodHeap(heap') /\ Rooted(heap', held')
    BY <1>1, <1>3, <2>1, <2>3
  <2> QED
    BY <2>4 DEF OwnInv, GoodHeap, Typed, OnePlace, NoneFreed, Rooted
<1> QED
  BY <1>4, <1>5

LEMMA InitOwns == ASSUME Init PROVE OwnInv
<1>1. heap = [v \in Values |-> Free] /\ held = {}
  BY DEF Init
<1>2. \A v \in Values : heap[v] = Free /\ heap[v] \in BlockSet /\ Sound(heap[v])
  BY <1>1, FreeBlock
<1>3. heap \in [Values -> BlockSet]
  BY <1>1, <1>2
<1>4. \A v \in Values : DOMAIN heap[v].items = {}
  <2>1. DOMAIN Free.items = {}
    BY FreeBlock
  <2> QED
    BY <1>2, <2>1
<1> QED
  BY <1>1, <1>2, <1>3, <1>4 DEF OwnInv, GoodHeap, Typed, OnePlace, NoneFreed, Rooted

(* What the invariant says of the values the calls are made with. *)
LEMMA OwnedValues ==
  ASSUME OwnInv
  PROVE  /\ GoodHeap(heap) /\ Rooted(heap, held) /\ held \subseteq Values
         /\ \A o \in Owned : o \in Values /\ o \in Below(heap, held)
         /\ \A type : \A o \in Of(type) : o \in Owned /\ heap[o].type = type
         /\ \A c : Loose(c) \subseteq held
BY OwnedIsBelow DEF OwnInv, Rooted, Below, Of, Loose

LEMMA ValueInitKeeps ==
  ASSUME OwnInv, NEW type \in {"object", "array", "scalar"},
         json_value_init(Block(type, << >>, << >>, 0))
  PROVE  OwnInv'
<1> DEFINE none == << >>
           b == Block(type, none, none, 0)
           new == malloc(heap)
           g == [heap EXCEPT ![new] = b]
<1>1. b \in BlockSet /\ Sound(b) /\ b.type # "free" /\ b.items = << >>
  BY EmptyBlocks
<1>2. Unused(heap) # {} /\ heap' = g /\ held' = held \cup {new}
  BY DEF json_value_init
<1> HIDE DEF b
<1>3. GoodHeap(g) /\ Rooted(g, held \cup {new})
  BY <1>1, <1>2, OwnedValues, FreshBlock
<1>4. GoodHeap(heap') /\ Rooted(heap', held')
  BY <1>2, <1>3
<1> QED
  BY <1>4 DEF OwnInv, GoodHeap, Typed, OnePlace, NoneFreed, Rooted

LEMMA FreeValueKeeps ==
  ASSUME OwnInv, NEW v \in held, FreeValue(v)
  PROVE  OwnInv'
<1>1. GoodHeap(json_value_free(heap, v)) /\ Rooted(json_value_free(heap, v), held \ {v})
  BY OwnedValues, FreeRoot
<1>2. GoodHeap(heap') /\ Rooted(heap', held')
  BY <1>1 DEF FreeValue
<1> QED
  BY <1>2 DEF OwnInv, GoodHeap, Typed, OnePlace, NoneFreed, Rooted

(* The calls on an object. *)
LEMMA SetValueKeeps ==
  ASSUME OwnInv, NEW o \in Of("object"), NEW path \in Paths, NEW v \in Loose(o), NEW mem \in Int,
         SetValue(o, path, v, mem)
  PROVE  OwnInv'
<1>1. /\ GoodHeap(heap) /\ Rooted(heap, held) /\ v \in held
      /\ o \in Values /\ heap[o].type = "object"
  BY OwnedValues
<1>2. Takes(json_object_dotset_value(heap, o, path, v, mem), held, v)
  BY <1>1, DotSets
<1> QED
  BY <1>1, <1>2, GiveKeeps DEF SetValue

LEMMA SetScalarKeeps ==
  ASSUME OwnInv, NEW o \in Of("object"), NEW n \in Names, NEW mem \in Int,
         json_object_set_scalar(o, n, mem)
  PROVE  OwnInv'
<1> DEFINE new == malloc(heap)
<1>1. Unused(heap) # {}
  BY DEF json_object_set_scalar
<1>2. o \in Values /\ heap[o].type = "object"
  BY OwnedValues
<1>3. /\ GoodHeap(WithNew) /\ Rooted(WithNew, held \cup {new}) /\ new \in held \cup {new}
      /\ WithNew[o].type = "object"
  BY <1>1, <1>2, OneMore
<1>4. Takes(json_object_set_value(WithNew, o, n, new, mem), held \cup {new}, new)
  BY <1>2, <1>3, ObjectSets
<1> QED
  BY <1>1, <1>4, KeepKeeps DEF json_object_set_scalar

LEMMA DotsetScalarKeeps ==
  ASSUME OwnInv, NEW o \in Of("object"), NEW path \in Paths, NEW mem \in Int,
         json_object_dotset_scalar(o, path, mem)
  PROVE  OwnInv'
<1> DEFINE new == malloc(heap)
<1>1. Unused(heap) # {}
  BY DEF json_object_dotset_scalar
<1>2. o \in Values /\ heap[o].type = "object"
  BY OwnedValues
<1>3. /\ GoodHeap(WithNew) /\ Rooted(WithNew, held \cup {new}) /\ new \in held \cup {new}
      /\ WithNew[o].type = "object"
  BY <1>1, <1>2, OneMore
<1>4. Takes(json_object_dotset_value(WithNew, o, path, new, mem), held \cup {new}, new)
  BY <1>2, <1>3, DotSets
<1> QED
  BY <1>1, <1>4, KeepKeeps DEF json_object_dotset_scalar

LEMMA RemoveKeeps ==
  ASSUME OwnInv, NEW c \in Below(heap, held), heap[c].type \in {"object", "array"},
         NEW i \in DOMAIN heap[c].items, heap' = Removed(heap, c, i), held' = held
  PROVE  OwnInv'
<1>1. GoodHeap(heap) /\ Rooted(heap, held) /\ c \in Values
  BY OwnedValues DEF Below
<1>2. c \notin Within(heap, heap[c].items[i])
  BY <1>1, NotInsideItself
<1>3. GoodHeap(Removed(heap, c, i)) /\ Rooted(Removed(heap, c, i), held)
  BY <1>1, <1>2, EntryRemoved
<1>4. GoodHeap(heap') /\ Rooted(heap', held')
  BY <1>3
<1> QED
  BY <1>4 DEF OwnInv, GoodHeap, Typed, OnePlace, NoneFreed, Rooted

LEMMA DotremoveKeeps ==
  ASSUME OwnInv, NEW o \in Of("object"), NEW path \in Paths, json_object_dotremove(o, path)
  PROVE  OwnInv'
<1> DEFINE p == Along(heap, o, path)
           n == Last(path)
           i == Place(heap, p, n)
<1>1. o \in Below(heap, held) /\ heap[o].type = "object" /\ GoodHeap(heap)
  BY OwnedValues
<1>2. p # None /\ i # 0 /\ heap' = Removed(heap, p, i) /\ held' = held
  BY DEF json_object_dotremove
<1>3. p \in Below(heap, held) /\ heap[p].type = "object"
  BY <1>1, <1>2, AlongIsBelow
<1>4. heap[p] \in BlockSet /\ Sound(heap[p])
  BY <1>1, <1>3 DEF Below, GoodHeap, Typed
<1> HIDE DEF p, n
<1>5. i \in DOMAIN heap[p].items
  BY <1>2, <1>3, <1>4, PlaceOfName
<1> HIDE DEF i
<1> QED
  BY <1>2, <1>3, <1>5, RemoveKeeps

LEMMA ClearKeeps ==
  ASSUME OwnInv, NEW c \in Owned, heap[c].type \in {"object", "array"}, json_clear(c)
  PROVE  OwnInv'
<1>1. GoodHeap(heap) /\ Rooted(heap, held) /\ c \in Values
  BY OwnedValues
<1>2. GoodHeap(Cleared(heap, c)) /\ Rooted(Cleared(heap, c), held)
  BY <1>1, ContainerCleared
<1>3. GoodHeap(heap') /\ Rooted(heap', held')
  BY <1>2 DEF json_clear
<1> QED
  BY <1>3 DEF OwnInv, GoodHeap, Typed, OnePlace, NoneFreed, Rooted

(* The calls on an array. *)
LEMMA AppendValueKeeps ==
  ASSUME OwnInv, NEW a \in Of("array"), NEW v \in Loose(a), NEW mem \in Int,
         json_array_append_value(a, v, mem)
  PROVE  OwnInv'
<1>1. /\ GoodHeap(heap) /\ Rooted(heap, held) /\ v \in held
      /\ a \in Values /\ heap[a].type = "array"
  BY OwnedValues
<1>2. Takes(json_array_add(heap, a, v, mem), held, v)
  BY <1>1, ArrayAdds
<1> QED
  BY <1>1, <1>2, GiveKeeps DEF json_array_append_value

LEMMA AppendScalarKeeps ==
  ASSUME OwnInv, NEW a \in Of("array"), NEW mem \in Int, json_array_append_scalar(a, mem)
  PROVE  OwnInv'
<1> DEFINE new == malloc(heap)
<1>1. Unused(heap) # {}
  BY DEF json_array_append_scalar
<1>2. a \in Values /\ heap[a].type = "array"
  BY OwnedValues
<1>3. /\ GoodHeap(WithNew) /\ Rooted(WithNew, held \cup {new}) /\ new \in held \cup {new}
      /\ WithNew[a].type = "array"
  BY <1>1, <1>2, OneMore
<1>4. Takes(json_array_add(WithNew, a, new, mem), held \cup {new}, new)
  BY <1>2, <1>3, ArrayAdds
<1> QED
  BY <1>1, <1>4, KeepKeeps DEF json_array_append_scalar

LEMMA ReplacedTakes ==
  ASSUME NEW h, GoodHeap(h), NEW S, Rooted(h, S), NEW v \in S,
         NEW a \in Values, NEW i \in DOMAIN h[a].items
  PROVE  Takes(Done(Replaced(h, a, i, v)), S, v)
<1> DEFINE g == [json_value_free(h, h[a].items[i]) EXCEPT ![a].items[i] = v]
<1>1. GoodHeap(g) /\ Rooted(g, S \ {v})
  BY PutInstead
<1> HIDE DEF g
<1>2. Replaced(h, a, i, v) = g
  BY DEF Replaced, g
<1>3. Done(g).ok = TRUE /\ Done(g).heap = g
  BY DEF Done
<1>4. Takes(Done(g), S, v)
  BY <1>1, <1>3 DEF Takes
<1> QED
  BY <1>2, <1>4

LEMMA ReplaceValueKeeps ==
  ASSUME OwnInv, NEW a \in Of("array"), NEW i \in DOMAIN heap[a].items, NEW v \in Loose(a),
         json_array_replace_value(a, i, v)
  PROVE  OwnInv'
<1>1. GoodHeap(heap) /\ Rooted(heap, held) /\ v \in held /\ a \in Values
  BY OwnedValues
<1>2. Takes(Done(Replaced(heap, a, i, v)), held, v)
  BY <1>1, ReplacedTakes
<1> QED
  BY <1>1, <1>2, GiveKeeps DEF json_array_replace_value

LEMMA ReplaceScalarKeeps ==
  ASSUME OwnInv, NEW a \in Of("array"), NEW i \in DOMAIN heap[a].items,
         json_array_replace_scalar(a, i)
  PROVE  OwnInv'
<1> DEFINE new == malloc(heap)
<1>1. Unused(heap) # {}
  BY DEF json_array_replace_scalar
<1>2. a \in Values /\ heap[a].type = "array"
  BY OwnedValues
<1>3. /\ GoodHeap(WithNew) /\ Rooted(WithNew, held \cup {new}) /\ new \in held \cup {new}
      /\ WithNew[a] = heap[a]
  BY <1>1, <1>2, OneMore
<1>4. i \in DOMAIN WithNew[a].items
  BY <1>3
<1>5. Takes(Done(Replaced(WithNew, a, i, new)), held \cup {new}, new)
  BY <1>2, <1>3, <1>4, ReplacedTakes
<1> QED
  BY <1>1, <1>5, KeepKeeps DEF json_array_replace_scalar

(* The calls that make many blocks. *)
LEMMA OwnedIsThere ==
  ASSUME OwnInv, NEW v \in Owned
  PROVE  heap[v].type # "free"
<1> DEFINE m == Cardinality(Values) - 1
<1>1. PICK r \in held : v \in Within(heap, r)
  BY DEF Owned
<1>2. heap \in [Values -> BlockSet] /\ r \in Values /\ heap[r].type # "free" /\ NoneFreed(heap)
  BY DEF OwnInv, GoodHeap, Typed, Rooted
<1>3. m \in Nat /\ v \in Levels(heap, r)[m]
  BY <1>1, <1>2, DepthIsNat DEF Within
<1> HIDE DEF m
<1>4. CASE v = r
  BY <1>2, <1>4
<1>5. CASE v # r
  <2>1. PICK p \in Levels(heap, r)[m] : v \in Items(heap, p)
    BY <1>2, <1>3, <1>5, LevelsBelow
  <2>2. p \in Values
    BY <1>2, <1>3, LevelsBelow
  <2> QED
    BY <1>2, <2>1, <2>2 DEF Items, NoneFreed
<1> QED
  BY <1>4, <1>5

LEMMA CopyKeeps ==
  ASSUME OwnInv, NEW v \in Owned, json_value_deep_copy(v)
  PROVE  OwnInv'
<1> DEFINE W == Within(heap, v)
           to == Blocks(W)
<1>1. /\ GoodHeap(heap) /\ Rooted(heap, held)
      /\ v \in Values /\ v \in Below(heap, held) /\ heap[v].type # "free"
  BY OwnedValues, OwnedIsThere
<1>2. W \subseteq Values
  BY <1>1, WithinBelow DEF GoodHeap, Typed
<1>3. IsFiniteSet(W)
  BY <1>2, FS_Subset, TreeAssumption
<1>4. Room(Cardinality(W)) /\ heap' = Copied(heap, v, to) /\ held' = held \cup {to[v]}
  BY DEF json_value_deep_copy
<1>5. to \in [W -> Unused(heap)] /\ \A x, y \in W : to[x] = to[y] => x = y
  BY <1>3, <1>4, BlocksFound
<1> HIDE DEF to
<1>6. GoodHeap(Copied(heap, v, to)) /\ Rooted(Copied(heap, v, to), held \cup {to[v]})
  BY <1>1, <1>5, CopyMade
<1>7. GoodHeap(heap') /\ Rooted(heap', held')
  BY <1>4, <1>6
<1> QED
  BY <1>7 DEF OwnInv, GoodHeap, Typed, OnePlace, NoneFreed, Rooted

LEMMA BlocksInARow ==
  ASSUME NEW n \in Nat, Room(n + 1)
  PROVE  /\ Blocks(0..n) \in [0..n -> Unused(heap)]
         /\ \A i, j \in 0..n : Blocks(0..n)[i] = Blocks(0..n)[j] => i = j
<1>1. IsFiniteSet(0..n) /\ Cardinality(0..n) = n + 1
  BY FS_Interval
<1> QED
  BY <1>1, BlocksFound

LEMMA ParseKeeps ==
  ASSUME OwnInv, NEW type \in {"object", "array"}, NEW names \in Seq(Names), NEW n \in Nat,
         IsInjective(names), Len(names) = (IF type = "object" THEN n ELSE 0),
         ParseContainer(type, names, n)
  PROVE  OwnInv'
<1> DEFINE to == Blocks(0..n)
           items == [i \in 1..n |-> to[i]]
           b == Block(type, names, items, n)
           g == [v \in Values |-> IF v = to[0] THEN b
                                  ELSE IF \E i \in 1..n : to[i] = v THEN Scalar ELSE heap[v]]
<1>1. /\ Room(n + 1) /\ CapacityFor(n) <= Limit(Block(type, names, << >>, 0))
      /\ heap' = g /\ held' = held \cup {to[0]}
  BY DEF ParseContainer
<1>2. to \in [0..n -> Unused(heap)] /\ \A i, j \in 0..n : to[i] = to[j] => i = j
  BY <1>1, BlocksInARow
<1> HIDE DEF to
<1>3. items \in Seq(Values) /\ Len(items) = n
  <2>1. \A i \in 1..n : to[i] \in Values
    BY <1>2 DEF Unused
  <2> QED
    BY <2>1
<1>4. n <= Limit(Block(type, names, << >>, 0))
  <2>1. Limit(Block(type, names, << >>, 0)) \in Nat
    BY TreeAssumption DEF Limit
  <2> QED
    BY <1>1, <2>1, CapacityEnough
<1> HIDE DEF items
<1>5. b \in BlockSet /\ Sound(b) /\ b.type = type /\ b.items = items
  <2>1. CASE type = "object"
    <3>1. n <= OBJECT_MAX_CAPACITY
      BY <1>4, <2>1 DEF Limit, Block
    <3> QED
      BY <1>3, <2>1, <3>1, ObjectMade
  <2>2. CASE type = "array"
    <3>1. n <= ARRAY_MAX_CAPACITY
      BY <1>4, <2>2 DEF Limit, Block
    <3>2. names = << >>
      BY <2>2
    <3> QED
      BY <1>3, <2>2, <3>1, <3>2, ArrayMade
  <2> QED
    BY <2>1, <2>2
<1> HIDE DEF b
<1>6. DOMAIN b.items = 1..n /\ (\A i \in 1..n : b.items[i] = to[i]) /\ b.type # "free"
  BY <1>5 DEF items
<1>7. GoodHeap(heap) /\ Rooted(heap, held)
  BY DEF OwnInv
<1>8. GoodHeap(Parsed(heap, b, n, to)) /\ Rooted(Parsed(heap, b, n, to), held \cup {to[0]})
  BY <1>2, <1>5, <1>6, <1>7, ContainerMade
<1>9. GoodHeap(heap') /\ Rooted(heap', held')
  BY <1>1, <1>8 DEF Parsed
<1> QED
  BY <1>9 DEF OwnInv, GoodHeap, Typed, OnePlace, NoneFreed, Rooted

(* What a refused entry leaves behind is in no container and has none.     *)
LEMMA ParseRefusedKeeps ==
  ASSUME OwnInv, NEW lost \in SUBSET Unused(heap), ParseRefused(lost)
  PROVE  OwnInv'
<1>1. /\ heap \in [Values -> BlockSet] /\ (\A d \in Values : Sound(heap[d]))
      /\ OnePlace(heap) /\ NoneFreed(heap) /\ Rooted(heap, held)
  BY DEF OwnInv, GoodHeap, Typed
<1>2. Scalar \in BlockSet /\ Sound(Scalar) /\ Scalar.type # "free" /\ Scalar.items = << >>
  BY EmptyBlocks
<1>3. /\ heap' = [d \in Values |-> IF d \in lost THEN Scalar ELSE heap[d]]
      /\ held' = held
  BY DEF ParseRefused
<1>4. \A d \in Values : heap'[d] = IF d \in lost THEN Scalar ELSE heap[d]
  BY <1>3
<1>5. \A d \in lost : d \in Values /\ heap[d].type = "free" /\ heap[d].items = << >>
  <2> SUFFICES ASSUME NEW d \in lost
               PROVE  d \in Values /\ heap[d].type = "free" /\ heap[d].items = << >>
    OBVIOUS
  <2>1. d \in Values /\ heap[d].type = "free"
    BY DEF Unused
  <2>2. heap[d] = Free
    BY <1>1, <2>1 DEF Sound
  <2> QED
    BY <2>1, <2>2, FreeBlock
<1>6. \A d \in Values : heap'[d].items = heap[d].items
  BY <1>2, <1>4, <1>5
<1>7. \A d \in Values : heap[d].type # "free" => heap'[d].type # "free"
  BY <1>4, <1>5
<1>8. \A d \in Values : heap'[d] \in BlockSet /\ Sound(heap'[d])
  <2> SUFFICES ASSUME NEW d \in Values PROVE heap'[d] \in BlockSet /\ Sound(heap'[d])
    OBVIOUS
  <2> QED
    BY <1>1, <1>2, <1>4
<1>9. heap' \in [Values -> BlockSet]
  BY <1>3, <1>4, <1>8
<1>10. Typed(heap')
  BY <1>8, <1>9 DEF Typed
<1>11. OnePlace(heap')
  BY <1>1, <1>6 DEF OnePlace
<1>12. NoneFreed(heap')
  <2> SUFFICES ASSUME NEW c \in Values, NEW i \in DOMAIN heap'[c].items
               PROVE  heap'[heap'[c].items[i]].type # "free"
    BY DEF NoneFreed
  <2>1. /\ i \in DOMAIN heap[c].items /\ heap[c].items[i] \in Values
        /\ heap'[c].items[i] = heap[c].items[i] /\ heap[heap[c].items[i]].type # "free"
    BY <1>1, <1>6 DEF NoneFreed, BlockSet
  <2> QED
    BY <1>7, <2>1
<1>13. Rooted(heap', held')
  BY <1>1, <1>3, <1>6, <1>7 DEF Rooted
<1> QED
  BY <1>10, <1>11, <1>12, <1>13 DEF OwnInv, GoodHeap, Typed, OnePlace, NoneFreed, Rooted

(* When the program dies there is nothing, as at first.                    *)
LEMMA DiesKeeps ==
  ASSUME DiesGrowing
  PROVE  OwnInv'
<1>1. heap' = [v \in Values |-> Free] /\ held' = {}
  BY DEF DiesGrowing
<1>2. \A v \in Values : heap'[v] = Free /\ heap'[v] \in BlockSet /\ Sound(heap'[v])
  BY <1>1, FreeBlock
<1>3. heap' \in [Values -> BlockSet]
  BY <1>1, <1>2
<1>4. \A v \in Values : DOMAIN heap'[v].items = {}
  <2>1. DOMAIN Free.items = {}
    BY FreeBlock
  <2> QED
    BY <1>2, <2>1
<1> QED
  BY <1>1, <1>2, <1>3, <1>4 DEF OwnInv, GoodHeap, Typed, OnePlace, NoneFreed, Rooted

-----------------------------------------------------------------------------
LEMMA StepKeepsOwnInv ==
  ASSUME OwnInv, [Next]_vars
  PROVE  OwnInv'
<1>1. ASSUME NEW type \in {"object", "array", "scalar"},
             json_value_init(Block(type, << >>, << >>, 0))
      PROVE  OwnInv'
  BY <1>1, ValueInitKeeps
<1>2. ASSUME NEW v \in held, FreeValue(v) PROVE OwnInv'
  BY <1>2, FreeValueKeeps
<1>3. ASSUME NEW v \in Owned, json_value_deep_copy(v) PROVE OwnInv'
  BY <1>3, CopyKeeps
<1>4. ASSUME NEW names \in {p \in Paths : IsInjective(p)},
             ParseContainer("object", names, Len(names)) \/ ParseContainer("array", << >>, Len(names))
      PROVE  OwnInv'
  <2>1. names \in Seq(Names) /\ Len(names) \in Nat /\ IsInjective(names)
    BY PathHasNames
  <2>2. CASE ParseContainer("object", names, Len(names))
    BY <2>1, <2>2, ParseKeeps
  <2>3. CASE ParseContainer("array", << >>, Len(names))
    <3> DEFINE none == << >>
    <3>1. none \in Seq(Names) /\ IsInjective(none) /\ Len(none) = 0
      BY DEF IsInjective
    <3> HIDE DEF none
    <3>2. ParseContainer("array", none, Len(names))
      BY <2>3 DEF none
    <3> QED
      BY <2>1, <3>1, <3>2, ParseKeeps
  <2> QED
    BY <1>4, <2>2, <2>3
<1>5. ASSUME NEW lost \in SUBSET Unused(heap), ParseRefused(lost) PROVE OwnInv'
  BY <1>5, ParseRefusedKeeps
<1>6. CASE ObjectCalls
  <2>0. Memory \subseteq Int
    BY MemoryIsCounted
  <2>1. PICK o \in Of("object"), mem \in Memory :
          \/ \E path \in Paths, v \in Loose(o) : SetValue(o, path, v, mem)
          \/ \E n \in Names : json_object_set_scalar(o, n, mem)
          \/ \E path \in Paths : json_object_dotset_scalar(o, path, mem)
          \/ \E path \in Paths : json_object_dotremove(o, path)
          \/ json_clear(o)
    BY <1>6 DEF ObjectCalls
  <2>2. CASE \E path \in Paths, v \in Loose(o) : SetValue(o, path, v, mem)
    BY <2>0, <2>2, SetValueKeeps
  <2>3. CASE \E n \in Names : json_object_set_scalar(o, n, mem)
    BY <2>0, <2>3, SetScalarKeeps
  <2>4. CASE \E path \in Paths : json_object_dotset_scalar(o, path, mem)
    BY <2>0, <2>4, DotsetScalarKeeps
  <2>5. CASE \E path \in Paths : json_object_dotremove(o, path)
    BY <2>5, DotremoveKeeps
  <2>6. CASE json_clear(o)
    BY <2>6, ClearKeeps, OwnedValues
  <2> QED
    BY <2>1, <2>2, <2>3, <2>4, <2>5, <2>6
<1>7. CASE ArrayCalls
  <2>0. Memory \subseteq Int
    BY MemoryIsCounted
  <2>1. PICK a \in Of("array") :
          \/ \E v \in Loose(a), mem \in Memory : json_array_append_value(a, v, mem)
          \/ \E mem \in Memory : json_array_append_scalar(a, mem)
          \/ \E i \in DOMAIN heap[a].items :
               \/ json_array_remove(a, i)
               \/ json_array_replace_scalar(a, i)
               \/ \E v \in Loose(a) : json_array_replace_value(a, i, v)
          \/ json_clear(a)
    BY <1>7 DEF ArrayCalls
  <2>2. CASE \E v \in Loose(a), mem \in Memory : json_array_append_value(a, v, mem)
    BY <2>0, <2>2, AppendValueKeeps
  <2>3. CASE \E mem \in Memory : json_array_append_scalar(a, mem)
    BY <2>0, <2>3, AppendScalarKeeps
  <2>4. ASSUME NEW i \in DOMAIN heap[a].items, json_array_remove(a, i) PROVE OwnInv'
    <3>1. a \in Below(heap, held) /\ heap[a].type = "array"
      BY OwnedValues
    <3> QED
      BY <2>4, <3>1, RemoveKeeps DEF json_array_remove
  <2>5. ASSUME NEW i \in DOMAIN heap[a].items, json_array_replace_scalar(a, i) PROVE OwnInv'
    BY <2>5, ReplaceScalarKeeps
  <2>6. ASSUME NEW i \in DOMAIN heap[a].items, NEW v \in Loose(a), json_array_replace_value(a, i, v)
        PROVE  OwnInv'
    BY <2>6, ReplaceValueKeeps
  <2>7. CASE json_clear(a)
    BY <2>7, ClearKeeps, OwnedValues
  <2> QED
    BY <2>1, <2>2, <2>3, <2>4, <2>5, <2>6, <2>7
<1>8. CASE DiesGrowing
  BY <1>8, DiesKeeps
<1>9. CASE UNCHANGED vars
  BY <1>9 DEF vars, OwnInv, GoodHeap, Typed, OnePlace, NoneFreed, Rooted
<1> QED
  BY <1>1, <1>2, <1>3, <1>4, <1>5, <1>6, <1>7, <1>8, <1>9 DEF Next

LEMMA AlwaysOwnInv == Spec => []OwnInv
<1>1. Init => OwnInv
  BY InitOwns
<1>2. OwnInv /\ [Next]_vars => OwnInv'
  BY StepKeepsOwnInv
<1> QED
  BY <1>1, <1>2, PTL DEF Spec

(* However a program calls parson.c, an object's names stay distinct and   *)
(* as many as its values, and no container outgrows its places or its      *)
(* limit: a refused add, a removal that moves the last entry, the objects  *)
(* made along a dotted name and a parsed document included.                *)
THEOREM TypeCorrect == Spec => []TypeOK
<1>1. OwnInv => TypeOK
  BY OwnInvMeansTypeOK
<1> QED
  BY <1>1, AlwaysOwnInv, PTL

(* However a program calls parson.c, no container holds a value that was   *)
(* freed, no value is in two places, and none that the program owns is in  *)
(* a container: no later call frees a value twice or uses a freed one.     *)
THEOREM EveryValueHasOneOwner == Spec => []OneOwner
<1>1. OwnInv => OneOwner
  BY OwnInvMeansOneOwner
<1> QED
  BY <1>1, AlwaysOwnInv, PTL

===============================================================================
