---------------------------- MODULE JsonCallProofs ----------------------------
(***************************************************************************)
(* What the calls of parson.c keep.                                        *)
(*                                                                         *)
(* Nothing is lost: what a program made it can free, as it is down from a  *)
(* value the program owns.  Two calls are an exception.  A call is         *)
(* followed from heap to heap.  One step of it keeps what there was, if    *)
(* all that was down from a root and is not freed still is down from one,  *)
(* and all that is new is, too.                                            *)
(*                                                                         *)
(* What is set under a dotted name is found there, and nothing else that   *)
(* dotted names lead to changes.  A heap goes on from another if all that  *)
(* was found is found; where an entry is replaced, only the names that go  *)
(* through it lead elsewhere, as there is one way to a place.              *)
(***************************************************************************)
EXTENDS JsonProofs

Kept(h, S, g, T) ==
  \A d \in Values :
    (g[d].type # "free" /\ (h[d].type = "free" \/ d \in Below(h, S))) => d \in Below(g, T)

LEMMA KeptOn ==
  ASSUME NEW h, NEW S, NEW g, NEW T, NEW k, NEW U, Kept(h, S, g, T), Kept(g, T, k, U)
  PROVE  Kept(h, S, k, U)
BY DEF Kept

-----------------------------------------------------------------------------
(* What is down from some values is the least set that has them and with a *)
(* value its entries.                                                      *)
LEMMA RootIsBelow ==
  ASSUME NEW h, NEW S, NEW r \in S, r \in Values
  PROVE  r \in Below(h, S)
<1>1. r \in Levels(h, r)[0]
  BY LevelsStep
<1> QED
  BY <1>1 DEF Below

LEMMA BelowIsLeast ==
  ASSUME NEW h \in [Values -> BlockSet], NEW S \in SUBSET Values, NEW Z, S \subseteq Z,
         \A c \in Values : c \in Z => Items(h, c) \subseteq Z
  PROVE  Below(h, S) \subseteq Z
<1> SUFFICES ASSUME NEW r \in S PROVE \A n \in Nat : Levels(h, r)[n] \subseteq Z
  BY DEF Below
<1> DEFINE T == {n \in Nat : Levels(h, r)[n] \subseteq Z}
<1>1. 0 \in T
  BY LevelsStep
<1>2. ASSUME NEW n \in Nat, n \in T PROVE n + 1 \in T
  <2>1. Levels(h, r)[n + 1] = Levels(h, r)[n] \cup UNION {Items(h, w) : w \in Levels(h, r)[n]}
    BY LevelsStep
  <2>2. \A w \in Levels(h, r)[n] : w \in Values /\ w \in Z
    BY <1>2, LevelsBelow
  <2>3. Levels(h, r)[n + 1] \subseteq Z
    BY <2>1, <2>2
  <2> QED
    BY <2>3
<1> HIDE DEF T
<1>3. Nat \subseteq T
  BY <1>1, <1>2, Induct
<1> QED
  BY <1>3 DEF T

(* Entries are values. *)
LEMMA EntriesAreValues ==
  ASSUME NEW h \in [Values -> BlockSet], NEW c \in Values
  PROVE  Items(h, c) \subseteq Values
<1>1. h[c].items \in Seq(Values)
  BY DEF BlockSet
<1> QED
  BY <1>1 DEF Items

(* More roots, or more entries, and more is down from them. *)
LEMMA BelowGrows ==
  ASSUME NEW h \in [Values -> BlockSet], NEW g \in [Values -> BlockSet],
         NEW S \in SUBSET Values, NEW T \in SUBSET Values, S \subseteq T,
         \A c \in Values : Items(h, c) \subseteq Items(g, c)
  PROVE  Below(h, S) \subseteq Below(g, T)
<1> DEFINE Z == Below(g, T)
<1>1. S \subseteq Z
  BY RootIsBelow
<1>2. \A c \in Values : c \in Z => Items(h, c) \subseteq Z
  BY EntriesAreValues, BelowGoesOn
<1> HIDE DEF Z
<1>3. Below(h, S) \subseteq Z
  BY <1>1, <1>2, BelowIsLeast
<1> QED
  BY <1>3 DEF Z

(* What the program owns is what is down from its values. *)
LEMMA OwnedIsAllBelow ==
  ASSUME OwnInv
  PROVE  Owned = Below(heap, held)
<1>1. heap \in [Values -> BlockSet] /\ held \subseteq Values
  BY DEF OwnInv, GoodHeap, Typed, Rooted
<1>2. \A r \in held : r \in Within(heap, r)
  BY <1>1, WithinBelow
<1>3. held \subseteq Owned
  BY <1>2 DEF Owned
<1>4. \A c \in Values : c \in Owned => Items(heap, c) \subseteq Owned
  BY <1>1, WithinIsClosed DEF Owned
<1>5. Below(heap, held) \subseteq Owned
  BY <1>1, <1>3, <1>4, BelowIsLeast
<1> QED
  BY <1>5, OwnedIsBelow

-----------------------------------------------------------------------------
(* Where a part W of a heap goes, that holds all that is in it, and the     *)
(* rest keeps its entries, or has more, all else is where it was.           *)
LEMMA Pruned ==
  ASSUME NEW h \in [Values -> BlockSet], NEW g \in [Values -> BlockSet],
         NEW S \in SUBSET Values, NEW T \in SUBSET Values, NEW W, S \subseteq W \cup T,
         \A c \in Values : c \in W => Items(h, c) \subseteq W,
         \A c \in Values : c \notin W => Items(h, c) \subseteq W \cup Items(g, c)
  PROVE  Below(h, S) \subseteq W \cup Below(g, T)
<1> DEFINE Z == W \cup Below(g, T)
<1>1. S \subseteq Z
  BY RootIsBelow
<1>2. ASSUME NEW c \in Values, c \in Z, NEW x \in Items(h, c) PROVE x \in Z
  <2>1. CASE c \in W
    BY <1>2, <2>1
  <2>2. CASE c \notin W
    <3>1. c \in Below(g, T) /\ x \in Values
      BY <1>2, <2>2, EntriesAreValues
    <3>2. x \in W \/ x \in Items(g, c)
      BY <1>2, <2>2
    <3> QED
      BY <3>1, <3>2, BelowGoesOn
  <2> QED
    BY <2>1, <2>2
<1> HIDE DEF Z
<1>3. Below(h, S) \subseteq Z
  BY <1>1, <1>2, BelowIsLeast
<1> QED
  BY <1>3 DEF Z

LEMMA WithinGoesOn ==
  ASSUME NEW h \in [Values -> BlockSet], NEW v \in Values
  PROVE  \A c \in Values : c \in Within(h, v) => Items(h, c) \subseteq Within(h, v)
BY WithinIsClosed

(* A root is freed. *)
LEMMA FreeKeepsRest ==
  ASSUME NEW h, GoodHeap(h), NEW S, Rooted(h, S), NEW v \in S
  PROVE  Kept(h, S, json_value_free(h, v), S \ {v})
<1> DEFINE W == Within(h, v)
           g == json_value_free(h, v)
           T == S \ {v}
<1>1. Typed(h) /\ h \in [Values -> BlockSet] /\ S \in SUBSET Values /\ T \in SUBSET Values /\ v \in Values
  BY DEF GoodHeap, Typed, Rooted
<1>2. /\ \A w \in Values : g[w] = IF w \in W THEN Free ELSE h[w]
      /\ g \in [Values -> BlockSet]
  BY <1>1, Freed DEF Typed
<1>3. v \in W /\ S \subseteq W \cup T
  BY <1>1, WithinBelow
<1>4. \A c \in Values : c \in W => Items(h, c) \subseteq W
  BY <1>1, WithinGoesOn
<1> HIDE DEF W, g, T
<1>5. \A c \in Values : c \notin W => Items(h, c) \subseteq W \cup Items(g, c)
  BY <1>2 DEF Items
<1>6. Below(h, S) \subseteq W \cup Below(g, T)
  BY <1>1, <1>2, <1>3, <1>4, <1>5, Pruned
<1>7. Free.type = "free"
  BY FreeBlock
<1>8. Kept(h, S, g, T)
  BY <1>2, <1>6, <1>7 DEF Kept
<1> QED
  BY <1>8 DEF g, T

(* A root becomes an entry of what is down from another. *)
LEMMA EnteredKeeps ==
  ASSUME NEW h, GoodHeap(h), NEW S, Rooted(h, S), NEW v \in S, NEW c \in Below(h, S \ {v}),
         NEW b \in BlockSet, b.type = h[c].type, b.items = Append(h[c].items, v)
  PROVE  LET g == [h EXCEPT ![c] = b]
         IN  /\ Kept(h, S, g, S \ {v})
             /\ v \in Below(g, S \ {v})
<1> DEFINE g == [h EXCEPT ![c] = b]
           T == S \ {v}
<1>1. /\ h \in [Values -> BlockSet] /\ S \in SUBSET Values /\ T \in SUBSET Values
      /\ v \in Values /\ c \in Values
  BY DEF GoodHeap, Typed, Rooted, Below
<1>2. g \in [Values -> BlockSet] /\ \A d \in Values : g[d] = IF d = c THEN b ELSE h[d]
  BY <1>1
<1> HIDE DEF g, T
<1>3. h[c].items \in Seq(Values)
  BY <1>1 DEF BlockSet
<1>4. /\ \A i \in DOMAIN h[c].items : i \in DOMAIN b.items /\ b.items[i] = h[c].items[i]
      /\ Len(b.items) \in DOMAIN b.items /\ b.items[Len(b.items)] = v
  BY <1>1, <1>3
<1>5. \A d \in Values : Items(h, d) \subseteq Items(g, d)
  BY <1>2, <1>4 DEF Items
<1>6. v \in Items(g, c)
  BY <1>1, <1>2, <1>4 DEF Items
<1>7. Below(h, T) \subseteq Below(g, T)
  BY <1>1, <1>2, <1>5, BelowGrows
<1>8. v \in Below(g, T)
  <2>1. c \in Below(g, T)
    BY <1>7 DEF T
  <2> QED
    BY <1>1, <1>6, <2>1, BelowGoesOn
<1>9. Below(h, S) \subseteq Below(g, T)
  <2> DEFINE Z == Below(g, T)
  <2>1. S \subseteq Z
    BY <1>1, <1>8, RootIsBelow DEF T
  <2>2. \A d \in Values : d \in Z => Items(h, d) \subseteq Z
    BY <1>1, <1>2, <1>5, EntriesAreValues, BelowGoesOn
  <2> HIDE DEF Z
  <2>3. Below(h, S) \subseteq Z
    BY <1>1, <2>1, <2>2, BelowIsLeast
  <2> QED
    BY <2>3 DEF Z
<1>10. Kept(h, S, g, T)
  BY <1>1, <1>2, <1>9 DEF Kept
<1> QED
  BY <1>8, <1>10 DEF g, T

(* The blocks hold the same, and are free as before. *)
LEMMA SameItemsKeep ==
  ASSUME NEW h \in [Values -> BlockSet], NEW g \in [Values -> BlockSet], NEW S \in SUBSET Values,
         \A d \in Values : g[d].items = h[d].items /\ (g[d].type = "free" <=> h[d].type = "free")
  PROVE  Kept(h, S, g, S)
<1>1. \A d \in Values : Items(h, d) \subseteq Items(g, d)
  BY DEF Items
<1>2. Below(h, S) \subseteq Below(g, S)
  BY <1>1, BelowGrows
<1> QED
  BY <1>2 DEF Kept

-----------------------------------------------------------------------------
(* What the calls that add make of a heap: the blocks with the entries     *)
(* they had, or one of them with an entry more.                            *)
Refuses(r, h) ==
  /\ r.ok = FALSE /\ r.heap \in [Values -> BlockSet]
  /\ \A d \in Values : /\ r.heap[d].items = h[d].items
                       /\ r.heap[d].names = h[d].names
                       /\ r.heap[d].type = h[d].type

Adds(r, h, c, v) ==
  /\ r.ok = TRUE /\ r.heap[c] \in BlockSet /\ r.heap = [h EXCEPT ![c] = r.heap[c]]
  /\ r.heap[c].type = h[c].type
  /\ r.heap[c].items = Append(h[c].items, v)

LEMMA ObjectAddsOrRefuses ==
  ASSUME NEW h, Typed(h), NEW v \in Values,
         NEW o \in Values, h[o].type = "object", NEW n \in Names, NEW mem \in Int
  PROVE  LET r == json_object_add(h, o, n, v, mem)
         IN  \/ Refuses(r, h)
             \/ /\ Adds(r, h, o, v)
                /\ Place(h, o, n) = 0
                /\ r.heap[o].names = Append(h[o].names, n)
<1> DEFINE b == h[o]
           r == json_object_add(h, o, n, v, mem)
           wide == Block(b.type, b.names, b.items, Grown(b))
           full == Block("object", Append(b.names, n), Append(b.items, v), Grown(b))
<1>1. h \in [Values -> BlockSet] /\ b \in BlockSet /\ Sound(b) /\ b.type = "object"
  BY DEF Typed
<1>2. b.names \in Seq(Names) /\ b.items \in Seq(Values)
  BY <1>1 DEF BlockSet
<1>3. CASE NoPlace(b, mem)
  <2>1. r = Fails(h)
    BY <1>3 DEF json_object_add
  <2>2. r.ok = FALSE /\ r.heap = h
    BY <2>1 DEF Fails
  <2> HIDE DEF r
  <2>3. Refuses(r, h)
    BY <1>1, <2>2 DEF Refuses
  <2> QED
    BY <2>3 DEF r
<1>4. CASE ~ NoPlace(b, mem)
  <2>1. Grown(b) \in Nat
    BY <1>1, <1>4, GrownFits
  <2>2. CASE Place(h, o, n) # 0 \/ mem < 2
    <3>1. r = Fails([h EXCEPT ![o].capacity = Grown(b)])
      BY <1>4, <2>2 DEF json_object_add
    <3>2. r.heap = [h EXCEPT ![o].capacity = Grown(b)] /\ r.ok = FALSE
      BY <3>1 DEF Fails
    <3>3. [b EXCEPT !.capacity = Grown(b)] = wide
      BY <1>1, Widened
    <3>4. r.heap = [h EXCEPT ![o] = wide]
      BY <1>1, <3>2, <3>3
    <3>5. wide = [type |-> b.type, names |-> b.names, items |-> b.items, capacity |-> Grown(b)]
      BY DEF Block
    <3> HIDE DEF wide, r
    <3>6. wide \in BlockSet /\ wide.items = b.items /\ wide.names = b.names /\ wide.type = b.type
      BY <1>1, <1>2, <2>1, <3>5 DEF BlockSet
    <3>7. r.heap \in [Values -> BlockSet]
      BY <1>1, <3>4, <3>6
    <3>8. \A d \in Values : r.heap[d] = IF d = o THEN wide ELSE h[d]
      BY <1>1, <3>4
    <3>9. Refuses(r, h)
      BY <3>2, <3>6, <3>7, <3>8 DEF Refuses
    <3> QED
      BY <3>9 DEF r
  <2>3. CASE ~ (Place(h, o, n) # 0 \/ mem < 2)
    <3>1. r = Done([h EXCEPT ![o] = full])
      BY <1>4, <2>3 DEF json_object_add
    <3>2. r.heap = [h EXCEPT ![o] = full] /\ r.ok = TRUE
      BY <3>1 DEF Done
    <3>3. full = [type |-> "object", names |-> Append(b.names, n), items |-> Append(b.items, v),
                  capacity |-> Grown(b)]
      BY DEF Block
    <3> HIDE DEF full, r
    <3>4. /\ full \in BlockSet /\ full.items = Append(b.items, v)
          /\ full.names = Append(b.names, n) /\ full.type = "object"
      BY <1>2, <2>1, <3>3 DEF BlockSet
    <3>5. r.heap[o] = full
      BY <1>1, <3>2
    <3>6. Adds(r, h, o, v) /\ r.heap[o].names = Append(h[o].names, n)
      BY <1>1, <3>2, <3>4, <3>5 DEF Adds
    <3> QED
      BY <2>3, <3>6 DEF r
  <2> QED
    BY <2>2, <2>3
<1> QED
  BY <1>3, <1>4

LEMMA ArrayAddsOrRefuses ==
  ASSUME NEW h, Typed(h), NEW v \in Values,
         NEW a \in Values, h[a].type = "array", NEW mem \in Int
  PROVE  LET r == json_array_add(h, a, v, mem) IN Refuses(r, h) \/ Adds(r, h, a, v)
<1> DEFINE b == h[a]
           none == << >>
           r == json_array_add(h, a, v, mem)
           full == Block("array", none, Append(b.items, v), Grown(b))
<1>1. h \in [Values -> BlockSet] /\ b \in BlockSet /\ Sound(b) /\ b.type = "array"
  BY DEF Typed
<1>2. b.items \in Seq(Values)
  BY <1>1 DEF BlockSet
<1>3. CASE NoPlace(b, mem)
  <2>1. r = Fails(h)
    BY <1>3 DEF json_array_add
  <2>2. r.ok = FALSE /\ r.heap = h
    BY <2>1 DEF Fails
  <2> HIDE DEF r
  <2>3. Refuses(r, h)
    BY <1>1, <2>2 DEF Refuses
  <2> QED
    BY <2>3 DEF r
<1>4. CASE ~ NoPlace(b, mem)
  <2>1. Grown(b) \in Nat
    BY <1>1, <1>4, GrownFits
  <2>2. r = Done([h EXCEPT ![a] = full])
    BY <1>4 DEF json_array_add
  <2>3. r.heap = [h EXCEPT ![a] = full] /\ r.ok = TRUE
    BY <2>2 DEF Done
  <2>4. none \in Seq(Names)
    OBVIOUS
  <2>5. full = [type |-> "array", names |-> none, items |-> Append(b.items, v), capacity |-> Grown(b)]
    BY DEF Block
  <2> HIDE DEF full, r, none
  <2>6. full \in BlockSet /\ full.items = Append(b.items, v) /\ full.type = "array"
    BY <1>2, <2>1, <2>4, <2>5 DEF BlockSet
  <2>7. r.heap[a] = full
    BY <1>1, <2>3
  <2>8. Adds(r, h, a, v)
    BY <1>1, <2>3, <2>6, <2>7 DEF Adds
  <2> QED
    BY <2>8 DEF r
<1> QED
  BY <1>3, <1>4

(* What was taken is down from another root, what was refused is a root.   *)
Yields(r, h, S, v) ==
  /\ Kept(h, S, r.heap, IF r.ok THEN S \ {v} ELSE S)
  /\ r.ok => v \in Below(r.heap, S \ {v})

LEMMA AddsYields ==
  ASSUME NEW h, GoodHeap(h), NEW S, Rooted(h, S), NEW v \in S, NEW c \in Below(h, S \ {v}),
         NEW r, Refuses(r, h) \/ Adds(r, h, c, v)
  PROVE  Yields(r, h, S, v)
<1>1. h \in [Values -> BlockSet] /\ S \in SUBSET Values
  BY DEF GoodHeap, Typed, Rooted
<1>2. CASE Refuses(r, h)
  <2>1. Kept(h, S, r.heap, S)
    BY <1>1, <1>2, SameItemsKeep DEF Refuses
  <2> QED
    BY <1>2, <2>1 DEF Refuses, Yields
<1>3. CASE Adds(r, h, c, v)
  <2> DEFINE b == r.heap[c]
             g == [h EXCEPT ![c] = b]
  <2>1. b \in BlockSet /\ b.type = h[c].type /\ b.items = Append(h[c].items, v)
    BY <1>3 DEF Adds
  <2>2. r.heap = g /\ r.ok = TRUE
    BY <1>3 DEF Adds
  <2> HIDE DEF b
  <2>3. Kept(h, S, g, S \ {v}) /\ v \in Below(g, S \ {v})
    BY <2>1, EnteredKeeps
  <2> QED
    BY <2>2, <2>3 DEF Yields
<1> QED
  BY <1>2, <1>3

-----------------------------------------------------------------------------
(* An entry of a container that is down from a root is freed, and another   *)
(* root put in its place.                                                  *)
LEMMA ReplacedYields ==
  ASSUME NEW h, GoodHeap(h), NEW S, Rooted(h, S), NEW v \in S, NEW c \in Below(h, S \ {v}),
         NEW i \in DOMAIN h[c].items,
         NEW r, r.ok = TRUE,
         r.heap = [json_value_free(h, h[c].items[i]) EXCEPT ![c].items[i] = v]
  PROVE  Yields(r, h, S, v)
<1> DEFINE x == h[c].items[i]
           W == Within(h, x)
           f == json_value_free(h, x)
           b == [h[c] EXCEPT !.items[i] = v]
           g == r.heap
           T == S \ {v}
<1>1. /\ Typed(h) /\ h \in [Values -> BlockSet] /\ S \in SUBSET Values /\ T \in SUBSET Values
      /\ v \in Values /\ c \in Values /\ Sound(h[c]) /\ h[c] \in BlockSet
  BY DEF GoodHeap, Typed, Rooted, Below
<1>2. x \in Values
  <2>1. h[c].items \in Seq(Values)
    BY <1>1 DEF BlockSet
  <2> QED
    BY <2>1
<1>3. Rooted(h, T)
  BY FewerRoots
<1>4. c \notin W
  <2>1. c \in Below(h, T)
    OBVIOUS
  <2> HIDE DEF T
  <2> QED
    BY <1>3, <2>1, NotInsideItself
<1>5. /\ \A w \in Values : f[w] = IF w \in W THEN Free ELSE h[w]
      /\ f \in [Values -> BlockSet]
  BY <1>1, <1>2, Freed DEF Typed
<1>6. /\ b \in BlockSet /\ b.type = h[c].type /\ DOMAIN b.items = DOMAIN h[c].items
      /\ \A j \in DOMAIN h[c].items : b.items[j] = IF j = i THEN v ELSE h[c].items[j]
  <2>1. h[c] \in BlockSet /\ Sound(h[c]) /\ v \in Values
    BY <1>1
  <2>2. b = [h[c] EXCEPT !.items[i] = v]
    OBVIOUS
  <2> HIDE DEF b
  <2>3. /\ b \in BlockSet /\ Sound(b) /\ b.type = h[c].type /\ DOMAIN b.items = DOMAIN h[c].items
        /\ \A j \in DOMAIN h[c].items : b.items[j] = IF j = i THEN v ELSE h[c].items[j]
    BY <2>1, <2>2, EntryReplaced
  <2> QED
    BY <2>3
<1>7. /\ g \in [Values -> BlockSet]
      /\ \A d \in Values : g[d] = IF d = c THEN b ELSE f[d]
  <2>1. f[c] = h[c]
    BY <1>1, <1>4, <1>5
  <2>2. g = [f EXCEPT ![c] = b]
    <3>1. g = [f EXCEPT ![c] = [f[c] EXCEPT !.items[i] = v]]
      OBVIOUS
    <3> QED
      BY <2>1, <3>1
  <2> HIDE DEF b, f, g
  <2> QED
    BY <1>1, <1>5, <1>6, <2>2
<1> HIDE DEF f, b, g, W
<1>8. \A d \in Values : d \in W => Items(h, d) \subseteq W
  BY <1>1, <1>2, WithinGoesOn DEF W
<1>9. \A d \in Values : d \notin W => Items(h, d) \subseteq W \cup Items(g, d)
  <2> SUFFICES ASSUME NEW d \in Values, d \notin W, NEW j \in DOMAIN h[d].items
               PROVE  h[d].items[j] \in W \cup Items(g, d)
    BY DEF Items
  <2>1. CASE d # c
    BY <1>5, <1>7, <2>1 DEF Items
  <2>2. CASE d = c /\ j # i
    BY <1>6, <1>7, <2>2 DEF Items
  <2>3. CASE d = c /\ j = i
    BY <1>1, <1>2, <2>3, WithinBelow DEF W
  <2> QED
    BY <2>1, <2>2, <2>3
<1>10. v \in Items(g, c)
  BY <1>1, <1>6, <1>7 DEF Items
<1>11. Below(h, T) \subseteq W \cup Below(g, T)
  <2>1. T \subseteq W \cup T
    OBVIOUS
  <2> HIDE DEF T
  <2> QED
    BY <1>1, <1>7, <1>8, <1>9, <2>1, Pruned
<1>12. v \in Below(g, T)
  <2>1. c \in Below(g, T)
    BY <1>4, <1>11
  <2> QED
    BY <1>1, <1>10, <2>1, BelowGoesOn
<1>13. Below(h, S) \subseteq W \cup Below(g, T)
  <2> DEFINE Z == W \cup Below(g, T)
  <2>1. S \subseteq Z
    BY <1>1, <1>12, RootIsBelow
  <2>2. ASSUME NEW d \in Values, d \in Z, NEW y \in Items(h, d) PROVE y \in Z
    <3>1. y \in Values
      BY <1>1, EntriesAreValues
    <3> QED
      BY <1>8, <1>9, <2>2, <3>1, BelowGoesOn
  <2> HIDE DEF Z, T
  <2>3. Below(h, S) \subseteq Z
    BY <1>1, <2>1, <2>2, BelowIsLeast
  <2> QED
    BY <2>3 DEF Z
<1>14. \A d \in Values : g[d].type # "free" => d \notin W /\ h[d].type # "free"
  <2>1. Free.type = "free"
    BY FreeBlock
  <2> QED
    BY <1>4, <1>5, <1>6, <1>7, <2>1
<1>15. Kept(h, S, g, T)
  BY <1>13, <1>14 DEF Kept
<1> QED
  BY <1>12, <1>15 DEF Yields, g

(* An entry is taken out of a container that is down from a root. *)
LEMMA RemovedKeeps ==
  ASSUME NEW h, GoodHeap(h), NEW S, Rooted(h, S), NEW c \in Below(h, S),
         NEW i \in DOMAIN h[c].items
  PROVE  Kept(h, S, Removed(h, c, i), S)
<1> DEFINE x == h[c].items[i]
           W == Within(h, x)
           f == json_value_free(h, x)
           its == Swapped(h[c].items, i)
           ns == IF h[c].type = "object" THEN Swapped(h[c].names, i) ELSE << >>
           g == Removed(h, c, i)
<1>1. /\ Typed(h) /\ h \in [Values -> BlockSet] /\ S \in SUBSET Values
      /\ c \in Values /\ h[c].items \in Seq(Values)
  BY DEF GoodHeap, Typed, Rooted, Below, BlockSet
<1>2. x \in Values
  BY <1>1
<1>3. c \notin W
  BY NotInsideItself
<1>4. /\ \A w \in Values : f[w] = IF w \in W THEN Free ELSE h[w]
      /\ f \in [Values -> BlockSet]
  BY <1>1, <1>2, Freed DEF Typed
<1>5. g = [f EXCEPT ![c].items = its, ![c].names = ns]
  BY DEF Removed
<1> HIDE DEF W, f, its, ns, g
<1>6. \A d \in Values : /\ g[d].type = f[d].type
                        /\ g[d].items = IF d = c THEN its ELSE f[d].items
  <2>1. f[c] \in BlockSet
    BY <1>1, <1>4
  <2>2. \A d \in Values :
          g[d] = IF d = c THEN [[f[c] EXCEPT !.items = its] EXCEPT !.names = ns] ELSE f[d]
    BY <1>4, <1>5
  <2>3. [[f[c] EXCEPT !.items = its] EXCEPT !.names = ns] = Block(f[c].type, ns, its, f[c].capacity)
    BY <2>1, Rewritten
  <2> QED
    BY <2>2, <2>3 DEF Block
<1>7. \A d \in Values : d \in W => Items(h, d) \subseteq W
  BY <1>1, <1>2, WithinGoesOn DEF W
<1>8. \A j \in DOMAIN h[c].items : j # i => \E k \in DOMAIN its : its[k] = h[c].items[j]
  <2> DEFINE s == h[c].items
             n == Len(s)
  <2>1. s \in Seq(Values) /\ n \in Nat /\ DOMAIN s = 1..n /\ i \in 1..n
    BY <1>1
  <2>2. its = [k \in 1 .. n - 1 |-> IF k = i THEN s[n] ELSE s[k]]
    BY DEF its, Swapped, Last
  <2> HIDE DEF s, n
  <2>3. ASSUME NEW j \in 1..n, j # i PROVE \E k \in DOMAIN its : its[k] = s[j]
    <3>1. CASE j = n
      <4>1. i \in 1 .. n - 1
        BY <2>1, <2>3, <3>1
      <4>2. i \in DOMAIN its /\ its[i] = s[j]
        BY <2>2, <3>1, <4>1
      <4> QED
        BY <4>2
    <3>2. CASE j # n
      <4>1. j \in 1 .. n - 1
        BY <2>1, <3>2
      <4>2. j \in DOMAIN its /\ its[j] = s[j]
        BY <2>2, <2>3, <4>1
      <4> QED
        BY <4>2
    <3> QED
      BY <3>1, <3>2
  <2> QED
    BY <2>1, <2>3 DEF s
<1>9. \A d \in Values : d \notin W => Items(h, d) \subseteq W \cup {g[d].items[k] : k \in DOMAIN g[d].items}
  <2> SUFFICES ASSUME NEW d \in Values, d \notin W, NEW j \in DOMAIN h[d].items
               PROVE  h[d].items[j] \in W \/ \E k \in DOMAIN g[d].items : g[d].items[k] = h[d].items[j]
    BY DEF Items
  <2>1. CASE d # c
    BY <1>4, <1>6, <2>1
  <2>2. CASE d = c /\ j # i
    BY <1>6, <1>8, <2>2
  <2>3. CASE d = c /\ j = i
    BY <1>1, <1>2, <2>3, WithinBelow DEF W
  <2> QED
    BY <2>1, <2>2, <2>3
<1>10. \A d \in Values : g[d].type # "free" => d \notin W /\ h[d].type # "free"
  <2>1. Free.type = "free"
    BY FreeBlock
  <2> QED
    BY <1>4, <1>6, <2>1
<1>11. \A d \in Values : d \notin W => Items(h, d) \subseteq W \cup Items(g, d)
  BY <1>9 DEF Items
<1>12. Below(h, S) \subseteq W \cup Below(g, S)
  <2> DEFINE Z == W \cup Below(g, S)
  <2>1. S \subseteq Z
    BY <1>1, RootIsBelow
  <2>2. ASSUME NEW d \in Values, d \in Z, NEW y \in Items(h, d) PROVE y \in Z
    <3>1. y \in Values
      BY <1>1, EntriesAreValues
    <3> QED
      BY <1>7, <1>11, <2>2, <3>1, BelowGoesOn
  <2> HIDE DEF Z
  <2>3. Below(h, S) \subseteq Z
    BY <1>1, <2>1, <2>2, BelowIsLeast
  <2> QED
    BY <2>3 DEF Z
<1>13. Kept(h, S, g, S)
  BY <1>10, <1>12 DEF Kept
<1> QED
  BY <1>13 DEF g

(* A container that is down from a root is emptied. *)
LEMMA ClearedKeeps ==
  ASSUME NEW h, GoodHeap(h), NEW S, Rooted(h, S), NEW c \in Below(h, S)
  PROVE  Kept(h, S, Cleared(h, c), S)
<1> DEFINE W == Within(h, c) \ {c}
           g == Cleared(h, c)
<1>1. /\ h \in [Values -> BlockSet] /\ S \in SUBSET Values /\ c \in Values
  BY DEF GoodHeap, Typed, Rooted, Below
<1>2. \A d \in Values : g[d] = IF d = c THEN [h[c] EXCEPT !.names = << >>, !.items = << >>]
                               ELSE IF d \in W THEN Free ELSE h[d]
  BY DEF Cleared
<1> HIDE DEF g
<1>3. \A d \in Values : d \in Within(h, c) => Items(h, d) \subseteq W
  BY <1>1, WithinGoesOn, NoEntryInItself DEF Items
<1>4. c \in Within(h, c)
  BY <1>1, WithinBelow
<1> HIDE DEF W
<1>5. \A d \in Values : d \notin W => Items(h, d) \subseteq W \cup Items(g, d)
  <2> TAKE d \in Values
  <2>1. CASE d = c
    BY <1>3, <1>4, <2>1
  <2>2. CASE d # c /\ d \notin W
    BY <1>2, <2>2 DEF Items
  <2> QED
    BY <2>1, <2>2
<1>6. \A d \in Values : g[d].type # "free" => d \notin W /\ h[d].type # "free"
  <2> TAKE d \in Values
  <2>1. CASE d = c
    <3>1. g[c].type = h[c].type
      BY <1>1, <1>2 DEF BlockSet
    <3> QED
      BY <2>1, <3>1 DEF W
  <2>2. CASE d # c
    <3>1. Free.type = "free"
      BY FreeBlock
    <3> QED
      BY <1>2, <2>2, <3>1
  <2> QED
    BY <2>1, <2>2
<1>7. Below(h, S) \subseteq W \cup Below(g, S)
  <2> DEFINE Z == W \cup Below(g, S)
  <2>1. S \subseteq Z
    BY <1>1, RootIsBelow
  <2>2. ASSUME NEW d \in Values, d \in Z, NEW y \in Items(h, d) PROVE y \in Z
    <3>1. y \in Values
      BY <1>1, EntriesAreValues
    <3>2. CASE d \in W
      BY <1>3, <3>2 DEF W
    <3>3. CASE d \notin W
      BY <1>5, <2>2, <3>1, <3>3, BelowGoesOn
    <3> QED
      BY <3>2, <3>3
  <2> HIDE DEF Z
  <2>3. Below(h, S) \subseteq Z
    BY <1>1, <2>1, <2>2, BelowIsLeast
  <2> QED
    BY <2>3 DEF Z
<1>8. Kept(h, S, g, S)
  BY <1>6, <1>7 DEF Kept
<1> QED
  BY <1>8 DEF g

-----------------------------------------------------------------------------
(* A block is made into a value, which is one more root. *)
LEMMA FreshKeeps ==
  ASSUME NEW h, GoodHeap(h), NEW S, Rooted(h, S), Unused(h) # {},
         NEW b \in BlockSet, Sound(b), b.type # "free", b.items = << >>
  PROVE  LET new == malloc(h)
             g   == [h EXCEPT ![new] = b]
         IN  /\ Kept(h, S, g, S \cup {new})
             /\ \A R \in SUBSET S : Below(h, R) \subseteq Below(g, R)
<1> DEFINE new == malloc(h)
           g == [h EXCEPT ![new] = b]
           T == S \cup {new}
<1>1. /\ h \in [Values -> BlockSet] /\ S \in SUBSET Values
      /\ \A d \in Values : h[d].type = "free" => h[d] = Free
  BY DEF GoodHeap, Typed, Rooted, Sound
<1>2. /\ new \in Values
      /\ \A d \in Values : g[d] = IF d = new THEN b ELSE h[d]
  BY FreshBlock
<1>3. h[new].type = "free"
  BY DEF malloc, Unused
<1> HIDE DEF new
<1>4. g \in [Values -> BlockSet]
  BY <1>1
<1> HIDE DEF g, T
<1>5. Free.items = << >>
  BY FreeBlock
<1>6. DOMAIN h[new].items = {}
  BY <1>1, <1>2, <1>3, <1>5
<1>7. \A d \in Values : Items(h, d) \subseteq Items(g, d)
  BY <1>2, <1>6 DEF Items
<1>8. \A R \in SUBSET S : Below(h, R) \subseteq Below(g, R)
  BY <1>1, <1>4, <1>7, BelowGrows
<1>9. T \in SUBSET Values /\ S \subseteq T /\ new \in T
  BY <1>1, <1>2 DEF T
<1>10. Below(h, S) \subseteq Below(g, T)
  BY <1>1, <1>4, <1>7, <1>9, BelowGrows
<1>11. new \in Below(g, T)
  BY <1>2, <1>9, RootIsBelow
<1>12. Kept(h, S, g, T)
  BY <1>2, <1>10, <1>11 DEF Kept
<1> QED
  BY <1>8, <1>12 DEF new, g, T

LEMMA BelowMore ==
  ASSUME NEW h, NEW S, NEW R \in SUBSET S
  PROVE  Below(h, R) \subseteq Below(h, S)
BY DEF Below

(* Along a dotted name what there was is kept, and what is made on the way *)
(* is down from where the way began.                                       *)
LEMMA StepKeeps ==
  ASSUME NEW s, NEW S, OnTheWay(s, S), NEW n \in Names, NEW mem \in Int,
         NEW R \in SUBSET S, s.ok => s.object \in Below(s.heap, R)
  PROVE  LET t == Into(s, n, mem)
         IN  /\ Kept(s.heap, S, t.heap, S)
             /\ t.ok => t.object \in Below(t.heap, R)
<1> DEFINE found == json_value_get(s.heap, json_object_get_value(s.heap, s.object, n), "object")
           new == malloc(s.heap)
           none == << >>
           b == Block("object", none, none, 0)
           g == [s.heap EXCEPT ![new] = b]
           r == json_object_add(g, s.object, n, new, mem)
           t == Into(s, n, mem)
<1>1. /\ s = [heap |-> s.heap, object |-> s.object, ok |-> s.ok] /\ s.ok \in BOOLEAN
      /\ GoodHeap(s.heap) /\ Rooted(s.heap, S) /\ s.heap \in [Values -> BlockSet] /\ S \in SUBSET Values
  BY DEF OnTheWay, GoodHeap, Typed, Rooted
<1>2. Kept(s.heap, S, s.heap, S)
  BY <1>1, SameItemsKeep
<1>3. CASE ~ s.ok
  <2>1. t = s
    BY <1>3 DEF Into
  <2> QED
    BY <1>2, <1>3, <2>1
<1>4. CASE s.ok /\ found # None
  <2>1. t = [s EXCEPT !.object = found]
    BY <1>4 DEF Into
  <2>2. /\ s.object \in Values /\ s.heap[s.object].type = "object" /\ Typed(s.heap)
        /\ s.object \in Below(s.heap, R)
    BY <1>4 DEF OnTheWay, GoodHeap
  <2>3. found \in Values /\ found \in Items(s.heap, s.object)
    BY <1>4, <2>2, LookUp
  <2> HIDE DEF found, t
  <2>4. t = [heap |-> s.heap, object |-> found, ok |-> s.ok]
    BY <1>1, <2>1
  <2>5. t.heap = s.heap /\ t.object = found
    BY <2>4
  <2>6. found \in Below(s.heap, R)
    BY <2>2, <2>3, BelowGoesOn
  <2> QED
    BY <1>2, <2>5, <2>6 DEF t
<1>5. CASE s.ok /\ found = None /\ Unused(s.heap) = {}
  <2>1. t = [s EXCEPT !.ok = FALSE]
    BY <1>5 DEF Into
  <2> HIDE DEF t
  <2>2. t = [heap |-> s.heap, object |-> s.object, ok |-> FALSE]
    BY <1>1, <2>1
  <2>3. t.heap = s.heap /\ t.ok = FALSE
    BY <2>2
  <2> QED
    BY <1>2, <2>3 DEF t
<1>6. CASE s.ok /\ found = None /\ Unused(s.heap) # {}
  <2> DEFINE P == S \cup {new}
             Q == R \cup {new}
  <2>1. t = IF r.ok THEN [heap |-> r.heap, object |-> new, ok |-> TRUE]
            ELSE [s EXCEPT !.heap = json_value_free(r.heap, new), !.ok = FALSE]
    BY <1>6 DEF Into
  <2>2. b \in BlockSet /\ Sound(b) /\ b.type = "object" /\ b.type # "free" /\ b.items = none
    BY EmptyBlocks
  <2>3. s.object \in Values /\ s.heap[s.object].type = "object" /\ s.object \in Below(s.heap, R)
    BY <1>6 DEF OnTheWay
  <2> HIDE DEF b, t, found
  <2>4. /\ new \in Values /\ new \notin S
        /\ GoodHeap(g) /\ Rooted(g, P)
        /\ \A d \in Values : g[d] = IF d = new THEN b ELSE s.heap[d]
    BY <1>1, <1>6, <2>2, FreshBlock
  <2>5. /\ Kept(s.heap, S, g, P)
        /\ Below(s.heap, R) \subseteq Below(g, R)
    BY <1>1, <1>6, <2>2, FreshKeeps
  <2> HIDE DEF g, new
  <2>6. /\ new \in P /\ new \in Q /\ P \ {new} = S /\ Q \ {new} = R /\ Q \in SUBSET P
        /\ Rooted(g, Q)
    <3>1. new \in P /\ new \in Q /\ P \ {new} = S /\ Q \ {new} = R /\ Q \in SUBSET P
      BY <2>4
    <3> QED
      BY <2>4, <3>1, FewerRoots
  <2> HIDE DEF P, Q
  <2>7. s.object \in Below(g, R) /\ s.object \in Below(g, S) /\ g[s.object].type = "object"
    BY <2>2, <2>3, <2>4, <2>5, BelowMore
  <2>8. Takes(r, P, new)
    BY <2>3, <2>4, <2>6, <2>7, ObjectAdds
  <2>9. Refuses(r, g) \/ Adds(r, g, s.object, new)
    <3>1. Typed(g)
      BY <2>4 DEF GoodHeap
    <3> QED
      BY <2>3, <2>4, <2>7, <3>1, ObjectAddsOrRefuses
  <2> HIDE DEF r
  <2>10. Yields(r, g, P, new)
    <3>1. s.object \in Below(g, P \ {new})
      BY <2>6, <2>7
    <3> QED
      BY <2>4, <2>6, <2>9, <3>1, AddsYields
  <2>11. Yields(r, g, Q, new)
    <3>1. s.object \in Below(g, Q \ {new})
      BY <2>6, <2>7
    <3> QED
      BY <2>4, <2>6, <2>9, <3>1, AddsYields
  <2>12. CASE r.ok
    <3>1. t = [heap |-> r.heap, object |-> new, ok |-> TRUE]
      BY <2>1, <2>12
    <3>2. t.heap = r.heap /\ t.object = new
      BY <3>1
    <3>3. Kept(g, P, r.heap, S) /\ new \in Below(r.heap, R)
      BY <2>6, <2>10, <2>11, <2>12 DEF Yields
    <3>4. Kept(s.heap, S, r.heap, S)
      BY <2>5, <3>3, KeptOn
    <3> QED
      BY <3>2, <3>3, <3>4 DEF t
  <2>13. CASE ~ r.ok
    <3> DEFINE f == json_value_free(r.heap, new)
    <3>1. t = [s EXCEPT !.heap = f, !.ok = FALSE]
      BY <2>1, <2>13
    <3>2. GoodHeap(r.heap) /\ Rooted(r.heap, P) /\ Kept(g, P, r.heap, P)
      BY <2>8, <2>10, <2>13 DEF Takes, Yields
    <3>3. Kept(r.heap, P, f, S)
      BY <2>6, <3>2, FreeKeepsRest
    <3> HIDE DEF f
    <3>4. t = [heap |-> f, object |-> s.object, ok |-> FALSE]
      BY <1>1, <3>1
    <3>5. t.heap = f /\ t.ok = FALSE
      BY <3>4
    <3>6. Kept(s.heap, S, f, S)
      BY <2>5, <3>2, <3>3, KeptOn
    <3> QED
      BY <3>5, <3>6 DEF t
  <2> QED
    BY <2>12, <2>13
<1> QED
  BY <1>1, <1>3, <1>4, <1>5, <1>6

LEMMA WalkKeepsAll ==
  ASSUME NEW h, GoodHeap(h), NEW S, Rooted(h, S), NEW R \in SUBSET S,
         NEW o \in Below(h, R), h[o].type = "object",
         NEW path \in Paths, NEW mem \in Int
  PROVE  LET s == Walks(h, o, path, mem)[Len(path) - 1]
         IN  /\ OnTheWay(s, S)
             /\ Kept(h, S, s.heap, S)
             /\ s.ok => s.object \in Below(s.heap, R)
<1> DEFINE at == Walks(h, o, path, mem)
           There(s) == /\ OnTheWay(s, S)
                       /\ Kept(h, S, s.heap, S)
                       /\ s.ok => s.object \in Below(s.heap, R)
           T == {k \in Nat : k < Len(path) => There(at[k])}
<1>1. path \in Seq(Names) /\ Len(path) \in Nat /\ Len(path) - 1 \in Nat
  BY PathHasNames
<1>2. 0 \in T
  <2>1. at[0] = [heap |-> h, object |-> o, ok |-> TRUE]
    BY WalksStart
  <2> HIDE DEF at
  <2>2. at[0].heap = h /\ at[0].object = o /\ at[0].ok = TRUE
    BY <2>1
  <2>3. OnTheWay(at[0], S)
    BY <2>1, <2>2 DEF OnTheWay, Below
  <2>4. h \in [Values -> BlockSet] /\ S \in SUBSET Values
    BY DEF GoodHeap, Typed, Rooted
  <2>5. Kept(h, S, h, S)
    BY <2>4, SameItemsKeep
  <2> QED
    BY <2>2, <2>3, <2>5
<1>3. ASSUME NEW k \in Nat, k \in T PROVE k + 1 \in T
  <2> SUFFICES ASSUME k + 1 < Len(path) PROVE There(at[k + 1])
    BY <1>1
  <2>1. k < Len(path) /\ path[k + 1] \in Names
    BY <1>1
  <2> DEFINE s == at[k]
             t == at[k + 1]
  <2>2. There(s)
    BY <2>1, <1>3
  <2> DEFINE left == mem - 2 * k
  <2>3. t = Into(s, path[k + 1], left) /\ left \in Int
    <3>1. t = Into(s, path[k + 1], left)
      BY WalksStep, Zenon
    <3> QED
      BY <3>1
  <2> HIDE DEF at, s, t, left
  <2>4. OnTheWay(t, S)
    BY <2>1, <2>2, <2>3, StepInto
  <2>5. Kept(s.heap, S, t.heap, S) /\ (t.ok => t.object \in Below(t.heap, R))
    BY <2>1, <2>2, <2>3, StepKeeps
  <2>6. Kept(h, S, t.heap, S)
    BY <2>2, <2>5, KeptOn
  <2> QED
    BY <2>4, <2>5, <2>6 DEF t
<1> HIDE DEF T
<1>4. Nat \subseteq T
  BY <1>2, <1>3, Induct
<1>5. Len(path) - 1 \in T
  BY <1>1, <1>4
<1> QED
  BY <1>1, <1>5 DEF T

-----------------------------------------------------------------------------
(* The calls that set keep what there was. *)
LEMMA ObjectSetsYields ==
  ASSUME NEW h, GoodHeap(h), NEW S, Rooted(h, S), NEW v \in S,
         NEW o \in Below(h, S \ {v}), h[o].type = "object", NEW n \in Names, NEW mem \in Int
  PROVE  Yields(json_object_set_value(h, o, n, v, mem), h, S, v)
<1> DEFINE i == Place(h, o, n)
           r == json_object_set_value(h, o, n, v, mem)
<1>1. /\ o \in Values /\ v \in Values /\ Typed(h)
      /\ h[o] \in BlockSet /\ Sound(h[o])
  BY DEF GoodHeap, Typed, Rooted, Below
<1>2. CASE i = 0
  <2> DEFINE a == json_object_add(h, o, n, v, mem)
  <2>1. r = a
    BY <1>2 DEF json_object_set_value
  <2>2. Refuses(a, h) \/ Adds(a, h, o, v)
    BY <1>1, ObjectAddsOrRefuses
  <2> HIDE DEF a
  <2>3. Yields(a, h, S, v)
    BY <2>2, AddsYields
  <2> QED
    BY <2>1, <2>3
<1>3. CASE i # 0
  <2>1. i \in DOMAIN h[o].items
    BY <1>1, <1>3, PlaceOfName
  <2>2. r = Done([json_value_free(h, h[o].items[i]) EXCEPT ![o].items[i] = v])
    BY <1>3 DEF json_object_set_value
  <2>3. r.ok = TRUE /\ r.heap = [json_value_free(h, h[o].items[i]) EXCEPT ![o].items[i] = v]
    BY <2>2 DEF Done
  <2> HIDE DEF i, r
  <2>4. Yields(r, h, S, v)
    BY <2>1, <2>3, ReplacedYields
  <2> QED
    BY <2>4 DEF r
<1> QED
  BY <1>2, <1>3

LEMMA DotSetsYields ==
  ASSUME NEW h, GoodHeap(h), NEW S, Rooted(h, S), NEW v \in S,
         NEW o \in Below(h, S \ {v}), h[o].type = "object", NEW path \in Paths, NEW mem \in Int
  PROVE  Yields(json_object_dotset_value(h, o, path, v, mem), h, S, v)
<1> DEFINE R == S \ {v}
           s == Walks(h, o, path, mem)[Len(path) - 1]
           r == json_object_dotset_value(h, o, path, v, mem)
<1>1. r = IF s.ok THEN json_object_set_value(s.heap, s.object, Last(path), v, Left(path, mem))
          ELSE Fails(s.heap)
  BY DEF json_object_dotset_value
<1>2. R \in SUBSET S /\ o \in Below(h, R)
  OBVIOUS
<1> HIDE DEF R
<1>3. /\ OnTheWay(s, S) /\ Kept(h, S, s.heap, S)
      /\ s.ok => s.object \in Below(s.heap, R)
  BY <1>2, WalkKeepsAll
<1>4. Last(path) \in Names /\ Left(path, mem) \in Int
  BY PathHasNames DEF Left
<1> HIDE DEF s, r
<1>5. GoodHeap(s.heap) /\ Rooted(s.heap, S)
  BY <1>3 DEF OnTheWay
<1>6. CASE s.ok
  <2>1. s.object \in Below(s.heap, S \ {v}) /\ s.heap[s.object].type = "object"
    BY <1>3, <1>6 DEF OnTheWay, R
  <2>2. Yields(json_object_set_value(s.heap, s.object, Last(path), v, Left(path, mem)), s.heap, S, v)
    BY <1>4, <1>5, <2>1, ObjectSetsYields
  <2>3. Yields(r, s.heap, S, v)
    BY <1>1, <1>6, <2>2
  <2>4. Kept(h, S, r.heap, IF r.ok THEN S \ {v} ELSE S)
    BY <1>3, <2>3, KeptOn DEF Yields
  <2> QED
    BY <2>3, <2>4 DEF Yields, r
<1>7. CASE ~ s.ok
  <2>1. r = Fails(s.heap)
    BY <1>1, <1>7
  <2>2. r.ok = FALSE /\ r.heap = s.heap
    BY <2>1 DEF Fails
  <2> QED
    BY <1>3, <2>2 DEF Yields, r
<1> QED
  BY <1>6, <1>7

(* New blocks that are all down from one are kept with it as a root. *)
LEMMA NewTreeKeeps ==
  ASSUME NEW h, GoodHeap(h), NEW S, Rooted(h, S), NEW g \in [Values -> BlockSet], NEW N, NEW r,
         N \subseteq Unused(h), r \in Values,
         \A d \in Values : d \notin N => g[d] = h[d],
         N \subseteq Below(g, S \cup {r})
  PROVE  Kept(h, S, g, S \cup {r})
<1> DEFINE T == S \cup {r}
<1>1. /\ h \in [Values -> BlockSet] /\ S \in SUBSET Values /\ T \in SUBSET Values /\ S \subseteq T
      /\ \A d \in Values : h[d].type = "free" => h[d] = Free
  BY DEF GoodHeap, Typed, Rooted, Sound
<1>2. \A d \in Values : d \in N => Items(h, d) = {}
  <2>1. DOMAIN Free.items = {}
    BY FreeBlock
  <2> QED
    BY <1>1, <2>1 DEF Unused, Items
<1>3. \A d \in Values : Items(h, d) \subseteq Items(g, d)
  BY <1>2 DEF Items
<1> HIDE DEF T
<1>4. Below(h, S) \subseteq Below(g, T)
  BY <1>1, <1>3, BelowGrows
<1>5. N \subseteq Below(g, T)
  BY DEF T
<1>6. Kept(h, S, g, T)
  BY <1>4, <1>5 DEF Kept
<1> QED
  BY <1>6 DEF T

LEMMA CopyKeepsAll ==
  ASSUME NEW h, GoodHeap(h), NEW S, Rooted(h, S), NEW v \in Below(h, S),
         NEW to, to \in [Within(h, v) -> Unused(h)],
         \A x, y \in Within(h, v) : to[x] = to[y] => x = y,
         Typed(Copied(h, v, to))
  PROVE  Kept(h, S, Copied(h, v, to), S \cup {to[v]})
<1> DEFINE W == Within(h, v)
           N == {to[x] : x \in W}
           T == S \cup {to[v]}
           g == Copied(h, v, to)
           its(x) == [i \in DOMAIN h[x].items |-> to[h[x].items[i]]]
           new(x) == Block(h[x].type, h[x].names, its(x), CapacityFor(Len(h[x].items)))
           m == Cardinality(Values) - 1
<1>1. /\ h \in [Values -> BlockSet] /\ v \in Values
      /\ g \in [Values -> BlockSet]
  BY DEF GoodHeap, Typed, Below
<1>2. /\ v \in W /\ W \subseteq Values
      /\ \A x \in W : \A i \in DOMAIN h[x].items : h[x].items[i] \in W
  BY <1>1, WithinBelow, WithinIsClosed DEF Items
<1>3. g = [d \in Values |-> IF \E x \in W : to[x] = d
                            THEN new(CHOOSE x \in W : to[x] = d) ELSE h[d]]
  BY DEF Copied
<1>4. m \in Nat /\ W = Levels(h, v)[m]
  BY <1>1, DepthIsNat DEF Within
<1>5. to \in [W -> Unused(h)] /\ \A x, y \in W : to[x] = to[y] => x = y
  OBVIOUS
<1> HIDE DEF W, g, m, new
<1>6. N \subseteq Unused(h) /\ N \subseteq Values
  BY <1>5 DEF Unused
<1>7. \A d \in Values : d \notin N => g[d] = h[d]
  BY <1>3
<1>8. \A x \in W : g[to[x]] = new(x)
  <2> TAKE x \in W
  <2>1. to[x] \in Values
    BY <1>6
  <2>2. (CHOOSE y \in W : to[y] = to[x]) = x
    BY <1>5
  <2>3. g[to[x]] = IF \E y \in W : to[y] = to[x]
                   THEN new(CHOOSE y \in W : to[y] = to[x]) ELSE h[to[x]]
    BY <1>3, <2>1
  <2>4. g[to[x]] = new(CHOOSE y \in W : to[y] = to[x])
    BY <2>3
  <2> QED
    BY <2>2, <2>4
<1>9. \A x \in W : \A y \in Items(h, x) : y \in W /\ to[y] \in Items(g, to[x])
  <2> TAKE x \in W
  <2> TAKE y \in Items(h, x)
  <2>1. PICK i \in DOMAIN h[x].items : y = h[x].items[i]
    BY DEF Items
  <2>2. g[to[x]].items = its(x)
    <3>1. g[to[x]] = new(x)
      BY <1>8
    <3> HIDE DEF its
    <3>2. new(x) = [type |-> h[x].type, names |-> h[x].names, items |-> its(x),
                    capacity |-> CapacityFor(Len(h[x].items))]
      BY DEF new, Block
    <3> QED
      BY <3>1, <3>2
  <2>3. i \in DOMAIN g[to[x]].items /\ g[to[x]].items[i] = to[y]
    BY <2>1, <2>2
  <2> QED
    BY <1>2, <2>1, <2>3 DEF Items
<1> HIDE DEF N
<1>10. T \in SUBSET Values /\ to[v] \in T /\ to[v] \in Values
  BY <1>2, <1>5 DEF Unused, Rooted
<1> HIDE DEF T
<1> DEFINE Z == {k \in Nat : \A x \in Levels(h, v)[k] : x \in W => to[x] \in Below(g, T)}
<1>11. 0 \in Z
  <2>1. Levels(h, v)[0] = {v}
    BY LevelsStep
  <2>2. to[v] \in Below(g, T)
    BY <1>10, RootIsBelow
  <2> QED
    BY <2>1, <2>2
<1>12. \A k \in Nat : Levels(h, v)[k] \subseteq Below(h, {v})
  BY <1>1, LevelsBelow DEF Below
<1>13. Below(h, {v}) \subseteq W
  <2>1. {v} \in SUBSET Values /\ {v} \subseteq W /\ \A c \in Values : c \in W => Items(h, c) \subseteq W
    BY <1>1, <1>2, <1>9
  <2> QED
    BY <1>1, <2>1, BelowIsLeast
<1>14. ASSUME NEW k \in Nat, k \in Z PROVE k + 1 \in Z
  <2> SUFFICES ASSUME NEW x \in Levels(h, v)[k + 1] PROVE to[x] \in Below(g, T)
    OBVIOUS
  <2>1. x \in Levels(h, v)[k] \/ \E w \in Levels(h, v)[k] : x \in Items(h, w)
    BY LevelsStep
  <2>2. CASE x \in Levels(h, v)[k]
    BY <1>12, <1>13, <1>14, <2>2
  <2>3. ASSUME NEW w \in Levels(h, v)[k], x \in Items(h, w) PROVE to[x] \in Below(g, T)
    <3>1. w \in W /\ to[w] \in Below(g, T)
      BY <1>12, <1>13, <1>14
    <3>2. x \in W /\ to[x] \in Items(g, to[w])
      BY <1>9, <2>3, <3>1
    <3>3. to[x] \in Values
      BY <1>5, <3>2 DEF Unused
    <3> QED
      BY <3>1, <3>2, <3>3, BelowGoesOn
  <2> QED
    BY <2>1, <2>2, <2>3
<1> HIDE DEF Z
<1>15. Nat \subseteq Z
  BY <1>11, <1>14, Induct
<1>16. \A x \in W : to[x] \in Below(g, T)
  BY <1>4, <1>15 DEF Z
<1>17. N \subseteq Below(g, T)
  BY <1>16 DEF N
<1>18. Kept(h, S, g, T)
  BY <1>1, <1>6, <1>7, <1>10, <1>17, NewTreeKeeps DEF T
<1> QED
  BY <1>18 DEF g, T

LEMMA ParsedKeepsAll ==
  ASSUME NEW h, GoodHeap(h), NEW S, Rooted(h, S), NEW n \in Nat,
         NEW to \in [0..n -> Unused(h)], \A i, j \in 0..n : to[i] = to[j] => i = j,
         NEW b, DOMAIN b.items = 1..n, \A i \in 1..n : b.items[i] = to[i],
         Typed(Parsed(h, b, n, to))
  PROVE  Kept(h, S, Parsed(h, b, n, to), S \cup {to[0]})
<1> DEFINE N == {to[i] : i \in 0..n}
           T == S \cup {to[0]}
           g == Parsed(h, b, n, to)
<1>1. /\ g \in [Values -> BlockSet]
      /\ \A d \in Values : g[d] = IF d = to[0] THEN b
                                  ELSE IF \E i \in 1..n : to[i] = d THEN Scalar ELSE h[d]
  BY DEF Typed, Parsed
<1> HIDE DEF g
<1>2. 0 \in 0..n /\ (\A i \in 1..n : i \in 0..n) /\ \A i \in 0..n : i = 0 \/ i \in 1..n
  OBVIOUS
<1>3. \A i \in 0..n : to[i] \in Values /\ to[i] \in Unused(h)
  BY DEF Unused
<1>4. N \subseteq Unused(h) /\ to[0] \in Values
  BY <1>2, <1>3
<1>5. \A d \in Values : d \notin N => g[d] = h[d]
  BY <1>1, <1>2
<1>6. \A i \in 1..n : to[i] \in Items(g, to[0])
  BY <1>1, <1>4 DEF Items
<1>7. to[0] \in Below(g, T)
  BY <1>4, RootIsBelow
<1>8. \A i \in 0..n : to[i] \in Below(g, T)
  <2> TAKE i \in 0..n
  <2> HIDE DEF T
  <2>1. CASE i = 0
    BY <1>7, <2>1
  <2>2. CASE i \in 1..n
    BY <1>3, <1>6, <1>7, <2>2, BelowGoesOn
  <2> QED
    BY <1>2, <2>1, <2>2
<1>9. N \subseteq Below(g, T)
  BY <1>8
<1> HIDE DEF N
<1>10. Kept(h, S, g, T)
  BY <1>1, <1>4, <1>5, <1>9, NewTreeKeeps
<1> QED
  BY <1>10 DEF g, T

-----------------------------------------------------------------------------
(* What the calls keep of the values there are. *)
LEMMA WithNewKeeps ==
  ASSUME OwnInv, Unused(heap) # {}
  PROVE  /\ Kept(heap, held, WithNew, held \cup {malloc(heap)})
         /\ \A c \in Below(heap, held) : c \in Below(WithNew, (held \cup {malloc(heap)}) \ {malloc(heap)})
<1> DEFINE new == malloc(heap)
           g == [heap EXCEPT ![new] = Scalar]
<1>1. GoodHeap(heap) /\ Rooted(heap, held) /\ new \notin held
  BY OneMore DEF OwnInv
<1>2. Scalar \in BlockSet /\ Sound(Scalar) /\ Scalar.type # "free" /\ Scalar.items = << >>
  BY EmptyBlocks
<1>3. /\ Kept(heap, held, g, held \cup {new})
      /\ \A R \in SUBSET held : Below(heap, R) \subseteq Below(g, R)
  BY <1>1, <1>2, FreshKeeps
<1> HIDE DEF new
<1>4. (held \cup {new}) \ {new} = held
  BY <1>1
<1> HIDE DEF g
<1>5. \A c \in Below(heap, held) : c \in Below(g, (held \cup {new}) \ {new})
  BY <1>3, <1>4
<1> QED
  BY <1>3, <1>5 DEF new, g, WithNew

LEMMA LooseIsElsewhere ==
  ASSUME OwnInv, NEW c \in Owned, NEW v \in Loose(c)
  PROVE  c \in Below(heap, held \ {v})
<1>1. PICK r \in held : c \in Within(heap, r)
  BY DEF Owned
<1>2. r # v /\ r \in held \ {v}
  BY <1>1 DEF Loose
<1>3. c \in Values /\ r \in Values
  BY OwnedValues
<1>4. \E n \in Nat : c \in Levels(heap, r)[n]
  BY <1>1, <1>3, DepthIsNat DEF Within
<1> QED
  BY <1>2, <1>3, <1>4 DEF Below

LEMMA GiveLeaves ==
  ASSUME NEW v \in held, NEW r, Yields(r, heap, held, v), Give(v, r)
  PROVE  Kept(heap, held, heap', held')
<1>1. heap' = r.heap /\ held' = IF r.ok THEN held \ {v} ELSE held
  BY DEF Give
<1>2. Kept(heap, held, r.heap, IF r.ok THEN held \ {v} ELSE held)
  BY DEF Yields
<1> QED
  BY <1>1, <1>2

LEMMA KeepLeaves ==
  ASSUME OwnInv, Unused(heap) # {}, NEW r,
         Takes(r, held \cup {malloc(heap)}, malloc(heap)),
         Yields(r, WithNew, held \cup {malloc(heap)}, malloc(heap)),
         Keep(r, TRUE)
  PROVE  Kept(heap, held, heap', held')
<1> DEFINE new == malloc(heap)
           S == held \cup {new}
<1>1. new \notin held /\ new \in S /\ S \ {new} = held
  BY OneMore
<1>2. Kept(heap, held, WithNew, S)
  BY WithNewKeeps
<1>3. held' = held
  BY DEF Keep
<1>4. /\ Takes(r, S, new) /\ Yields(r, WithNew, S, new)
  OBVIOUS
<1>5. CASE r.ok
  <2>1. heap' = r.heap
    BY <1>5 DEF Keep
  <2> HIDE DEF S, new
  <2>2. Kept(WithNew, S, r.heap, held)
    BY <1>1, <1>4, <1>5 DEF Yields
  <2>3. Kept(heap, held, r.heap, held)
    BY <1>2, <2>2, KeptOn
  <2> QED
    BY <1>3, <2>1, <2>3
<1>6. CASE ~ r.ok
  <2> DEFINE f == json_value_free(r.heap, new)
  <2>1. heap' = f
    BY <1>6 DEF Keep
  <2> HIDE DEF S, new
  <2>2. GoodHeap(r.heap) /\ Rooted(r.heap, S) /\ Kept(WithNew, S, r.heap, S)
    BY <1>4, <1>6 DEF Takes, Yields
  <2>3. Kept(r.heap, S, f, held)
    BY <1>1, <2>2, FreeKeepsRest
  <2> HIDE DEF f
  <2>4. Kept(WithNew, S, f, held)
    BY <2>2, <2>3, KeptOn
  <2>5. Kept(heap, held, f, held)
    BY <1>2, <2>4, KeptOn
  <2> QED
    BY <1>3, <2>1, <2>5
<1> QED
  BY <1>5, <1>6

LEMMA ValueInitLeaves ==
  ASSUME OwnInv, NEW type \in {"object", "array", "scalar"},
         json_value_init(Block(type, << >>, << >>, 0))
  PROVE  Kept(heap, held, heap', held')
<1> DEFINE none == << >>
           b == Block(type, none, none, 0)
           new == malloc(heap)
           g == [heap EXCEPT ![new] = b]
<1>1. b \in BlockSet /\ Sound(b) /\ b.type # "free" /\ b.items = << >>
  BY EmptyBlocks
<1>2. Unused(heap) # {} /\ heap' = g /\ held' = held \cup {new}
  BY DEF json_value_init
<1> HIDE DEF b
<1>3. Kept(heap, held, g, held \cup {new})
  BY <1>1, <1>2, OwnedValues, FreshKeeps
<1> QED
  BY <1>2, <1>3

LEMMA FreeValueLeaves ==
  ASSUME OwnInv, NEW v \in held, FreeValue(v)
  PROVE  Kept(heap, held, heap', held')
<1>1. Kept(heap, held, json_value_free(heap, v), held \ {v})
  BY OwnedValues, FreeKeepsRest
<1> QED
  BY <1>1 DEF FreeValue

LEMMA SetValueLeaves ==
  ASSUME OwnInv, NEW o \in Of("object"), NEW path \in Paths, NEW v \in Loose(o), NEW mem \in Int,
         SetValue(o, path, v, mem)
  PROVE  Kept(heap, held, heap', held')
<1>1. /\ GoodHeap(heap) /\ Rooted(heap, held) /\ v \in held
      /\ o \in Owned /\ heap[o].type = "object"
  BY OwnedValues
<1>2. o \in Below(heap, held \ {v})
  BY <1>1, LooseIsElsewhere
<1>3. Yields(json_object_dotset_value(heap, o, path, v, mem), heap, held, v)
  BY <1>1, <1>2, DotSetsYields
<1> QED
  BY <1>1, <1>3, GiveLeaves DEF SetValue

LEMMA DotsetScalarLeaves ==
  ASSUME OwnInv, NEW o \in Of("object"), NEW path \in Paths, NEW mem \in Int,
         json_object_dotset_scalar(o, path, mem)
  PROVE  Kept(heap, held, heap', held')
<1> DEFINE new == malloc(heap)
           S == held \cup {new}
<1>1. Unused(heap) # {}
  BY DEF json_object_dotset_scalar
<1>2. o \in Values /\ o \in Below(heap, held) /\ heap[o].type = "object"
  BY OwnedValues
<1>3. /\ GoodHeap(WithNew) /\ Rooted(WithNew, S) /\ new \in S
      /\ WithNew[o].type = "object"
  BY <1>1, <1>2, OneMore
<1>4. o \in Below(WithNew, S \ {new})
  BY <1>1, <1>2, WithNewKeeps
<1> DEFINE r == json_object_dotset_value(WithNew, o, path, new, mem)
<1>5. Keep(r, TRUE)
  BY DEF json_object_dotset_scalar
<1>6. Takes(r, S, new)
  BY <1>2, <1>3, DotSets
<1>7. Yields(r, WithNew, S, new)
  BY <1>3, <1>4, DotSetsYields
<1> HIDE DEF r
<1> QED
  BY <1>1, <1>5, <1>6, <1>7, KeepLeaves

LEMMA RemoveLeaves ==
  ASSUME OwnInv, NEW c \in Below(heap, held),
         NEW i \in DOMAIN heap[c].items, heap' = Removed(heap, c, i), held' = held
  PROVE  Kept(heap, held, heap', held')
<1>1. Kept(heap, held, Removed(heap, c, i), held)
  BY OwnedValues, RemovedKeeps
<1> QED
  BY <1>1

LEMMA DotremoveLeaves ==
  ASSUME OwnInv, NEW o \in Of("object"), NEW path \in Paths, json_object_dotremove(o, path)
  PROVE  Kept(heap, held, heap', held')
<1> DEFINE p == Along(heap, o, path)
           n == Last(path)
           i == Place(heap, p, n)
<1>1. o \in Below(heap, held) /\ heap[o].type = "object" /\ GoodHeap(heap)
  BY OwnedValues
<1>2. p # None /\ i # 0 /\ heap' = Removed(heap, p, i) /\ held' = held
  BY DEF json_object_dotremove
<1>3. p \in Below(heap, held) /\ heap[p].type = "object"
  BY <1>1, <1>2, AlongIsBelow
<1>4. heap[p] \in BlockSet /\ Sound(heap[p])
  BY <1>1, <1>3 DEF Below, GoodHeap, Typed
<1> HIDE DEF p, n
<1>5. i \in DOMAIN heap[p].items
  BY <1>2, <1>3, <1>4, PlaceOfName
<1> HIDE DEF i
<1> QED
  BY <1>2, <1>3, <1>5, RemoveLeaves

LEMMA ClearLeaves ==
  ASSUME OwnInv, NEW c \in Owned, json_clear(c)
  PROVE  Kept(heap, held, heap', held')
<1>1. Kept(heap, held, Cleared(heap, c), held)
  BY OwnedValues, ClearedKeeps
<1> QED
  BY <1>1 DEF json_clear

LEMMA AppendValueLeaves ==
  ASSUME OwnInv, NEW a \in Of("array"), NEW v \in Loose(a), NEW mem \in Int,
         json_array_append_value(a, v, mem)
  PROVE  Kept(heap, held, heap', held')
<1> DEFINE r == json_array_add(heap, a, v, mem)
<1>1. /\ GoodHeap(heap) /\ Rooted(heap, held) /\ v \in held /\ v \in Values /\ Typed(heap)
      /\ a \in Owned /\ a \in Values /\ heap[a].type = "array"
  BY OwnedValues DEF GoodHeap
<1>2. a \in Below(heap, held \ {v})
  BY <1>1, LooseIsElsewhere
<1>3. Refuses(r, heap) \/ Adds(r, heap, a, v)
  BY <1>1, ArrayAddsOrRefuses
<1>4. Give(v, r)
  BY DEF json_array_append_value
<1> HIDE DEF r
<1>5. Yields(r, heap, held, v)
  BY <1>1, <1>2, <1>3, AddsYields
<1> QED
  BY <1>1, <1>4, <1>5, GiveLeaves

LEMMA AppendScalarLeaves ==
  ASSUME OwnInv, NEW a \in Of("array"), NEW mem \in Int, json_array_append_scalar(a, mem)
  PROVE  Kept(heap, held, heap', held')
<1> DEFINE new == malloc(heap)
           S == held \cup {new}
           r == json_array_add(WithNew, a, new, mem)
<1>1. Unused(heap) # {}
  BY DEF json_array_append_scalar
<1>2. a \in Values /\ a \in Below(heap, held) /\ heap[a].type = "array"
  BY OwnedValues
<1>3. /\ GoodHeap(WithNew) /\ Rooted(WithNew, S) /\ new \in S /\ new \in Values
      /\ WithNew[a].type = "array" /\ Typed(WithNew)
  BY <1>1, <1>2, OneMore DEF GoodHeap
<1>4. a \in Below(WithNew, S \ {new})
  BY <1>1, <1>2, WithNewKeeps
<1>5. Keep(r, TRUE)
  BY DEF json_array_append_scalar
<1>6. Takes(r, S, new)
  BY <1>2, <1>3, ArrayAdds
<1>7. Refuses(r, WithNew) \/ Adds(r, WithNew, a, new)
  BY <1>2, <1>3, ArrayAddsOrRefuses
<1> HIDE DEF r
<1>8. Yields(r, WithNew, S, new)
  BY <1>3, <1>4, <1>7, AddsYields
<1> QED
  BY <1>1, <1>5, <1>6, <1>8, KeepLeaves

LEMMA ReplacedIsYielded ==
  ASSUME NEW h, GoodHeap(h), NEW S, Rooted(h, S), NEW v \in S, NEW a \in Below(h, S \ {v}),
         NEW i \in DOMAIN h[a].items
  PROVE  Yields(Done(Replaced(h, a, i, v)), h, S, v)
<1> DEFINE r == Done(Replaced(h, a, i, v))
<1>1. r.ok = TRUE /\ r.heap = [json_value_free(h, h[a].items[i]) EXCEPT ![a].items[i] = v]
  BY DEF Done, Replaced
<1> HIDE DEF r
<1>2. Yields(r, h, S, v)
  BY <1>1, ReplacedYields
<1> QED
  BY <1>2 DEF r

LEMMA ReplaceValueLeaves ==
  ASSUME OwnInv, NEW a \in Of("array"), NEW i \in DOMAIN heap[a].items, NEW v \in Loose(a),
         json_array_replace_value(a, i, v)
  PROVE  Kept(heap, held, heap', held')
<1>1. GoodHeap(heap) /\ Rooted(heap, held) /\ v \in held /\ a \in Owned
  BY OwnedValues
<1>2. a \in Below(heap, held \ {v})
  BY <1>1, LooseIsElsewhere
<1>3. Yields(Done(Replaced(heap, a, i, v)), heap, held, v)
  BY <1>1, <1>2, ReplacedIsYielded
<1> QED
  BY <1>1, <1>3, GiveLeaves DEF json_array_replace_value

LEMMA ReplaceScalarLeaves ==
  ASSUME OwnInv, NEW a \in Of("array"), NEW i \in DOMAIN heap[a].items,
         json_array_replace_scalar(a, i)
  PROVE  Kept(heap, held, heap', held')
<1> DEFINE new == malloc(heap)
           S == held \cup {new}
           r == Done(Replaced(WithNew, a, i, new))
<1>1. Unused(heap) # {}
  BY DEF json_array_replace_scalar
<1>2. a \in Values /\ a \in Below(heap, held) /\ heap[a].type = "array"
  BY OwnedValues
<1>3. /\ GoodHeap(WithNew) /\ Rooted(WithNew, S) /\ new \in S
      /\ WithNew[a] = heap[a]
  BY <1>1, <1>2, OneMore
<1>4. a \in Below(WithNew, S \ {new}) /\ i \in DOMAIN WithNew[a].items
  BY <1>1, <1>2, <1>3, WithNewKeeps
<1>5. Keep(r, TRUE)
  BY DEF json_array_replace_scalar
<1>6. Takes(r, S, new)
  BY <1>2, <1>3, <1>4, ReplacedTakes
<1>7. Yields(r, WithNew, S, new)
  BY <1>3, <1>4, ReplacedIsYielded
<1> HIDE DEF r
<1> QED
  BY <1>1, <1>5, <1>6, <1>7, KeepLeaves

LEMMA CopyLeaves ==
  ASSUME OwnInv, NEW v \in Owned, json_value_deep_copy(v)
  PROVE  Kept(heap, held, heap', held')
<1> DEFINE W == Within(heap, v)
           to == Blocks(W)
<1>1. /\ GoodHeap(heap) /\ Rooted(heap, held)
      /\ v \in Values /\ v \in Below(heap, held) /\ heap[v].type # "free"
  BY OwnedValues, OwnedIsThere
<1>2. W \subseteq Values
  BY <1>1, WithinBelow DEF GoodHeap, Typed
<1>3. IsFiniteSet(W)
  BY <1>2, FS_Subset, TreeAssumption
<1>4. Room(Cardinality(W)) /\ heap' = Copied(heap, v, to) /\ held' = held \cup {to[v]}
  BY DEF json_value_deep_copy
<1>5. to \in [W -> Unused(heap)] /\ \A x, y \in W : to[x] = to[y] => x = y
  BY <1>3, <1>4, BlocksFound
<1> HIDE DEF to
<1>6. GoodHeap(Copied(heap, v, to))
  BY <1>1, <1>5, CopyMade
<1>7. Kept(heap, held, Copied(heap, v, to), held \cup {to[v]})
  BY <1>1, <1>5, <1>6, CopyKeepsAll DEF GoodHeap
<1> QED
  BY <1>4, <1>7

LEMMA ParseLeaves ==
  ASSUME OwnInv, OwnInv', NEW type, NEW names, NEW n \in Nat,
         ParseContainer(type, names, n)
  PROVE  Kept(heap, held, heap', held')
<1> DEFINE to == Blocks(0..n)
           items == [i \in 1..n |-> to[i]]
           b == Block(type, names, items, n)
           g == [v \in Values |-> IF v = to[0] THEN b
                                  ELSE IF \E i \in 1..n : to[i] = v THEN Scalar ELSE heap[v]]
<1>1. Room(n + 1) /\ heap' = g /\ held' = held \cup {to[0]}
  BY DEF ParseContainer
<1>2. to \in [0..n -> Unused(heap)] /\ \A i, j \in 0..n : to[i] = to[j] => i = j
  BY <1>1, BlocksInARow
<1> HIDE DEF to
<1>3. DOMAIN items = 1..n /\ \A i \in 1..n : items[i] = to[i]
  OBVIOUS
<1> HIDE DEF items
<1>4. b.items = items
  BY DEF Block
<1> HIDE DEF b
<1>5. heap' = Parsed(heap, b, n, to)
  BY <1>1 DEF Parsed
<1>6. Typed(heap')
  BY DEF OwnInv, GoodHeap, Typed
<1>7. GoodHeap(heap) /\ Rooted(heap, held)
  BY DEF OwnInv
<1>8. Typed(Parsed(heap, b, n, to))
  BY <1>5, <1>6
<1>9. Kept(heap, held, Parsed(heap, b, n, to), held \cup {to[0]})
  BY <1>2, <1>3, <1>4, <1>7, <1>8, ParsedKeepsAll
<1> QED
  BY <1>1, <1>5, <1>9

-----------------------------------------------------------------------------
ScalarIsSet == \E o \in Of("object"), n \in Names, mem \in Memory : json_object_set_scalar(o, n, mem)

EntryIsRefused == \E lost \in SUBSET Unused(heap) : ParseRefused(lost)

(* When the program dies nothing is left, and nothing is lost.             *)
LEMMA DiesLeaves ==
  ASSUME DiesGrowing
  PROVE  Kept(heap, held, heap', held')
<1>1. \A v \in Values : heap'[v].type = "free"
  BY FreeBlock DEF DiesGrowing
<1> QED
  BY <1>1 DEF Kept

LEMMA StepLeaves ==
  ASSUME OwnInv, OwnInv', Next
  PROVE  EntryIsRefused \/ ScalarIsSet \/ Kept(heap, held, heap', held')
<1> DEFINE Good == Kept(heap, held, heap', held')
<1>1. ASSUME NEW type \in {"object", "array", "scalar"},
             json_value_init(Block(type, << >>, << >>, 0))
      PROVE  Good
  BY <1>1, ValueInitLeaves
<1>2. ASSUME NEW v \in held, FreeValue(v) PROVE Good
  BY <1>2, FreeValueLeaves
<1>3. ASSUME NEW v \in Owned, json_value_deep_copy(v) PROVE Good
  BY <1>3, CopyLeaves
<1>4. ASSUME NEW names \in {p \in Paths : IsInjective(p)},
             ParseContainer("object", names, Len(names)) \/ ParseContainer("array", << >>, Len(names))
      PROVE  Good
  <2>1. Len(names) \in Nat
    BY PathHasNames
  <2> QED
    BY <1>4, <2>1, ParseLeaves
<1>5. CASE ObjectCalls
  <2>0. Memory \subseteq Int
    BY MemoryIsCounted
  <2>1. PICK o \in Of("object"), mem \in Memory :
          \/ \E path \in Paths, v \in Loose(o) : SetValue(o, path, v, mem)
          \/ \E n \in Names : json_object_set_scalar(o, n, mem)
          \/ \E path \in Paths : json_object_dotset_scalar(o, path, mem)
          \/ \E path \in Paths : json_object_dotremove(o, path)
          \/ json_clear(o)
    BY <1>5 DEF ObjectCalls
  <2>2. CASE \E path \in Paths, v \in Loose(o) : SetValue(o, path, v, mem)
    BY <2>0, <2>2, SetValueLeaves
  <2>3. CASE \E n \in Names : json_object_set_scalar(o, n, mem)
    BY <2>3 DEF ScalarIsSet
  <2>4. CASE \E path \in Paths : json_object_dotset_scalar(o, path, mem)
    BY <2>0, <2>4, DotsetScalarLeaves
  <2>5. CASE \E path \in Paths : json_object_dotremove(o, path)
    BY <2>5, DotremoveLeaves
  <2>6. CASE json_clear(o)
    BY <2>6, ClearLeaves, OwnedValues
  <2> QED
    BY <2>1, <2>2, <2>3, <2>4, <2>5, <2>6
<1>6. CASE ArrayCalls
  <2>0. Memory \subseteq Int
    BY MemoryIsCounted
  <2>1. PICK a \in Of("array") :
          \/ \E v \in Loose(a), mem \in Memory : json_array_append_value(a, v, mem)
          \/ \E mem \in Memory : json_array_append_scalar(a, mem)
          \/ \E i \in DOMAIN heap[a].items :
               \/ json_array_remove(a, i)
               \/ json_array_replace_scalar(a, i)
               \/ \E v \in Loose(a) : json_array_replace_value(a, i, v)
          \/ json_clear(a)
    BY <1>6 DEF ArrayCalls
  <2>2. CASE \E v \in Loose(a), mem \in Memory : json_array_append_value(a, v, mem)
    BY <2>0, <2>2, AppendValueLeaves
  <2>3. CASE \E mem \in Memory : json_array_append_scalar(a, mem)
    BY <2>0, <2>3, AppendScalarLeaves
  <2>4. ASSUME NEW i \in DOMAIN heap[a].items, json_array_remove(a, i) PROVE Good
    <3>1. a \in Below(heap, held)
      BY OwnedValues
    <3> QED
      BY <2>4, <3>1, RemoveLeaves DEF json_array_remove
  <2>5. ASSUME NEW i \in DOMAIN heap[a].items, json_array_replace_scalar(a, i) PROVE Good
    BY <2>5, ReplaceScalarLeaves
  <2>6. ASSUME NEW i \in DOMAIN heap[a].items, NEW v \in Loose(a), json_array_replace_value(a, i, v)
        PROVE  Good
    BY <2>6, ReplaceValueLeaves
  <2>7. CASE json_clear(a)
    BY <2>7, ClearLeaves, OwnedValues
  <2> QED
    BY <2>1, <2>2, <2>3, <2>4, <2>5, <2>6, <2>7
<1>7. CASE DiesGrowing
  BY <1>7, DiesLeaves
<1> QED
  BY <1>1, <1>2, <1>3, <1>4, <1>5, <1>6, <1>7 DEF Next, EntryIsRefused

LEMMA BelowIsWithin ==
  ASSUME NEW h \in [Values -> BlockSet], NEW S \in SUBSET Values
  PROVE  Below(h, S) \subseteq UNION {Within(h, r) : r \in S}
<1> DEFINE Z == UNION {Within(h, r) : r \in S}
<1>1. S \subseteq Z
  BY WithinBelow
<1>2. \A c \in Values : c \in Z => Items(h, c) \subseteq Z
  BY WithinIsClosed
<1> HIDE DEF Z
<1>3. Below(h, S) \subseteq Z
  BY <1>1, <1>2, BelowIsLeast
<1> QED
  BY <1>3 DEF Z

LEMMA KeptIsOwned ==
  ASSUME OwnInv, OwnInv', Kept(heap, held, heap', held')
  PROVE  Lost' \subseteq Lost
<1>1. heap' \in [Values -> BlockSet] /\ held' \in SUBSET Values
  BY DEF OwnInv, GoodHeap, Typed, Rooted
<1>2. Below(heap', held') \subseteq UNION {Within(heap', r) : r \in held'}
  BY <1>1, BelowIsWithin
<1>3. Owned \subseteq Below(heap, held)
  BY OwnedIsBelow
<1> SUFFICES ASSUME NEW d \in Lost' PROVE d \in Lost
  OBVIOUS
<1>4. /\ d \in Values /\ heap'[d].type # "free"
      /\ d \notin UNION {Within(heap', r) : r \in held'}
  BY DEF Lost, Live, Owned, Within, Levels, Items
<1>5. d \notin Below(heap', held')
  BY <1>2, <1>4
<1>6. heap[d].type # "free" /\ d \notin Below(heap, held)
  BY <1>4, <1>5 DEF Kept
<1> QED
  BY <1>3, <1>4, <1>6 DEF Lost, Live

(* A value that was made can be reached from one that the program owns,    *)
(* and so freed: no call drops a value that is in use without freeing it,  *)
(* neither one that is refused half-way along a dotted name, nor one that  *)
(* replaces, removes, clears or copies.  A value that is set and refused   *)
(* (json_object_set_string and its like), and what is in an entry of a     *)
(* document that its container refuses, are the exceptions.                *)
THEOREM NothingElseIsLost == Spec => LossOnlyWhere
<1>1. ASSUME OwnInv, OwnInv', [Next]_vars
      PROVE  [ ~ Lost' \subseteq Lost =>
                 \/ \E lost \in SUBSET Unused(heap) : ParseRefused(lost)
                 \/ \E o \in Of("object"), n \in Names, mem \in Memory :
                      json_object_set_scalar(o, n, mem) ]_vars
  <2>1. CASE UNCHANGED vars
    BY <2>1
  <2>2. CASE Next
    BY <1>1, <2>2, StepLeaves, KeptIsOwned DEF ScalarIsSet, EntryIsRefused
  <2> QED
    BY <1>1, <2>1, <2>2
<1> QED
  BY <1>1, AlwaysOwnInv, PTL DEF Spec, LossOnlyWhere


-----------------------------------------------------------------------------
(* Names lead to entries. *)
LEMMA EntryOfName ==
  ASSUME NEW h, Typed(h), NEW c \in Values, h[c].type = "object", NEW n,
         json_object_get_value(h, c, n) # None
  PROVE  LET i == Place(h, c, n)
             x == json_object_get_value(h, c, n)
         IN  /\ i \in DOMAIN h[c].items /\ h[c].items[i] = x /\ h[c].names[i] = n
             /\ x \in Values /\ x \in Items(h, c)
<1> DEFINE i == Place(h, c, n)
           x == json_object_get_value(h, c, n)
<1>1. i # 0 /\ x = h[c].items[i]
  BY DEF json_object_get_value
<1>2. h[c] \in BlockSet /\ Sound(h[c])
  BY DEF Typed
<1>3. i \in DOMAIN h[c].items /\ h[c].names[i] = n
  BY <1>1, <1>2, PlaceOfName
<1>4. h[c].items \in Seq(Values)
  BY <1>2 DEF BlockSet
<1> QED
  BY <1>1, <1>3, <1>4 DEF Items

LEMMA NameOfEntry ==
  ASSUME NEW h, NEW c, h[c] \in BlockSet, Sound(h[c]), h[c].type = "object",
         NEW i \in DOMAIN h[c].items
  PROVE  /\ Place(h, c, h[c].names[i]) = i
         /\ json_object_get_value(h, c, h[c].names[i]) = h[c].items[i]
<1> DEFINE n == h[c].names[i]
           j == Place(h, c, n)
<1>1. /\ DOMAIN h[c].names = DOMAIN h[c].items
      /\ j # 0 => j \in DOMAIN h[c].items /\ h[c].names[j] = n
      /\ j = 0 => \A k \in DOMAIN h[c].names : h[c].names[k] # n
  BY PlaceOfName
<1>2. i \in DOMAIN h[c].names /\ j # 0
  BY <1>1
<1>3. j = i
  BY <1>1, <1>2 DEF Sound, IsInjective
<1> QED
  BY <1>2, <1>3 DEF json_object_get_value

(* From one object on a way to the next. *)
LEMMA WayBack ==
  ASSUME NEW h, NEW o, NEW path, NEW k \in Nat, Ways(h, o, path)[k + 1] # None
  PROVE  /\ Ways(h, o, path)[k] # None
         /\ Ways(h, o, path)[k + 1] = json_object_get_value(h, Ways(h, o, path)[k], path[k + 1])
         /\ h[Ways(h, o, path)[k + 1]].type = "object"
<1>1. Ways(h, o, path)[k + 1] =
        IF Ways(h, o, path)[k] = None THEN None
        ELSE json_value_get(h, json_object_get_value(h, Ways(h, o, path)[k], path[k + 1]), "object")
  BY WaysStep, Zenon
<1> QED
  BY <1>1 DEF json_value_get

LEMMA WayOn ==
  ASSUME NEW h, NEW o, NEW path, NEW k \in Nat, NEW p, p # None, Ways(h, o, path)[k] = p,
         NEW x, x # None, json_object_get_value(h, p, path[k + 1]) = x, h[x].type = "object"
  PROVE  Ways(h, o, path)[k + 1] = x
<1>1. Ways(h, o, path)[k + 1] =
        IF Ways(h, o, path)[k] = None THEN None
        ELSE json_value_get(h, json_object_get_value(h, Ways(h, o, path)[k], path[k + 1]), "object")
  BY WaysStep, Zenon
<1>2. Ways(h, o, path)[k + 1] = json_value_get(h, x, "object")
  BY <1>1
<1> QED
  BY <1>2 DEF json_value_get

-----------------------------------------------------------------------------
(* A heap goes on from another: what was there has its type still, and     *)
(* what was found by a name is found.                                      *)
GoesOn(h, g) ==
  /\ \A c \in Values : h[c].type # "free" => g[c].type = h[c].type
  /\ \A c \in Values : \A n :
       (h[c].type = "object" /\ json_object_get_value(h, c, n) # None) =>
         json_object_get_value(g, c, n) = json_object_get_value(h, c, n)

LEMMA GoesOnStill ==
  ASSUME NEW h, NEW g, NEW k, GoesOn(h, g), GoesOn(g, k)
  PROVE  GoesOn(h, k)
BY DEF GoesOn

LEMMA WayGoesOn ==
  ASSUME NEW h, GoodHeap(h), NEW g, GoesOn(h, g), NEW S, NEW o \in Below(h, S), h[o].type = "object",
         NEW path, NEW m \in Nat, Ways(h, o, path)[m] # None
  PROVE  Ways(g, o, path)[m] = Ways(h, o, path)[m]
<1> DEFINE T == {k \in Nat : Ways(h, o, path)[k] # None => Ways(g, o, path)[k] = Ways(h, o, path)[k]}
<1>1. 0 \in T
  BY WaysStart
<1>2. ASSUME NEW k \in Nat, k \in T PROVE k + 1 \in T
  <2> DEFINE p == Ways(h, o, path)[k]
             x == Ways(h, o, path)[k + 1]
             n == path[k + 1]
  <2> SUFFICES ASSUME x # None PROVE Ways(g, o, path)[k + 1] = x
    OBVIOUS
  <2>1. p # None /\ x = json_object_get_value(h, p, n) /\ h[x].type = "object"
    BY WayBack
  <2>2. p \in Values /\ h[p].type = "object"
    <3>1. p \in Below(h, S) /\ h[p].type = "object"
      BY <2>1, WayIsBelow
    <3> QED
      BY <3>1 DEF Below
  <2>3. Ways(g, o, path)[k] = p
    BY <1>2, <2>1
  <2>4. x \in Values
    BY <2>1, <2>2, EntryOfName DEF GoodHeap
  <2> HIDE DEF p, x
  <2>5. json_object_get_value(g, p, n) = x /\ g[x].type = "object"
    BY <2>1, <2>2, <2>4 DEF GoesOn
  <2> QED
    BY <2>1, <2>3, <2>5, WayOn
<1> HIDE DEF T
<1>3. Nat \subseteq T
  BY <1>1, <1>2, Induct
<1> QED
  BY <1>3 DEF T

LEMMA DotgetGoesOn ==
  ASSUME NEW h, GoodHeap(h), NEW g, GoesOn(h, g), NEW S, NEW o \in Below(h, S), h[o].type = "object",
         NEW q \in Paths, json_object_dotget_value(h, o, q) # None
  PROVE  json_object_dotget_value(g, o, q) = json_object_dotget_value(h, o, q)
<1> DEFINE p == Along(h, o, q)
<1>1. p # None /\ json_object_dotget_value(h, o, q) = json_object_get_value(h, p, Last(q))
  BY DEF json_object_dotget_value
<1>2. Len(q) - 1 \in Nat
  BY PathHasNames
<1>3. Along(g, o, q) = p
  BY <1>1, <1>2, WayGoesOn DEF Along
<1>4. p \in Values /\ h[p].type = "object"
  BY <1>1, AlongIsBelow DEF Below
<1> HIDE DEF p
<1>5. json_object_get_value(g, p, Last(q)) = json_object_get_value(h, p, Last(q))
  BY <1>1, <1>4 DEF GoesOn
<1> QED
  BY <1>1, <1>3, <1>5 DEF json_object_dotget_value

(* What a call leaves as it was goes on. *)
LEMMA SameBlocksGoOn ==
  ASSUME NEW h, NEW g,
         \A c \in Values : h[c].type # "free" =>
           g[c].type = h[c].type /\ g[c].names = h[c].names /\ g[c].items = h[c].items
  PROVE  GoesOn(h, g)
<1>1. ASSUME NEW c \in Values, h[c].type = "object", NEW n
      PROVE  json_object_get_value(g, c, n) = json_object_get_value(h, c, n)
  <2>1. g[c].names = h[c].names /\ g[c].items = h[c].items
    BY <1>1
  <2>2. Place(g, c, n) = Place(h, c, n)
    BY <2>1 DEF Place
  <2> QED
    BY <2>1, <2>2 DEF json_object_get_value
<1> QED
  BY <1>1 DEF GoesOn

LEMMA NothingInside ==
  ASSUME NEW h \in [Values -> BlockSet], NEW v \in Values, Items(h, v) = {}
  PROVE  Within(h, v) = {v}
<1>1. {v} \in SUBSET Values /\ {v} \subseteq {v} /\ \A c \in Values : c \in {v} => Items(h, c) \subseteq {v}
  OBVIOUS
<1>2. Below(h, {v}) \subseteq {v}
  BY <1>1, BelowIsLeast
<1>3. v \in Within(h, v) /\ Within(h, v) \subseteq Values
  BY WithinBelow
<1>4. Within(h, v) \subseteq Below(h, {v})
  BY <1>3, DepthIsNat DEF Within, Below
<1> QED
  BY <1>2, <1>3, <1>4

LEMMA Appended ==
  ASSUME NEW T, NEW s \in Seq(T), NEW e \in T, NEW t, t = Append(s, e)
  PROVE  /\ DOMAIN t = 1 .. Len(s) + 1
         /\ \A i \in 1 .. Len(s) : t[i] = s[i]
         /\ t[Len(s) + 1] = e
OBVIOUS

LEMMA AddedGoesOn ==
  ASSUME NEW h, Typed(h), NEW v \in Values,
         NEW o \in Values, h[o].type = "object", NEW n \in Names, NEW r,
         Adds(r, h, o, v), Place(h, o, n) = 0, r.heap[o].names = Append(h[o].names, n),
         Typed(r.heap)
  PROVE  GoesOn(h, r.heap) /\ json_object_get_value(r.heap, o, n) = v
<1> DEFINE g == r.heap
           b == g[o]
           z == Len(h[o].names) + 1
<1>1. /\ h \in [Values -> BlockSet] /\ h[o] \in BlockSet /\ Sound(h[o])
      /\ g \in [Values -> BlockSet] /\ b \in BlockSet /\ Sound(b)
  BY DEF Typed
<1>2. /\ b.type = "object" /\ b.items = Append(h[o].items, v) /\ b.names = Append(h[o].names, n)
      /\ g = [h EXCEPT ![o] = b]
  BY DEF Adds
<1>3. /\ h[o].names \in Seq(Names) /\ h[o].items \in Seq(Values)
      /\ Len(h[o].names) = Len(h[o].items)
  BY <1>1 DEF BlockSet, Sound
<1> HIDE DEF g, b
<1>4. \A d \in Values : g[d] = IF d = o THEN b ELSE h[d]
  BY <1>1, <1>2
<1>5. /\ \A i \in DOMAIN h[o].items : /\ i \in DOMAIN b.items
                                      /\ b.items[i] = h[o].items[i] /\ b.names[i] = h[o].names[i]
      /\ z \in DOMAIN b.items /\ b.items[z] = v /\ b.names[z] = n
  <2> DEFINE ns == h[o].names
             its == h[o].items
             k == Len(its)
  <2>1. ns \in Seq(Names) /\ its \in Seq(Values) /\ k \in Nat /\ z = k + 1 /\ Len(ns) = k
        /\ DOMAIN its = 1..k
    BY <1>3
  <2>2. b.items = Append(its, v) /\ b.names = Append(ns, n)
    BY <1>2
  <2> HIDE DEF ns, its, k, z
  <2>3. /\ DOMAIN b.items = 1 .. k + 1
        /\ \A i \in 1..k : b.items[i] = its[i] /\ b.names[i] = ns[i]
        /\ b.items[k + 1] = v /\ b.names[k + 1] = n
    BY <2>1, <2>2, Appended
  <2> QED
    BY <2>1, <2>3 DEF ns, its
<1>6. \A i \in DOMAIN b.items : json_object_get_value(g, o, b.names[i]) = b.items[i]
  <2> TAKE i \in DOMAIN b.items
  <2>1. g[o] = b
    BY <1>4
  <2>2. g[o] \in BlockSet /\ Sound(g[o]) /\ g[o].type = "object" /\ i \in DOMAIN g[o].items
    BY <1>1, <1>2, <2>1
  <2>3. json_object_get_value(g, o, g[o].names[i]) = g[o].items[i]
    BY <2>2, NameOfEntry
  <2> QED
    BY <2>1, <2>3
<1>7. json_object_get_value(g, o, n) = v
  BY <1>5, <1>6
<1>8. \A m : json_object_get_value(h, o, m) # None =>
               json_object_get_value(g, o, m) = json_object_get_value(h, o, m)
  <2> TAKE m
  <2> HAVE json_object_get_value(h, o, m) # None
  <2>1. PICK i \in DOMAIN h[o].items :
          h[o].items[i] = json_object_get_value(h, o, m) /\ h[o].names[i] = m
    BY EntryOfName
  <2> QED
    BY <1>5, <1>6, <2>1
<1>9. \A c \in Values : c # o => \A m : json_object_get_value(g, c, m) = json_object_get_value(h, c, m)
  <2> TAKE c \in Values
  <2> HAVE c # o
  <2> TAKE m
  <2>1. g[c] = h[c]
    BY <1>4
  <2>2. Place(g, c, m) = Place(h, c, m)
    BY <2>1 DEF Place
  <2> QED
    BY <2>1, <2>2 DEF json_object_get_value
<1>10. GoesOn(h, g)
  BY <1>2, <1>4, <1>8, <1>9 DEF GoesOn
<1> QED
  BY <1>7, <1>10 DEF g

(* A step along a dotted name, and all its steps. *)
LEMMA StepFinds ==
  ASSUME NEW s, NEW S, OnTheWay(s, S), NEW n \in Names, NEW mem \in Int
  PROVE  LET t == Into(s, n, mem)
         IN  /\ GoesOn(s.heap, t.heap)
             /\ t.ok => /\ s.ok /\ t.object \in Values
                        /\ json_object_get_value(t.heap, s.object, n) = t.object
                        /\ t.heap[t.object].type = "object"
<1> DEFINE x == json_object_get_value(s.heap, s.object, n)
           found == json_value_get(s.heap, x, "object")
           new == malloc(s.heap)
           none == << >>
           b == Block("object", none, none, 0)
           g == [s.heap EXCEPT ![new] = b]
           r == json_object_add(g, s.object, n, new, mem)
           t == Into(s, n, mem)
<1>1. /\ s = [heap |-> s.heap, object |-> s.object, ok |-> s.ok] /\ s.ok \in BOOLEAN
      /\ GoodHeap(s.heap) /\ Rooted(s.heap, S)
  BY DEF OnTheWay
<1>2. GoesOn(s.heap, s.heap)
  BY SameBlocksGoOn
<1>3. CASE ~ s.ok
  <2>1. t = s
    BY <1>3 DEF Into
  <2> QED
    BY <1>2, <1>3, <2>1
<1>4. CASE s.ok /\ found # None
  <2>1. t = [s EXCEPT !.object = found]
    BY <1>4 DEF Into
  <2>2. found = x /\ x # None
    BY <1>4 DEF json_value_get
  <2>3. s.object \in Values /\ s.heap[s.object].type = "object" /\ Typed(s.heap)
    BY <1>4 DEF OnTheWay, GoodHeap
  <2>4. found \in Values /\ s.heap[found].type = "object"
    BY <1>4, <2>3, LookUp
  <2> HIDE DEF found, t, x
  <2>5. t = [heap |-> s.heap, object |-> found, ok |-> s.ok]
    BY <1>1, <2>1
  <2>6. t.heap = s.heap /\ t.object = found
    BY <2>5
  <2> QED
    BY <1>2, <1>4, <2>2, <2>4, <2>6 DEF t, x
<1>5. CASE s.ok /\ found = None /\ Unused(s.heap) = {}
  <2>1. t = [s EXCEPT !.ok = FALSE]
    BY <1>5 DEF Into
  <2> HIDE DEF t
  <2>2. t = [heap |-> s.heap, object |-> s.object, ok |-> FALSE]
    BY <1>1, <2>1
  <2>3. t.heap = s.heap /\ t.ok = FALSE
    BY <2>2
  <2> QED
    BY <1>2, <2>3 DEF t
<1>6. CASE s.ok /\ found = None /\ Unused(s.heap) # {}
  <2> DEFINE P == S \cup {new}
  <2>1. t = IF r.ok THEN [heap |-> r.heap, object |-> new, ok |-> TRUE]
            ELSE [s EXCEPT !.heap = json_value_free(r.heap, new), !.ok = FALSE]
    BY <1>6 DEF Into
  <2>2. b \in BlockSet /\ Sound(b) /\ b.type = "object" /\ b.type # "free" /\ b.items = none
    BY EmptyBlocks
  <2>3. s.object \in Values /\ s.heap[s.object].type = "object"
    BY <1>6 DEF OnTheWay
  <2>4. s.heap[new].type = "free"
    BY <1>6 DEF malloc, Unused
  <2>5. DOMAIN none = {}
    OBVIOUS
  <2> HIDE DEF b, t, found, x, none
  <2>6. /\ new \in Values
        /\ GoodHeap(g) /\ Rooted(g, P)
        /\ \A d \in Values : g[d] = IF d = new THEN b ELSE s.heap[d]
    BY <1>1, <1>6, <2>2, FreshBlock DEF none
  <2>7. new \in P
    OBVIOUS
  <2> HIDE DEF g, new, P
  <2>8. GoesOn(s.heap, g)
    BY <2>4, <2>6, SameBlocksGoOn
  <2>9. Typed(g) /\ g[s.object].type = "object" /\ g[new].type = "object" /\ DOMAIN g[new].items = {}
    BY <2>2, <2>3, <2>5, <2>6 DEF GoodHeap
  <2>10. Takes(r, P, new)
    BY <2>3, <2>6, <2>7, <2>9, ObjectAdds
  <2>11. \/ Refuses(r, g)
         \/ /\ Adds(r, g, s.object, new)
            /\ Place(g, s.object, n) = 0
            /\ r.heap[s.object].names = Append(g[s.object].names, n)
    BY <2>3, <2>6, <2>9, ObjectAddsOrRefuses
  <2> HIDE DEF r
  <2>12. Typed(r.heap)
    BY <2>10 DEF Takes, GoodHeap
  <2>13. CASE r.ok
    <3>1. t = [heap |-> r.heap, object |-> new, ok |-> TRUE]
      BY <2>1, <2>13
    <3>2. t.heap = r.heap /\ t.object = new
      BY <3>1
    <3>3. /\ Adds(r, g, s.object, new)
          /\ Place(g, s.object, n) = 0
          /\ r.heap[s.object].names = Append(g[s.object].names, n)
      BY <2>11, <2>13 DEF Refuses
    <3>4. GoesOn(g, r.heap) /\ json_object_get_value(r.heap, s.object, n) = new
      <4> DEFINE o == s.object
      <4>1. o \in Values /\ g[o].type = "object" /\ Typed(g) /\ new \in Values
        BY <2>3, <2>6, <2>9
      <4>2. Adds(r, g, o, new) /\ Place(g, o, n) = 0 /\ r.heap[o].names = Append(g[o].names, n)
        BY <3>3
      <4> HIDE DEF o
      <4>3. GoesOn(g, r.heap) /\ json_object_get_value(r.heap, o, n) = new
        BY <2>12, <4>1, <4>2, AddedGoesOn
      <4> QED
        BY <4>3 DEF o
    <3>5. r.heap[new].type = "object"
      BY <2>6, <2>9, <3>4 DEF GoesOn
    <3>6. GoesOn(s.heap, r.heap)
      BY <2>8, <3>4, GoesOnStill
    <3> QED
      BY <1>6, <2>6, <3>2, <3>4, <3>5, <3>6 DEF t
  <2>14. CASE ~ r.ok
    <3> DEFINE f == json_value_free(r.heap, new)
    <3>1. t = [s EXCEPT !.heap = f, !.ok = FALSE]
      BY <2>1, <2>14
    <3>2. Refuses(r, g)
      BY <2>11, <2>14 DEF Adds
    <3>3. /\ \A d \in Values : /\ r.heap[d].items = g[d].items /\ r.heap[d].names = g[d].names
                               /\ r.heap[d].type = g[d].type
      BY <3>2 DEF Refuses
    <3>4. Within(r.heap, new) = {new}
      <4>1. Items(r.heap, new) = {}
        BY <2>6, <2>9, <3>3 DEF Items
      <4> QED
        BY <2>6, <2>12, <4>1, NothingInside DEF Typed
    <3>5. \A d \in Values : f[d] = IF d \in Within(r.heap, new) THEN Free ELSE r.heap[d]
      BY <2>6, <2>12, Freed
    <3>6. \A d \in Values : s.heap[d].type # "free" =>
             f[d].type = s.heap[d].type /\ f[d].names = s.heap[d].names /\ f[d].items = s.heap[d].items
      BY <2>4, <2>6, <3>3, <3>4, <3>5
    <3> HIDE DEF f
    <3>7. GoesOn(s.heap, f)
      BY <3>6, SameBlocksGoOn
    <3>8. t = [heap |-> f, object |-> s.object, ok |-> FALSE]
      BY <1>1, <3>1
    <3>9. t.heap = f /\ t.ok = FALSE
      BY <3>8
    <3> QED
      BY <3>7, <3>9 DEF t
  <2> QED
    BY <2>13, <2>14
<1> QED
  BY <1>1, <1>3, <1>4, <1>5, <1>6

LEMMA WalkFinds ==
  ASSUME NEW h, GoodHeap(h), NEW S, Rooted(h, S), NEW o \in Below(h, S), h[o].type = "object",
         NEW path \in Paths, NEW mem \in Int
  PROVE  LET s == Walks(h, o, path, mem)[Len(path) - 1]
         IN  /\ GoesOn(h, s.heap)
             /\ o \in Below(s.heap, S) /\ s.heap[o].type = "object"
             /\ s.ok => Along(s.heap, o, path) = s.object
<1> DEFINE at == Walks(h, o, path, mem)
           There(k) == /\ OnTheWay(at[k], S)
                       /\ Kept(h, S, at[k].heap, S)
                       /\ GoesOn(h, at[k].heap)
                       /\ at[k].ok => Ways(at[k].heap, o, path)[k] = at[k].object
           T == {k \in Nat : k < Len(path) => There(k)}
<1>1. path \in Seq(Names) /\ Len(path) \in Nat /\ Len(path) - 1 \in Nat
  BY PathHasNames
<1>2. o \in Values /\ S \in SUBSET Values /\ h \in [Values -> BlockSet]
  BY DEF Below, Rooted, GoodHeap, Typed
<1>3. \A g : (GoesOn(h, g) /\ Kept(h, S, g, S)) => (g[o].type = "object" /\ o \in Below(g, S))
  BY <1>2 DEF GoesOn, Kept
<1>4. 0 \in T
  <2>1. at[0] = [heap |-> h, object |-> o, ok |-> TRUE]
    BY WalksStart
  <2> HIDE DEF at
  <2>2. at[0].heap = h /\ at[0].object = o /\ at[0].ok = TRUE
    BY <2>1
  <2>3. OnTheWay(at[0], S)
    BY <1>2, <2>1, <2>2 DEF OnTheWay
  <2>4. GoesOn(h, h) /\ Ways(h, o, path)[0] = o
    BY SameBlocksGoOn, WaysStart
  <2>5. Kept(h, S, h, S)
    BY <1>2, SameItemsKeep
  <2> QED
    BY <2>2, <2>3, <2>4, <2>5
<1>5. ASSUME NEW k \in Nat, k \in T PROVE k + 1 \in T
  <2> SUFFICES ASSUME k + 1 < Len(path) PROVE There(k + 1)
    BY <1>1
  <2>1. k < Len(path) /\ path[k + 1] \in Names
    BY <1>1
  <2> DEFINE s == at[k]
             t == at[k + 1]
             n == path[k + 1]
  <2>2. /\ OnTheWay(s, S) /\ Kept(h, S, s.heap, S) /\ GoesOn(h, s.heap)
        /\ s.ok => Ways(s.heap, o, path)[k] = s.object
    BY <2>1, <1>5
  <2> DEFINE left == mem - 2 * k
  <2>3. t = Into(s, n, left) /\ left \in Int
    <3>1. t = Into(s, n, left)
      BY WalksStep, Zenon
    <3> QED
      BY <3>1
  <2> HIDE DEF at, s, t, left
  <2>4. OnTheWay(t, S)
    BY <2>1, <2>2, <2>3, StepInto
  <2>5. /\ GoesOn(s.heap, t.heap)
        /\ t.ok => /\ s.ok /\ t.object \in Values
                   /\ json_object_get_value(t.heap, s.object, n) = t.object
                   /\ t.heap[t.object].type = "object"
    BY <2>1, <2>2, <2>3, StepFinds
  <2>6. GoesOn(h, t.heap)
    BY <2>2, <2>5, GoesOnStill
  <2>7. Kept(h, S, t.heap, S)
    <3>1. S \in SUBSET S /\ (s.ok => s.object \in Below(s.heap, S))
      <4> SUFFICES ASSUME s.ok PROVE s.object \in Below(s.heap, S)
        OBVIOUS
      <4>1. Ways(s.heap, o, path)[k] = s.object /\ s.object # None
        BY <2>2, TreeAssumption DEF OnTheWay
      <4>2. o \in Below(s.heap, S) /\ s.heap[o].type = "object" /\ GoodHeap(s.heap)
        BY <1>3, <2>2 DEF OnTheWay
      <4> QED
        BY <4>1, <4>2, WayIsBelow
    <3>2. Kept(s.heap, S, t.heap, S)
      BY <2>1, <2>2, <2>3, <3>1, StepKeeps
    <3> QED
      BY <2>2, <3>2, KeptOn
  <2>8. ASSUME t.ok PROVE Ways(t.heap, o, path)[k + 1] = t.object
    <3>1. /\ s.ok /\ s.object \in Values /\ s.object # None
          /\ t.object \in Values /\ t.object # None
      BY <2>2, <2>5, <2>8, TreeAssumption DEF OnTheWay
    <3>2. Ways(s.heap, o, path)[k] = s.object
      BY <2>2, <3>1
    <3>3. o \in Below(s.heap, S) /\ s.heap[o].type = "object" /\ GoodHeap(s.heap)
      BY <1>3, <2>2 DEF OnTheWay
    <3>4. Ways(t.heap, o, path)[k] = s.object
      BY <2>5, <3>1, <3>2, <3>3, WayGoesOn
    <3> DEFINE g == t.heap
               p == s.object
               x == t.object
    <3>5. /\ p # None /\ Ways(g, o, path)[k] = p
          /\ x # None /\ json_object_get_value(g, p, path[k + 1]) = x /\ g[x].type = "object"
      BY <2>5, <2>8, <3>1, <3>4
    <3> HIDE DEF g, p, x
    <3>6. Ways(g, o, path)[k + 1] = x
      BY <3>5, WayOn
    <3> QED
      BY <3>6 DEF g, x
  <2> QED
    BY <2>4, <2>6, <2>7, <2>8 DEF t
<1> HIDE DEF T
<1>6. Nat \subseteq T
  BY <1>4, <1>5, Induct
<1>7. There(Len(path) - 1)
  BY <1>1, <1>6 DEF T
<1> QED
  BY <1>3, <1>7 DEF Along

-----------------------------------------------------------------------------
(* There is one way from an object to a value down from it.  A way goes    *)
(* down a level with each name, and does not come back to where it began.  *)
LEMMA WayLevel ==
  ASSUME NEW h, GoodHeap(h), NEW S, NEW o \in Below(h, S), h[o].type = "object", NEW path,
         NEW m \in Nat, Ways(h, o, path)[m] # None
  PROVE  Ways(h, o, path)[m] \in Levels(h, o)[m]
<1> DEFINE T == {k \in Nat : Ways(h, o, path)[k] # None => Ways(h, o, path)[k] \in Levels(h, o)[k]}
<1>1. 0 \in T
  BY WaysStart, LevelsStep
<1>2. ASSUME NEW k \in Nat, k \in T PROVE k + 1 \in T
  <2> DEFINE p == Ways(h, o, path)[k]
             x == Ways(h, o, path)[k + 1]
             n == path[k + 1]
  <2> SUFFICES ASSUME x # None PROVE x \in Levels(h, o)[k + 1]
    OBVIOUS
  <2>1. p # None /\ x = json_object_get_value(h, p, n)
    BY WayBack
  <2>2. p \in Values /\ h[p].type = "object"
    <3>1. p \in Below(h, S) /\ h[p].type = "object"
      BY <2>1, WayIsBelow
    <3> QED
      BY <3>1 DEF Below
  <2>3. p \in Levels(h, o)[k]
    BY <1>2, <2>1
  <2> HIDE DEF p, x
  <2>4. x \in Items(h, p)
    BY <2>1, <2>2, EntryOfName DEF GoodHeap
  <2>5. Levels(h, o)[k + 1] = Levels(h, o)[k] \cup UNION {Items(h, w) : w \in Levels(h, o)[k]}
    BY LevelsStep
  <2> QED
    BY <2>3, <2>4, <2>5
<1> HIDE DEF T
<1>3. Nat \subseteq T
  BY <1>1, <1>2, Induct
<1> QED
  BY <1>3 DEF T

(* What a name leads on to is an entry, at the name's place. *)
LEMMA WayEntry ==
  ASSUME NEW h, GoodHeap(h), NEW S, NEW o \in Below(h, S), h[o].type = "object", NEW path,
         NEW k \in Nat, Ways(h, o, path)[k + 1] # None
  PROVE  LET p == Ways(h, o, path)[k]
             x == Ways(h, o, path)[k + 1]
             i == Place(h, p, path[k + 1])
         IN  /\ p # None /\ p \in Values /\ p \in Below(h, S) /\ h[p].type = "object"
             /\ x \in Values /\ h[x].type = "object"
             /\ i \in DOMAIN h[p].items /\ h[p].items[i] = x /\ h[p].names[i] = path[k + 1]
<1> DEFINE p == Ways(h, o, path)[k]
           x == Ways(h, o, path)[k + 1]
           n == path[k + 1]
<1>1. p # None /\ x = json_object_get_value(h, p, n) /\ h[x].type = "object" /\ x # None
  BY WayBack
<1>2. p \in Below(h, S) /\ h[p].type = "object"
  BY <1>1, WayIsBelow
<1>3. p \in Values
  BY <1>2 DEF Below
<1> HIDE DEF p, x, n
<1>4. /\ Place(h, p, n) \in DOMAIN h[p].items /\ h[p].items[Place(h, p, n)] = x
      /\ h[p].names[Place(h, p, n)] = n /\ x \in Values
  BY <1>1, <1>2, <1>3, EntryOfName DEF GoodHeap
<1> QED
  BY <1>1, <1>2, <1>3, <1>4 DEF p, x, n

LEMMA NoWayBack ==
  ASSUME NEW h, GoodHeap(h), NEW S, Rooted(h, S), NEW o \in Below(h, S), h[o].type = "object",
         NEW path, NEW k \in Nat, Ways(h, o, path)[k + 1] # None
  PROVE  Ways(h, o, path)[k + 1] # o
<1> DEFINE c == Ways(h, o, path)[k]
           x == Ways(h, o, path)[k + 1]
           i == Place(h, c, path[k + 1])
<1>1. c # None /\ c \in Below(h, S) /\ i \in DOMAIN h[c].items /\ h[c].items[i] = x
  BY WayEntry
<1>2. c \in Levels(h, o)[k]
  BY <1>1, WayLevel
<1> HIDE DEF c, x, i
<1>3. PICK r \in S, n \in Nat : c \in Levels(h, r)[n]
  BY <1>1 DEF Below
<1>4. c \notin Levels(h, h[c].items[i])[k]
  BY <1>1, <1>3, NotInside
<1> QED
  BY <1>1, <1>2, <1>4 DEF x

SameWay(p, q, j) == \A i \in Nat : i < j => p[i + 1] = q[i + 1]

LEMMA OneWay ==
  ASSUME NEW h, GoodHeap(h), NEW S, Rooted(h, S), NEW o \in Below(h, S), h[o].type = "object",
         NEW p, NEW q, NEW j \in Nat, NEW k \in Nat,
         Ways(h, o, p)[j] # None, Ways(h, o, p)[j] = Ways(h, o, q)[k]
  PROVE  j = k /\ SameWay(p, q, j)
<1> DEFINE P(n) == Ways(h, o, p)[n]
           Q(n) == Ways(h, o, q)[n]
           T == {n \in Nat : \A l \in Nat : (P(n) # None /\ P(n) = Q(l)) => n = l /\ SameWay(p, q, n)}
<1>1. P(0) = o /\ Q(0) = o
  BY WaysStart
<1>2. \A l \in Nat : l = 0 \/ l - 1 \in Nat
  OBVIOUS
<1>3. ASSUME NEW l \in Nat, l # 0, Q(l) = o PROVE FALSE
  <2>1. l - 1 \in Nat /\ (l - 1) + 1 = l
    BY <1>3
  <2>2. o # None
    BY TreeAssumption DEF Below
  <2> QED
    BY <1>3, <2>1, <2>2, NoWayBack
<1>4. 0 \in T
  BY <1>1, <1>3 DEF SameWay
<1>5. ASSUME NEW n \in Nat, n \in T PROVE n + 1 \in T
  <2> SUFFICES ASSUME NEW l \in Nat, P(n + 1) # None, P(n + 1) = Q(l)
               PROVE  n + 1 = l /\ SameWay(p, q, n + 1)
    OBVIOUS
  <2>1. l # 0
    <3>1. P(n + 1) # o
      BY NoWayBack
    <3> QED
      BY <1>1, <3>1
  <2>2. PICK m \in Nat : l = m + 1
    BY <1>2, <2>1
  <2> DEFINE c == P(n)
             d == Q(m)
             i == Place(h, c, p[n + 1])
             e == Place(h, d, q[m + 1])
  <2>3. /\ c # None /\ c \in Values /\ i \in DOMAIN h[c].items /\ h[c].items[i] = P(n + 1)
        /\ h[c].names[i] = p[n + 1]
    BY WayEntry
  <2>4. /\ d # None /\ d \in Values /\ e \in DOMAIN h[d].items /\ h[d].items[e] = Q(m + 1)
        /\ h[d].names[e] = q[m + 1]
    <3>1. Q(m + 1) # None
      BY <2>2
    <3> QED
      BY <3>1, WayEntry
  <2>5. c = d /\ i = e
    <3>1. h[c].items[i] = h[d].items[e]
      BY <2>2, <2>3, <2>4
    <3>2. OnePlace(h)
      BY DEF GoodHeap
    <3> HIDE DEF c, d, i, e
    <3> QED
      BY <2>3, <2>4, <3>1, <3>2 DEF OnePlace
  <2>6. n = m /\ SameWay(p, q, n)
    BY <1>5, <2>3, <2>5
  <2>7. p[n + 1] = q[n + 1]
    BY <2>3, <2>4, <2>5, <2>6
  <2>8. SameWay(p, q, n + 1)
    BY <2>6, <2>7 DEF SameWay
  <2> QED
    BY <2>2, <2>6, <2>8
<1> HIDE DEF T
<1>6. Nat \subseteq T
  BY <1>4, <1>5, Induct
<1> QED
  BY <1>6 DEF T

-----------------------------------------------------------------------------
(* An entry is replaced.  All but what was freed is as it was, but for the *)
(* value of one name.                                                      *)
Instead(h, g, p, n, v, x) ==
  /\ \A c \in Values : c \notin Within(h, x) => g[c].type = h[c].type
  /\ \A c \in Values : \A m :
       (c \notin Within(h, x) /\ h[c].type = "object" /\ ~ (c = p /\ m = n)) =>
         json_object_get_value(g, c, m) = json_object_get_value(h, c, m)
  /\ json_object_get_value(g, p, n) = v

LEMMA ReplacedInstead ==
  ASSUME NEW h, GoodHeap(h), NEW S, Rooted(h, S), NEW v \in Values, NEW p \in Below(h, S),
         h[p].type = "object", NEW n, NEW i, i = Place(h, p, n), i # 0,
         NEW g, g = [json_value_free(h, h[p].items[i]) EXCEPT ![p].items[i] = v]
  PROVE  Instead(h, g, p, n, v, h[p].items[i])
<1> DEFINE x == h[p].items[i]
           W == Within(h, x)
           f == json_value_free(h, x)
           b == [h[p] EXCEPT !.items[i] = v]
<1>1. /\ Typed(h) /\ h \in [Values -> BlockSet] /\ p \in Values
      /\ Sound(h[p]) /\ h[p] \in BlockSet
  BY DEF GoodHeap, Typed, Below
<1>2. i \in DOMAIN h[p].items /\ h[p].names[i] = n
  BY <1>1, PlaceOfName
<1>3. x \in Values
  <2>1. h[p].items \in Seq(Values)
    BY <1>1 DEF BlockSet
  <2> QED
    BY <1>2, <2>1
<1>4. p \notin W
  BY <1>2, NotInsideItself
<1>5. /\ \A w \in Values : f[w] = IF w \in W THEN Free ELSE h[w]
      /\ f \in [Values -> BlockSet]
  BY <1>1, <1>3, Freed DEF Typed
<1>6. /\ b \in BlockSet /\ b.type = h[p].type /\ b.names = h[p].names
      /\ \A j \in DOMAIN h[p].items : b.items[j] = IF j = i THEN v ELSE h[p].items[j]
  <2>1. h[p] \in BlockSet /\ Sound(h[p]) /\ v \in Values
    BY <1>1
  <2>2. b = [h[p] EXCEPT !.items[i] = v]
    OBVIOUS
  <2>3. b.names = h[p].names
    BY <1>1 DEF BlockSet
  <2> HIDE DEF b
  <2>4. /\ b \in BlockSet /\ b.type = h[p].type
        /\ \A j \in DOMAIN h[p].items : b.items[j] = IF j = i THEN v ELSE h[p].items[j]
    BY <1>2, <2>1, <2>2, EntryReplaced
  <2> QED
    BY <2>3, <2>4
<1>7. \A d \in Values : g[d] = IF d = p THEN b ELSE f[d]
  <2>1. f[p] = h[p]
    BY <1>1, <1>4, <1>5
  <2>2. g = [f EXCEPT ![p] = [f[p] EXCEPT !.items[i] = v]]
    OBVIOUS
  <2>3. g = [f EXCEPT ![p] = b]
    BY <2>1, <2>2
  <2> HIDE DEF f, b
  <2> QED
    BY <1>1, <1>5, <2>3
<1> HIDE DEF x, W, f, b
<1>8. \A c \in Values : c \notin W => g[c].type = h[c].type
  BY <1>5, <1>6, <1>7
<1>9. ASSUME NEW c \in Values, c \notin W, c # p, NEW m
      PROVE  json_object_get_value(g, c, m) = json_object_get_value(h, c, m)
  <2>1. g[c] = h[c]
    BY <1>5, <1>7, <1>9
  <2> DEFINE j == Place(h, c, m)
  <2>2. Place(g, c, m) = j
    BY <2>1 DEF Place
  <2>3. json_object_get_value(h, c, m) = IF j = 0 THEN None ELSE h[c].items[j]
    BY DEF json_object_get_value
  <2> HIDE DEF j
  <2>4. json_object_get_value(g, c, m) = IF j = 0 THEN None ELSE g[c].items[j]
    BY <2>2 DEF json_object_get_value
  <2> QED
    BY <2>1, <2>3, <2>4
<1>10. g[p] = b /\ \A m : Place(g, p, m) = Place(h, p, m)
  <2>1. g[p] = b
    BY <1>1, <1>7
  <2>2. g[p].names = h[p].names
    BY <1>6, <2>1
  <2> QED
    BY <2>1, <2>2 DEF Place
<1>11. ASSUME NEW m, m # n
       PROVE  json_object_get_value(g, p, m) = json_object_get_value(h, p, m)
  <2> DEFINE j == Place(h, p, m)
  <2>1. j # 0 => j \in DOMAIN h[p].items /\ h[p].names[j] = m
    BY <1>1, PlaceOfName
  <2>2. j # i
    BY <1>2, <1>11, <2>1
  <2>3. Place(g, p, m) = j
    BY <1>10
  <2> HIDE DEF j
  <2>4. j # 0 => g[p].items[j] = h[p].items[j]
    BY <1>6, <1>10, <2>1, <2>2
  <2>5. json_object_get_value(g, p, m) = IF j = 0 THEN None ELSE g[p].items[j]
    BY <2>3 DEF json_object_get_value
  <2>6. json_object_get_value(h, p, m) = IF j = 0 THEN None ELSE h[p].items[j]
    BY DEF json_object_get_value, j
  <2> QED
    BY <2>4, <2>5, <2>6
<1>12. json_object_get_value(g, p, n) = v
  <2>1. Place(g, p, n) = i
    BY <1>10
  <2>2. g[p].items[i] = v
    BY <1>2, <1>6, <1>10
  <2> QED
    BY <2>1, <2>2 DEF json_object_get_value
<1>13. Instead(h, g, p, n, v, x)
  BY <1>8, <1>9, <1>11, <1>12 DEF Instead, W
<1> QED
  BY <1>13 DEF x

(* A way that began inside a value stays inside. *)
LEMMA WayStaysWithin ==
  ASSUME NEW h, GoodHeap(h), NEW S, NEW o \in Below(h, S), h[o].type = "object", NEW path,
         NEW x \in Values, o \in Within(h, x), NEW m \in Nat, Ways(h, o, path)[m] # None
  PROVE  Ways(h, o, path)[m] \in Within(h, x)
<1> DEFINE P(k) == Ways(h, o, path)[k]
           T == {k \in Nat : P(k) # None => P(k) \in Within(h, x)}
<1>1. 0 \in T
  BY WaysStart
<1>2. ASSUME NEW k \in Nat, k \in T PROVE k + 1 \in T
  <2> SUFFICES ASSUME P(k + 1) # None PROVE P(k + 1) \in Within(h, x)
    OBVIOUS
  <2> DEFINE p == P(k)
             y == P(k + 1)
             i == Place(h, p, path[k + 1])
  <2>1. p # None /\ p \in Values /\ i \in DOMAIN h[p].items /\ h[p].items[i] = y
    BY WayEntry
  <2>2. p \in Within(h, x)
    BY <1>2, <2>1
  <2>3. h \in [Values -> BlockSet]
    BY DEF GoodHeap, Typed
  <2> HIDE DEF p, y, i
  <2>4. Items(h, p) \subseteq Within(h, x)
    BY <2>2, <2>3, WithinIsClosed
  <2>5. y \in Items(h, p)
    BY <2>1 DEF Items
  <2> QED
    BY <2>4, <2>5 DEF y
<1> HIDE DEF T
<1>3. Nat \subseteq T
  BY <1>1, <1>2, Induct
<1> QED
  BY <1>3 DEF T

(* A way that does not go through the entry that is replaced is a way      *)
(* still.                                                                  *)
PassesBy(h, o, q, m, p, n) == \A k \in Nat : k < m => ~ (Ways(h, o, q)[k] = p /\ q[k + 1] = n)

(* The entry x of p at the place of n is replaced, and o is not in it. *)
Beside(h, g, o, p, n, v, x) ==
  /\ p \in Values /\ h[p].type = "object" /\ Place(h, p, n) # 0 /\ x = h[p].items[Place(h, p, n)]
  /\ o \notin Within(h, x)
  /\ Instead(h, g, p, n, v, x)

LEMMA WayStaysOutside ==
  ASSUME NEW h, GoodHeap(h), NEW S, Rooted(h, S), NEW o \in Below(h, S), h[o].type = "object",
         NEW g, NEW p, NEW n, NEW v, NEW x, Beside(h, g, o, p, n, v, x),
         NEW q, NEW m \in Nat, Ways(h, o, q)[m] # None, PassesBy(h, o, q, m, p, n)
  PROVE  Ways(h, o, q)[m] \notin Within(h, x) /\ Ways(g, o, q)[m] = Ways(h, o, q)[m]
<1> DEFINE Q(k) == Ways(h, o, q)[k]
           G(k) == Ways(g, o, q)[k]
           W == Within(h, x)
           i == Place(h, p, n)
           T == {k \in Nat : (k <= m /\ Q(k) # None) => (Q(k) \notin W /\ G(k) = Q(k))}
<1>1. /\ p \in Values /\ h[p].type = "object" /\ i # 0 /\ x = h[p].items[i]
      /\ o \notin W /\ Instead(h, g, p, n, v, x)
  BY DEF Beside
<1>2. /\ h \in [Values -> BlockSet] /\ OnePlace(h) /\ h[p] \in BlockSet /\ Sound(h[p])
  BY <1>1 DEF GoodHeap, Typed
<1>3. i \in DOMAIN h[p].items /\ h[p].names[i] = n
  BY <1>1, <1>2, PlaceOfName
<1>4. x \in Values
  <2>1. h[p].items \in Seq(Values)
    BY <1>2 DEF BlockSet
  <2> QED
    BY <1>1, <1>3, <2>1
<1>5. 0 \in T
  BY <1>1, WaysStart
<1>6. ASSUME NEW k \in Nat, k \in T PROVE k + 1 \in T
  <2> SUFFICES ASSUME k + 1 <= m, Q(k + 1) # None
               PROVE  Q(k + 1) \notin W /\ G(k + 1) = Q(k + 1)
    OBVIOUS
  <2> DEFINE c == Q(k)
             y == Q(k + 1)
             e == Place(h, c, q[k + 1])
  <2>1. /\ c # None /\ c \in Values /\ h[c].type = "object"
        /\ y \in Values /\ h[y].type = "object"
        /\ e \in DOMAIN h[c].items /\ h[c].items[e] = y /\ h[c].names[e] = q[k + 1]
    BY WayEntry
  <2>2. c \notin W /\ G(k) = c
    BY <1>6, <2>1
  <2>3. ~ (c = p /\ q[k + 1] = n)
    <3>1. k < m
      OBVIOUS
    <3> QED
      BY <3>1 DEF PassesBy
  <2>4. y \notin W
    <3>1. y # x
      <4> SUFFICES ASSUME y = x PROVE FALSE
        OBVIOUS
      <4>1. h[c].items[e] = h[p].items[i]
        BY <1>1, <2>1
      <4> HIDE DEF c, e
      <4>2. c = p /\ e = i
        BY <1>1, <1>2, <1>3, <2>1, <4>1 DEF OnePlace
      <4> QED
        BY <1>3, <2>1, <2>3, <4>2
    <3> HIDE DEF c, e, y, W
    <3> SUFFICES ASSUME y \in W PROVE FALSE
      OBVIOUS
    <3>2. c \in Within(h, x)
      BY <1>2, <1>4, <2>1, <3>1, WithinBelow DEF W
    <3> QED
      BY <2>2, <3>2 DEF W
  <2>5. G(k + 1) = y
    <3>1. json_object_get_value(h, c, q[k + 1]) = y /\ y # None
      BY WayBack
    <3>2. json_object_get_value(g, c, q[k + 1]) = y
      BY <1>1, <2>1, <2>2, <2>3, <3>1 DEF Instead
    <3>3. g[y].type = "object"
      BY <1>1, <2>1, <2>4 DEF Instead
    <3>4. Ways(g, o, q)[k] = c
      BY <2>2
    <3> HIDE DEF c, y
    <3> QED
      BY <2>1, <3>1, <3>2, <3>3, <3>4, WayOn
  <2> QED
    BY <2>4, <2>5
<1> HIDE DEF T
<1>7. Nat \subseteq T
  BY <1>5, <1>6, Induct
<1>8. m <= m
  OBVIOUS
<1> QED
  BY <1>7, <1>8 DEF T

LEMMA PathPrefix ==
  ASSUME NEW p \in Paths, NEW q \in Paths, Len(p) <= Len(q), SameWay(p, q, Len(p))
  PROVE  IsPrefix(p, q)
<1> DEFINE z == Len(p)
           a == SubSeq(p, 1, z)
           b == SubSeq(q, 1, z)
<1>1. p \in Seq(Names) /\ q \in Seq(Names) /\ z \in Nat /\ Len(q) \in Nat
  BY PathHasNames
<1>2. \A i \in 1..z : p[i] = q[i]
  <2> TAKE i \in 1..z
  <2>1. i - 1 \in Nat /\ i - 1 < z /\ (i - 1) + 1 = i
    BY <1>1
  <2> QED
    BY <2>1 DEF SameWay
<1>3. a \in Seq(Names) /\ Len(a) = z /\ \A i \in 1..z : a[i] = p[i]
  BY <1>1
<1>4. b \in Seq(Names) /\ Len(b) = z /\ \A i \in 1..z : b[i] = q[i]
  BY <1>1
<1> HIDE DEF z, a, b
<1>5. a = b
  BY <1>1, <1>2, <1>3, <1>4
<1> QED
  BY <1>5 DEF IsPrefix, a, b, z

(* An entry along a dotted name is replaced: the new one is found there,   *)
(* and only dotted names that begin with that one lead elsewhere.          *)
LEMMA ReplacedFinds ==
  ASSUME NEW h, GoodHeap(h), NEW S, Rooted(h, S), NEW o \in Below(h, S), h[o].type = "object",
         NEW path \in Paths, NEW v \in Values, NEW p, p # None, Along(h, o, path) = p,
         NEW i, i = Place(h, p, Last(path)), i # 0,
         NEW g, g = [json_value_free(h, h[p].items[i]) EXCEPT ![p].items[i] = v]
  PROVE  /\ json_object_dotget_value(g, o, path) = v
         /\ \A q \in Paths : \/ json_object_dotget_value(h, o, q) = None
                             \/ IsPrefix(path, q)
                             \/ json_object_dotget_value(g, o, q) = json_object_dotget_value(h, o, q)
<1> DEFINE m == Len(path) - 1
           n == Last(path)
           x == h[p].items[i]
<1>1. /\ path \in Seq(Names) /\ Len(path) \in Nat /\ m \in Nat /\ m + 1 = Len(path)
      /\ path[m + 1] = n
  BY PathHasNames DEF Last
<1>2. p \in Below(h, S) /\ h[p].type = "object" /\ p \in Values
  BY AlongIsBelow DEF Below
<1>3. h \in [Values -> BlockSet] /\ h[p] \in BlockSet /\ Sound(h[p])
  BY <1>2 DEF GoodHeap, Typed
<1>4. i \in DOMAIN h[p].items /\ h[p].names[i] = n
  BY <1>2, <1>3, PlaceOfName
<1>5. x \in Values
  <2>1. h[p].items \in Seq(Values)
    BY <1>3 DEF BlockSet
  <2> QED
    BY <1>4, <2>1
<1>6. Ways(h, o, path)[m] = p
  BY DEF Along
<1>7. p \notin Within(h, x)
  BY <1>2, <1>4, NotInsideItself
<1>8. i = Place(h, p, n)
  OBVIOUS
<1>9. Instead(h, g, p, n, v, x)
  BY <1>2, ReplacedInstead
<1> HIDE DEF m, n, x
<1>10. o \notin Within(h, x)
  BY <1>1, <1>5, <1>6, <1>7, WayStaysWithin
<1>11. ASSUME NEW q, NEW k \in Nat, Ways(h, o, q)[k] = p
       PROVE  k = m /\ SameWay(path, q, m)
  BY <1>1, <1>6, <1>11, OneWay
<1>12. x = h[p].items[i]
  BY DEF x
<1>13. ASSUME NEW q, NEW k \in Nat, Ways(h, o, q)[k] # None, PassesBy(h, o, q, k, p, n)
       PROVE  Ways(h, o, q)[k] \notin Within(h, x) /\ Ways(g, o, q)[k] = Ways(h, o, q)[k]
  <2>1. Beside(h, g, o, p, n, v, x)
    BY <1>2, <1>8, <1>9, <1>10, <1>12 DEF Beside
  <2> QED
    BY <1>13, <2>1, WayStaysOutside
<1>14. json_object_dotget_value(g, o, path) = v
  <2>1. PassesBy(h, o, path, m, p, n)
    BY <1>1, <1>11 DEF PassesBy
  <2>2. Ways(g, o, path)[m] = p
    BY <1>1, <1>6, <1>13, <2>1
  <2>3. Along(g, o, path) = p
    BY <2>2 DEF Along, m
  <2>4. json_object_get_value(g, p, n) = v
    BY <1>9 DEF Instead
  <2> QED
    BY <2>3, <2>4 DEF json_object_dotget_value, n
<1>15. ASSUME NEW q \in Paths, json_object_dotget_value(h, o, q) # None, ~ IsPrefix(path, q)
       PROVE  json_object_dotget_value(g, o, q) = json_object_dotget_value(h, o, q)
  <2> DEFINE k == Len(q) - 1
             c == Ways(h, o, q)[k]
  <2>1. Len(q) \in Nat /\ k \in Nat /\ k + 1 = Len(q) /\ q[k + 1] = Last(q)
    BY PathHasNames DEF Last
  <2>2. c # None /\ json_object_dotget_value(h, o, q) = json_object_get_value(h, c, Last(q))
    BY <1>15 DEF json_object_dotget_value, Along
  <2>3. c \in Values /\ h[c].type = "object"
    <3>1. c \in Below(h, S) /\ h[c].type = "object"
      BY <2>1, <2>2, WayIsBelow
    <3> QED
      BY <3>1 DEF Below
  <2>4. ASSUME NEW l \in Nat, l <= k, Ways(h, o, q)[l] = p, q[l + 1] = n
        PROVE  FALSE
    <3>1. l = m /\ SameWay(path, q, m)
      BY <1>11, <2>4
    <3>2. Len(path) <= Len(q)
      BY <1>1, <2>1, <2>4, <3>1
    <3>3. path[m + 1] = q[m + 1]
      BY <1>1, <2>4, <3>1
    <3>4. SameWay(path, q, Len(path))
      <4> SUFFICES ASSUME NEW j \in Nat, j < Len(path) PROVE path[j + 1] = q[j + 1]
        BY DEF SameWay
      <4>1. j < m \/ j = m
        BY <1>1
      <4> QED
        BY <3>1, <3>3, <4>1 DEF SameWay
    <3> QED
      BY <1>15, <3>2, <3>4, PathPrefix
  <2> HIDE DEF k
  <2>5. c \notin Within(h, x) /\ Ways(g, o, q)[k] = c
    <3>1. PassesBy(h, o, q, k, p, n)
      BY <2>1, <2>4 DEF PassesBy
    <3> QED
      BY <1>13, <2>1, <2>2, <3>1
  <2>6. ~ (c = p /\ Last(q) = n)
    BY <2>1, <2>4
  <2> HIDE DEF c
  <2>7. json_object_get_value(g, c, Last(q)) = json_object_get_value(h, c, Last(q))
    BY <1>9, <2>3, <2>5, <2>6 DEF Instead
  <2>8. Along(g, o, q) = c
    BY <2>5 DEF Along, k
  <2> QED
    BY <2>2, <2>7, <2>8 DEF json_object_dotget_value
<1> QED
  BY <1>14, <1>15

(* What a set under a dotted name finds afterwards. *)
Finds(h, r, o, path, v) ==
  /\ r.ok => json_object_dotget_value(r.heap, o, path) = v
  /\ \A q \in Paths : \/ json_object_dotget_value(h, o, q) = None
                      \/ r.ok /\ IsPrefix(path, q)
                      \/ json_object_dotget_value(r.heap, o, q) = json_object_dotget_value(h, o, q)

LEMMA DotSetFinds ==
  ASSUME NEW h, GoodHeap(h), NEW S, Rooted(h, S), NEW v \in S, NEW o \in Below(h, S),
         h[o].type = "object", NEW path \in Paths, NEW mem \in Int
  PROVE  Finds(h, json_object_dotset_value(h, o, path, v, mem), o, path, v)
<1> DEFINE s == Walks(h, o, path, mem)[Len(path) - 1]
           n == Last(path)
           left == Left(path, mem)
           set == json_object_set_value(s.heap, s.object, n, v, left)
           r == json_object_dotset_value(h, o, path, v, mem)
           k == s.heap
           p == s.object
           i == Place(k, p, n)
<1>1. r = IF s.ok THEN set ELSE Fails(k)
  BY DEF json_object_dotset_value
<1>2. OnTheWay(s, S)
  <2>1. o \in Values
    BY DEF Below
  <2> QED
    BY <2>1, WalkKeeps
<1>3. /\ GoesOn(h, s.heap)
      /\ o \in Below(s.heap, S) /\ s.heap[o].type = "object"
      /\ s.ok => Along(s.heap, o, path) = s.object
  BY WalkFinds
<1>4. n \in Names /\ v \in Values
  BY PathHasNames DEF Rooted
<1>10. left \in Int
  BY PathHasNames DEF Left
<1> HIDE DEF s, n, left
<1>5. GoodHeap(k) /\ Rooted(k, S) /\ Typed(k)
  BY <1>2 DEF OnTheWay, GoodHeap
<1>6. ASSUME NEW q \in Paths, json_object_dotget_value(h, o, q) # None
      PROVE  json_object_dotget_value(k, o, q) = json_object_dotget_value(h, o, q)
  BY <1>3, <1>6, DotgetGoesOn
<1> HIDE DEF r
<1>7. CASE ~ s.ok
  <2>1. r.ok = FALSE /\ r.heap = k
    BY <1>1, <1>7 DEF Fails
  <2> QED
    BY <1>6, <2>1 DEF Finds, r
<1>8. CASE s.ok
  <2>1. p \in Values /\ p # None /\ k[p].type = "object" /\ Along(k, o, path) = p
    BY <1>2, <1>3, <1>8, TreeAssumption DEF OnTheWay
  <2>2. o \in Below(k, S) /\ k[o].type = "object"
    BY <1>3
  <2>3. r = set
    BY <1>1, <1>8
  <2>4. GoesOn(h, k)
    BY <1>3
  <2> HIDE DEF k, p
  <2>5. CASE i # 0
    <3>1. set = Done([json_value_free(k, k[p].items[i]) EXCEPT ![p].items[i] = v])
      BY <2>5 DEF json_object_set_value, k, p
    <3> DEFINE g == [json_value_free(k, k[p].items[i]) EXCEPT ![p].items[i] = v]
    <3>2. r.ok = TRUE /\ r.heap = g
      BY <2>3, <3>1 DEF Done
    <3>3. i = Place(k, p, Last(path))
      BY DEF n
    <3>4. g = [json_value_free(k, k[p].items[i]) EXCEPT ![p].items[i] = v]
      OBVIOUS
    <3> HIDE DEF i, g
    <3>5. i # 0
      BY <2>5 DEF i
    <3>6. /\ json_object_dotget_value(g, o, path) = v
          /\ \A q \in Paths :
               \/ json_object_dotget_value(k, o, q) = None
               \/ IsPrefix(path, q)
               \/ json_object_dotget_value(g, o, q) = json_object_dotget_value(k, o, q)
      BY <1>4, <1>5, <2>1, <2>2, <3>3, <3>4, <3>5, ReplacedFinds
    <3> QED
      BY <1>6, <3>2, <3>6 DEF Finds, r
  <2>6. CASE i = 0
    <3>1. r = json_object_add(k, p, n, v, left)
      BY <2>3, <2>6 DEF json_object_set_value, k, p
    <3>2. \/ Refuses(r, k)
          \/ /\ Adds(r, k, p, v)
             /\ Place(k, p, n) = 0
             /\ r.heap[p].names = Append(k[p].names, n)
      BY <1>4, <1>5, <1>10, <2>1, <3>1, ObjectAddsOrRefuses
    <3>3. CASE Refuses(r, k)
      <4>1. r.ok = FALSE /\ GoesOn(k, r.heap)
        BY <3>3, SameBlocksGoOn DEF Refuses
      <4>2. GoesOn(h, r.heap)
        BY <2>4, <4>1, GoesOnStill
      <4>3. \A q \in Paths : json_object_dotget_value(h, o, q) # None =>
              json_object_dotget_value(r.heap, o, q) = json_object_dotget_value(h, o, q)
        BY <4>2, DotgetGoesOn
      <4> QED
        BY <4>1, <4>3 DEF Finds, r
    <3>4. CASE /\ Adds(r, k, p, v)
               /\ Place(k, p, n) = 0
               /\ r.heap[p].names = Append(k[p].names, n)
      <4>1. Typed(r.heap)
        <5>1. Takes(r, S, v)
          BY <1>4, <1>5, <1>10, <2>1, <3>1, ObjectAdds
        <5> QED
          BY <5>1 DEF Takes, GoodHeap
      <4>2. GoesOn(k, r.heap) /\ json_object_get_value(r.heap, p, n) = v
        BY <1>4, <1>5, <2>1, <3>4, <4>1, AddedGoesOn
      <4>3. GoesOn(h, r.heap)
        BY <2>4, <4>2, GoesOnStill
      <4>4. \A q \in Paths : json_object_dotget_value(h, o, q) # None =>
              json_object_dotget_value(r.heap, o, q) = json_object_dotget_value(h, o, q)
        BY <4>3, DotgetGoesOn
      <4>5. Along(r.heap, o, path) = p
        <5>1. Len(path) - 1 \in Nat
          BY PathHasNames
        <5>2. Ways(k, o, path)[Len(path) - 1] = p
          BY <2>1 DEF Along
        <5>3. Ways(r.heap, o, path)[Len(path) - 1] = p
          BY <1>5, <2>1, <2>2, <4>2, <5>1, <5>2, WayGoesOn
        <5> QED
          BY <5>3 DEF Along
      <4>6. json_object_dotget_value(r.heap, o, path) = v
        BY <2>1, <4>2, <4>5 DEF json_object_dotget_value, n
      <4> QED
        BY <4>4, <4>6 DEF Finds, r
    <3> QED
      BY <3>2, <3>3, <3>4
  <2> QED
    BY <2>5, <2>6
<1> QED
  BY <1>7, <1>8

LEMMA OwnInvMeansSetIsFound == OwnInv => SetIsFound
<1> SUFFICES ASSUME OwnInv, NEW o \in Of("object"), NEW path \in Paths, NEW mem \in Memory,
                    NEW v \in Loose(o)
             PROVE  LET r == json_object_dotset_value(heap, o, path, v, mem)
                    IN  /\ r.ok => json_object_dotget_value(r.heap, o, path) = v
                        /\ \A q \in Paths :
                             LET found == json_object_dotget_value(heap, o, q)
                             IN  \/ found = None
                                 \/ r.ok /\ IsPrefix(path, q)
                                 \/ json_object_dotget_value(r.heap, o, q) = found
  BY DEF SetIsFound
<1> mem \in Int
  BY MemoryIsCounted
<1>1. /\ GoodHeap(heap) /\ Rooted(heap, held) /\ v \in held
      /\ o \in Below(heap, held) /\ heap[o].type = "object"
  BY OwnedValues
<1>2. Finds(heap, json_object_dotset_value(heap, o, path, v, mem), o, path, v)
  BY <1>1, DotSetFinds
<1> QED
  BY <1>2 DEF Finds

(* A value that was set under a dotted name is found there, whatever the   *)
(* objects it goes through and whether they had to be made; and set or     *)
(* refused, with memory or without, json_object_dotset_value changes       *)
(* nothing of what other dotted names lead to, but those that go through   *)
(* the value it replaces.                                                  *)
THEOREM WhatIsSetIsFound == Spec => []SetIsFound
BY AlwaysOwnInv, OwnInvMeansSetIsFound, PTL

===============================================================================
