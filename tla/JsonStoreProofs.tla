--------------------------- MODULE JsonStoreProofs ---------------------------
(***************************************************************************)
(* The calls of parson.c do to values what parson.h promises: JsonTree     *)
(* implements JsonStore.                                                   *)
(***************************************************************************)
EXTENDS JsonCallProofs

-----------------------------------------------------------------------------
(* What a program sees of a heap.                                          *)
Named(b, i) == IF b.type = "object" THEN b.names[i] ELSE None

Entries(h, v) == {<< Named(h[v], i), h[v].items[i] >> : i \in DOMAIN h[v].items}

View(h, S) == [v \in Values |-> IF v \in Below(h, S) THEN Entries(h, v) ELSE None]

(* NULL, which the view has where nothing is, is no set of entries.        *)
LEMMA NullIsNoEntries ==
  ASSUME NEW h, Typed(h), NEW v \in Values
  PROVE  Entries(h, v) # None
<1> DEFINE all == (Names \cup {None}) \X Values
<1>1. h[v] \in BlockSet /\ Sound(h[v])
  BY DEF Typed
<1>2. h[v].items \in Seq(Values) /\ h[v].names \in Seq(Names)
  BY <1>1 DEF BlockSet
<1>3. ASSUME NEW i \in DOMAIN h[v].items
      PROVE  << Named(h[v], i), h[v].items[i] >> \in all
  <2>1. h[v].items[i] \in Values
    BY <1>2
  <2>2. h[v].type = "object" => i \in DOMAIN h[v].names
    BY <1>1, <1>2 DEF Sound
  <2>3. Named(h[v], i) \in Names \cup {None}
    BY <1>2, <2>2 DEF Named
  <2> QED
    BY <2>1, <2>3
<1>4. Entries(h, v) \in SUBSET all
  BY <1>3 DEF Entries
<1> QED
  BY <1>4, TreeAssumption

(* The values of a block's entries are its items.                          *)
LEMMA EntriesAreItems ==
  ASSUME NEW h, NEW v
  PROVE  /\ \A e \in Entries(h, v) : e[2] \in Items(h, v)
         /\ \A x \in Items(h, v) : \E e \in Entries(h, v) : e[2] = x
<1>1. ASSUME NEW e \in Entries(h, v) PROVE e[2] \in Items(h, v)
  <2>1. PICK i \in DOMAIN h[v].items : e = << Named(h[v], i), h[v].items[i] >>
    BY DEF Entries
  <2>2. e[2] = h[v].items[i]
    BY <2>1
  <2> QED
    BY <2>2 DEF Items
<1>2. ASSUME NEW x \in Items(h, v) PROVE \E e \in Entries(h, v) : e[2] = x
  <2>1. PICK i \in DOMAIN h[v].items : x = h[v].items[i]
    BY DEF Items
  <2> DEFINE e == << Named(h[v], i), h[v].items[i] >>
  <2>2. e \in Entries(h, v)
    BY DEF Entries
  <2>3. e[2] = x
    BY <2>1
  <2> QED
    BY <2>2, <2>3
<1> QED
  BY <1>1, <1>2

(* JsonStore counts as JsonTree does.                                      *)
LEMMA SameCardinality ==
  ASSUME NEW S
  PROVE  Store!Cardinality(S) = Cardinality(S)
BY DEF Store!Cardinality, Cardinality

(* What is n + 1 levels down from a value in a view, from what is n down.  *)
LEMMA DownStep ==
  ASSUME NEW c, NEW v
  PROVE  /\ Store!Down(c, v)[0] = {v}
         /\ \A n \in Nat :
              Store!Down(c, v)[n + 1] =
                Store!Down(c, v)[n] \cup UNION {Store!Inside(c, w) : w \in Store!Down(c, v)[n]}
<1> DEFINE down == Store!Down(c, v)
           Def(above, n) == above \cup UNION {Store!Inside(c, w) : w \in above}
<1>1. NatInductiveDefHypothesis(down, {v}, Def)
  BY DEF NatInductiveDefHypothesis, Store!Down
<1>2. NatInductiveDefConclusion(down, {v}, Def)
  BY <1>1, NatInductiveDef
<1>3. down = [n \in Nat |-> IF n = 0 THEN {v} ELSE Def(down[n - 1], n)]
  BY <1>2 DEF NatInductiveDefConclusion
<1> HIDE DEF down
<1>4. down[0] = {v}
  BY <1>3
<1>5. ASSUME NEW n \in Nat PROVE down[n + 1] = Def(down[n], n + 1)
  <2>1. n + 1 \in Nat /\ n + 1 # 0 /\ (n + 1) - 1 = n
    OBVIOUS
  <2> HIDE DEF Def
  <2> QED
    BY <1>3, <2>1, Zenon
<1> QED
  BY <1>4, <1>5 DEF down

(* What is in a value of the view is what is in it on the heap. *)
LEMMA InsideIs ==
  ASSUME NEW h, NEW S, NEW w \in Below(h, S)
  PROVE  Store!Inside(View(h, S), w) = Items(h, w)
<1> DEFINE c == View(h, S)
<1>1. w \in Values
  BY DEF Below
<1>2. c[w] = Entries(h, w)
  BY <1>1 DEF View
<1> HIDE DEF c
<1>3. Store!Inside(c, w) = {e[2] : e \in Entries(h, w)}
  BY <1>2 DEF Store!Inside
<1>4. Store!Inside(c, w) = Items(h, w)
  BY <1>3, EntriesAreItems
<1> QED
  BY <1>4 DEF c

(* All that is in a value of the view is what is within it on the heap.    *)
LEMMA TreeIsWithin ==
  ASSUME NEW h, GoodHeap(h), NEW S \in SUBSET Values, NEW v \in Below(h, S)
  PROVE  Store!Tree(View(h, S), v) = Within(h, v)
<1> DEFINE c == View(h, S)
           down == Store!Down(c, v)
           lev == Levels(h, v)
           all == Below(h, S)
           Same == {n \in Nat : down[n] = lev[n] /\ down[n] \subseteq all}
<1>1. h \in [Values -> BlockSet] /\ v \in Values /\ all \subseteq Values /\ v \in all
  BY DEF GoodHeap, Typed, Below
<1>2. \A w \in all : Store!Inside(c, w) = Items(h, w)
  BY InsideIs
<1>3. \A w \in all : Items(h, w) \subseteq all
  BY <1>1, EntriesAreValues, BelowGoesOn
<1>4. /\ down[0] = {v}
      /\ \A n \in Nat : down[n + 1] = down[n] \cup UNION {Store!Inside(c, w) : w \in down[n]}
  BY DownStep
<1>5. /\ lev[0] = {v}
      /\ \A n \in Nat : lev[n + 1] = lev[n] \cup UNION {Items(h, w) : w \in lev[n]}
  BY LevelsStep
<1> HIDE DEF c, down, lev, all
<1>6. 0 \in Same
  BY <1>1, <1>4, <1>5
<1>7. ASSUME NEW n \in Nat, n \in Same PROVE n + 1 \in Same
  <2>1. down[n + 1] = down[n] \cup UNION {Store!Inside(c, w) : w \in down[n]}
    BY <1>4
  <2>2. lev[n + 1] = down[n] \cup UNION {Items(h, w) : w \in down[n]}
    BY <1>5, <1>7
  <2>3. down[n] \subseteq all
    BY <1>7
  <2>4. {Store!Inside(c, w) : w \in down[n]} = {Items(h, w) : w \in down[n]}
    BY <1>2, <2>3
  <2>5. UNION {Items(h, w) : w \in down[n]} \subseteq all
    BY <1>3, <2>3
  <2>6. down[n + 1] = lev[n + 1]
    BY <2>1, <2>2, <2>4
  <2>7. down[n + 1] \subseteq all
    BY <2>2, <2>3, <2>5, <2>6
  <2> QED
    BY <2>6, <2>7
<1> HIDE DEF Same
<1>8. Nat \subseteq Same
  BY <1>6, <1>7, Induct
<1>9. Cardinality(Values) - 1 \in Nat /\ Store!Cardinality(Values) = Cardinality(Values)
  BY <1>1, DepthIsNat, SameCardinality
<1>10. down[Cardinality(Values) - 1] = lev[Cardinality(Values) - 1]
  BY <1>8, <1>9 DEF Same
<1>11. Store!Tree(c, v) = down[Cardinality(Values) - 1]
  BY <1>9 DEF Store!Tree, down
<1> QED
  BY <1>10, <1>11 DEF c, lev, Within

(* The view has the values reached from a root, with their entries.        *)
LEMMA ViewIs ==
  ASSUME NEW h, GoodHeap(h), NEW S, Rooted(h, S)
  PROVE  /\ Store!There(View(h, S)) = Below(h, S)
         /\ \A v \in Below(h, S) : /\ View(h, S)[v] = Entries(h, v)
                                   /\ Store!Tree(View(h, S), v) = Within(h, v)
<1>1. S \in SUBSET Values /\ Typed(h) /\ Below(h, S) \subseteq Values
  BY DEF Rooted, GoodHeap, Below
<1>2. \A v \in Values : View(h, S)[v] = IF v \in Below(h, S) THEN Entries(h, v) ELSE None
  BY DEF View
<1>3. \A v \in Values : Entries(h, v) # None
  BY <1>1, NullIsNoEntries
<1>4. Store!There(View(h, S)) = Below(h, S)
  BY <1>1, <1>2, <1>3 DEF Store!There
<1>5. \A v \in Below(h, S) : Store!Tree(View(h, S), v) = Within(h, v)
  BY <1>1, TreeIsWithin
<1> QED
  BY <1>1, <1>2, <1>4, <1>5

(* What is within the roots is what is reached from them.                  *)
LEMMA AllBelow ==
  ASSUME NEW h \in [Values -> BlockSet], NEW S \in SUBSET Values
  PROVE  UNION {Within(h, r) : r \in S} = Below(h, S)
<1>1. Below(h, S) \subseteq UNION {Within(h, r) : r \in S}
  BY BelowIsWithin
<1>2. \A r \in S : Within(h, r) \subseteq Below(h, S)
  <2> TAKE r \in S
  <2>1. Within(h, r) \subseteq Values
    BY WithinBelow
  <2>2. Cardinality(Values) - 1 \in Nat
    BY DepthIsNat
  <2> QED
    BY <2>1, <2>2 DEF Within, Below
<1> QED
  BY <1>1, <1>2

(* What is in a value is the least set that has it and with a value its    *)
(* entries.                                                                *)
LEMMA WithinIsLeast ==
  ASSUME NEW h \in [Values -> BlockSet], NEW v \in Values, NEW Z, v \in Z,
         \A c \in Values : c \in Z => Items(h, c) \subseteq Z
  PROVE  Within(h, v) \subseteq Z
<1>1. {v} \in SUBSET Values /\ {v} \subseteq Z
  OBVIOUS
<1>2. Below(h, {v}) \subseteq Z
  BY <1>1, BelowIsLeast
<1>3. UNION {Within(h, r) : r \in {v}} = Below(h, {v})
  BY <1>1, AllBelow
<1> QED
  BY <1>2, <1>3

(* What is in a value that is reached from a root is reached from one.     *)
LEMMA WithinInBelow ==
  ASSUME NEW h \in [Values -> BlockSet], NEW S \in SUBSET Values, NEW v \in Below(h, S)
  PROVE  Within(h, v) \subseteq Below(h, S)
<1> DEFINE Z == Below(h, S)
<1>1. v \in Values
  BY DEF Below
<1>2. \A c \in Values : c \in Z => Items(h, c) \subseteq Z
  BY EntriesAreValues, BelowGoesOn
<1> HIDE DEF Z
<1>3. v \in Z => Within(h, v) \subseteq Z
  BY <1>1, <1>2, WithinIsLeast
<1> QED
  BY <1>3 DEF Z

(* What is in a value within v is in v.                                    *)
LEMMA WithinInWithin ==
  ASSUME NEW h \in [Values -> BlockSet], NEW v \in Values, NEW w \in Within(h, v)
  PROVE  Within(h, w) \subseteq Within(h, v)
<1>1. w \in Values
  BY WithinBelow
<1>2. \A c \in Values : c \in Within(h, v) => Items(h, c) \subseteq Within(h, v)
  BY WithinGoesOn
<1> QED
  BY <1>1, <1>2, WithinIsLeast

(* A root shares nothing with the others. *)
LEMMA Apart ==
  ASSUME NEW h, GoodHeap(h), NEW S, Rooted(h, S), NEW v \in S
  PROVE  /\ Below(h, S) = Below(h, S \ {v}) \cup Within(h, v)
         /\ \A w \in Below(h, S \ {v}) : w \notin Within(h, v)
<1> DEFINE T == S \ {v}
           W == Within(h, v)
           Z == Values \ W
<1>1. /\ h \in [Values -> BlockSet] /\ S \in SUBSET Values /\ T \in SUBSET Values
      /\ v \in Values /\ OnePlace(h)
  BY DEF GoodHeap, Typed, Rooted
<1>2. UNION {Within(h, r) : r \in S} = Below(h, S) /\ UNION {Within(h, r) : r \in T} = Below(h, T)
  BY <1>1, AllBelow
<1>3. T \subseteq Z
  <2>1. \A r \in T : r \notin W
    BY <1>1, RootsStay
  <2> QED
    BY <1>1, <2>1
<1>4. ASSUME NEW c \in Values, c \in Z PROVE Items(h, c) \subseteq Z
  <2> SUFFICES ASSUME NEW i \in DOMAIN h[c].items PROVE h[c].items[i] \notin W
    BY <1>1, EntriesAreValues DEF Items
  <2>1. h[c].items[i] # v
    BY DEF Rooted
  <2> QED
    BY <1>1, <1>4, <2>1, WithinBelow
<1> HIDE DEF Z
<1>5. Below(h, T) \subseteq Z
  BY <1>1, <1>3, <1>4, BelowIsLeast
<1>6. Below(h, S) = Below(h, T) \cup W
  BY <1>2
<1> QED
  BY <1>5, <1>6 DEF Z

(* Where entries stay the same, so does what is down from them. *)
LEMMA SameWithin ==
  ASSUME NEW h \in [Values -> BlockSet], NEW g \in [Values -> BlockSet], NEW v \in Values,
         \A c \in Within(h, v) : Items(g, c) = Items(h, c)
  PROVE  Within(g, v) = Within(h, v)
<1> DEFINE W == Within(h, v)
           V == Within(g, v)
           Z == V \cap W
<1>1. v \in W /\ v \in V /\ W \subseteq Values
  BY WithinBelow
<1>2. \A c \in Values : c \in W => Items(h, c) \subseteq W
  BY WithinGoesOn
<1>3. \A c \in Values : c \in V => Items(g, c) \subseteq V
  BY WithinGoesOn
<1>4. \A c \in Values : c \in W => Items(g, c) \subseteq W
  BY <1>2
<1>5. V \subseteq W
  <2> HIDE DEF W
  <2>1. Within(g, v) \subseteq W
    BY <1>1, <1>4, WithinIsLeast
  <2> QED
    BY <2>1
<1>6. \A c \in Values : c \in Z => Items(h, c) \subseteq Z
  BY <1>2, <1>3
<1>7. v \in Z
  BY <1>1
<1> HIDE DEF Z
<1>8. W \subseteq Z
  BY <1>6, <1>7, WithinIsLeast
<1> QED
  BY <1>5, <1>8 DEF Z

(* Where no container that is reached differs, the same is reached.        *)
LEMMA SameBelow ==
  ASSUME NEW h \in [Values -> BlockSet], NEW g \in [Values -> BlockSet], NEW S \in SUBSET Values,
         \A c \in Below(h, S) : Items(g, c) = Items(h, c)
  PROVE  Below(g, S) = Below(h, S)
<1>1. \A r \in S : r \in Below(h, S)
  BY RootIsBelow
<1>2. ASSUME NEW r \in S PROVE Within(g, r) = Within(h, r)
  <2>1. Within(h, r) \subseteq Below(h, S)
    BY <1>1, <1>2, WithinInBelow
  <2>2. \A c \in Within(h, r) : Items(g, c) = Items(h, c)
    BY <2>1
  <2>3. r \in Values
    BY <1>2
  <2> QED
    BY <2>2, <2>3, SameWithin
<1>3. UNION {Within(h, r) : r \in S} = UNION {Within(g, r) : r \in S}
  BY <1>2
<1> QED
  BY <1>3, AllBelow

(* Containers with the same entries have the same items.                   *)
LEMMA SameEntries ==
  ASSUME NEW h, NEW g, NEW v, NEW w, Entries(g, w) = Entries(h, v)
  PROVE  Items(g, w) = Items(h, v)
<1>1. \A x \in Items(g, w) : x \in Items(h, v)
  BY EntriesAreItems
<1>2. \A x \in Items(h, v) : x \in Items(g, w)
  BY EntriesAreItems
<1> QED
  BY <1>1, <1>2

(* The refinement mapping is the view of the heap from the roots ...       *)
LEMMA ContentsAreView ==
  ASSUME OwnInv
  PROVE  Contents = View(heap, held)
<1>1. Owned = Below(heap, held)
  BY OwnedIsAllBelow
<1> QED
  BY <1>1 DEF Contents, Content, View, Entries, Named

(* ... and so it is after a step.                                          *)
LEMMA NextContentsAreView ==
  ASSUME OwnInv'
  PROVE  Contents' = View(heap', held')
<1>1. GoodHeap(heap') /\ Rooted(heap', held')
  BY DEF OwnInv, GoodHeap, Rooted, Typed, OnePlace, NoneFreed
<1>2. UNION {Within(heap', r) : r \in held'} = Below(heap', held')
  BY <1>1, AllBelow DEF GoodHeap, Typed, Rooted
<1>3. Owned' = Below(heap', held')
  BY <1>2 DEF Owned, Within, Levels, Items
<1> QED
  BY <1>3 DEF Contents, Content, View, Entries, Named

-----------------------------------------------------------------------------
(* A change, heap to heap: o loses the entries out, with all that is in    *)
(* them, and gets the entries in.                                          *)
Came(h, E) == {w \in Values : \E e \in E : w \in Within(h, e[2])}

OneComes(in, all) ==
  \/ in = {}
  \/ \E f \in in : in = {f} /\ \A e \in all : e # f => e[1] # f[1] \/ f[1] = None

OneGoes(out, all) == out = {} \/ (\E e \in out : out = {e}) \/ all = {}

Changes(h, S, g, T, o, out, in) ==
  /\ o \in Below(h, S) /\ o \in Below(g, T) /\ T \subseteq S
  /\ out = Entries(h, o) \ Entries(g, o)
  /\ in = Entries(g, o) \ Entries(h, o)
  /\ OneComes(in, Entries(g, o)) /\ OneGoes(out, Entries(g, o))
  /\ \A w \in Below(h, S) : w \in Came(g, in) <=> \E r \in S \ T : w \in Within(h, r)
  /\ Below(g, T) = (Below(h, S) \ Came(h, out)) \cup Came(g, in)
  /\ \A w \in Below(h, S) : (w \notin Came(h, out) /\ w # o) => Entries(g, w) = Entries(h, w)

(* An entry's value is down from where the entry is. *)
LEMMA EntryIsBelow ==
  ASSUME NEW h \in [Values -> BlockSet], NEW S \in SUBSET Values, NEW o \in Below(h, S),
         NEW e \in Entries(h, o)
  PROVE  e[2] \in Below(h, S) /\ e[2] \in Items(h, o) /\ e[2] \in Values
<1>1. o \in Values
  BY DEF Below
<1>2. e[2] \in Items(h, o)
  BY EntriesAreItems
<1>3. e[2] \in Values
  BY <1>1, <1>2, EntriesAreValues
<1> QED
  BY <1>2, <1>3, BelowGoesOn

(* What comes, in the view. *)
LEMMA CameIs ==
  ASSUME NEW h, GoodHeap(h), NEW S, Rooted(h, S), NEW o \in Below(h, S),
         NEW E \in SUBSET Entries(h, o)
  PROVE  UNION {Store!Tree(View(h, S), e[2]) : e \in E} = Came(h, E)
<1> DEFINE tree(e) == Store!Tree(View(h, S), e[2])
<1>1. h \in [Values -> BlockSet] /\ S \in SUBSET Values
  BY DEF GoodHeap, Typed, Rooted
<1>2. ASSUME NEW e \in E PROVE tree(e) = Within(h, e[2]) /\ Within(h, e[2]) \subseteq Values
  <2>1. e[2] \in Below(h, S) /\ e[2] \in Values
    BY <1>1, EntryIsBelow
  <2> QED
    BY <1>1, <2>1, ViewIs, WithinBelow
<1> HIDE DEF tree
<1>3. UNION {tree(e) : e \in E} = Came(h, E)
  BY <1>2 DEF Came
<1> QED
  BY <1>3 DEF tree

(* The change of a heap is a change of what a program sees. *)
LEMMA ChangesAreChange ==
  ASSUME OwnInv, OwnInv', NEW o, NEW out, NEW in,
         Changes(heap, held, heap', held', o, out, in)
  PROVE  Store!Next
<1> DEFINE c == View(heap, held)
           d == View(heap', held')
           A == Below(heap, held)
           B == Below(heap', held')
<1>1. /\ GoodHeap(heap) /\ Rooted(heap, held) /\ GoodHeap(heap') /\ Rooted(heap', held')
      /\ heap \in [Values -> BlockSet] /\ held \in SUBSET Values
  BY DEF OwnInv, GoodHeap, Rooted, Typed, OnePlace, NoneFreed
<1>2. Store!There(c) = A /\ \A v \in A : c[v] = Entries(heap, v) /\ Store!Tree(c, v) = Within(heap, v)
  BY <1>1, ViewIs
<1>3. Store!There(d) = B /\ \A v \in B : d[v] = Entries(heap', v) /\ Store!Tree(d, v) = Within(heap', v)
  BY <1>1, ViewIs
<1>4. /\ o \in A /\ o \in B /\ held' \subseteq held
      /\ out = Entries(heap, o) \ Entries(heap', o)
      /\ in = Entries(heap', o) \ Entries(heap, o)
      /\ OneComes(in, Entries(heap', o)) /\ OneGoes(out, Entries(heap', o))
      /\ \A w \in A : w \in Came(heap', in) <=> \E r \in held \ held' : w \in Within(heap, r)
      /\ B = (A \ Came(heap, out)) \cup Came(heap', in)
      /\ \A w \in A : (w \notin Came(heap, out) /\ w # o) => Entries(heap', w) = Entries(heap, w)
  BY DEF Changes
<1> DEFINE gone == UNION {Store!Tree(c, e[2]) : e \in out}
           came == UNION {Store!Tree(d, e[2]) : e \in in}
<1>5. gone = Came(heap, out)
  BY <1>1, <1>4, CameIs
<1>6. came = Came(heap', in)
  <2>1. in \in SUBSET Entries(heap', o) /\ o \in Below(heap', held')
    BY <1>4
  <2>2. UNION {Store!Tree(View(heap', held'), e[2]) : e \in in} = Came(heap', in)
    BY <1>1, <2>1, CameIs, Zenon
  <2> QED
    BY <2>2
<1>7. c[o] = Entries(heap, o) /\ d[o] = Entries(heap', o)
  BY <1>2, <1>3, <1>4
<1>8. out = c[o] \ d[o] /\ in = d[o] \ c[o]
  BY <1>4, <1>7
<1>9. UNION {Store!Tree(c, r) : r \in held \ held'} = UNION {Within(heap, r) : r \in held \ held'}
  <2>1. \A r \in held \ held' : Store!Tree(c, r) = Within(heap, r)
    BY <1>1, <1>2, RootIsBelow
  <2> HIDE DEF c
  <2> QED
    BY <2>1
<1>10. came \cap A = UNION {Store!Tree(c, r) : r \in held \ held'}
  <2>1. \A r \in held \ held' : Within(heap, r) \subseteq A
    BY <1>1, RootIsBelow, WithinInBelow
  <2> HIDE DEF came, A, c
  <2> QED
    BY <1>4, <1>6, <1>9, <2>1
<1>11. Cardinality(in) <= 1
  <2>1. CASE in = {}
    BY <2>1, FS_EmptySet
  <2>2. CASE in # {}
    <3>1. PICK f \in in : in = {f}
      BY <1>4, <2>2 DEF OneComes
    <3> QED
      BY <3>1, FS_Singleton
  <2> QED
    BY <2>1, <2>2
<1>12. Cardinality(out) <= 1 \/ d[o] = {}
  <2>1. CASE out = {}
    BY <2>1, FS_EmptySet
  <2>2. CASE \E e \in out : out = {e}
    BY <2>2, FS_Singleton
  <2> QED
    BY <1>4, <1>7, <2>1, <2>2 DEF OneGoes
<1>13. \A e \in d[o], f \in in : e # f => e[1] # f[1] \/ f[1] = None
  BY <1>4, <1>7 DEF OneComes
<1>14. Store!Same(c, d, (A \ gone) \ {o})
  <2>1. \A w \in (A \ gone) \ {o} : w \in A /\ w \in B /\ Entries(heap', w) = Entries(heap, w)
    BY <1>4, <1>5
  <2> HIDE DEF c, d, A, B, gone
  <2>2. \A w \in (A \ gone) \ {o} : d[w] = c[w]
    BY <1>2, <1>3, <2>1
  <2> QED
    BY <2>2 DEF Store!Same
<1>15. B = (A \ gone) \cup came
  BY <1>4, <1>5, <1>6
<1> HIDE DEF c, d, A, B
<1>16. Store!Change(c, d)
  <2>1. Store!Cardinality(in) <= 1 /\ (Store!Cardinality(out) <= 1 \/ d[o] = {})
    BY <1>11, <1>12, SameCardinality
  <2>2. o \in Store!There(c) \cap Store!There(d)
    BY <1>2, <1>3, <1>4
  <2> SUFFICES LET out1  == c[o] \ d[o]
                   in1   == d[o] \ c[o]
                   gone1 == UNION {Store!Tree(c, e[2]) : e \in out1}
                   came1 == UNION {Store!Tree(d, e[2]) : e \in in1}
               IN /\ Store!Cardinality(in1) <= 1
                  /\ Store!Cardinality(out1) <= 1 \/ d[o] = {}
                  /\ \A e \in d[o], f \in in1 : e # f => e[1] # f[1] \/ f[1] = None
                  /\ came1 \cap Store!There(c) = UNION {Store!Tree(c, r) : r \in held \ held'}
                  /\ held' \subseteq held
                  /\ Store!There(d) = (Store!There(c) \ gone1) \cup came1
                  /\ Store!Same(c, d, (Store!There(c) \ gone1) \ {o})
    BY <2>2, Zenon DEF Store!Change
  <2>3. came \cap Store!There(c) = UNION {Store!Tree(c, r) : r \in held \ held'}
    BY <1>2, <1>10
  <2>4. Store!There(d) = (Store!There(c) \ gone) \cup came
    BY <1>2, <1>3, <1>15
  <2>5. Store!Same(c, d, (Store!There(c) \ gone) \ {o})
    BY <1>2, <1>14
  <2>6. held' \subseteq held
    BY <1>4
  <2> QED
    BY <1>8, <1>13, <2>1, <2>3, <2>4, <2>5, <2>6, Zenon
<1>17. Contents = c /\ Contents' = d
  BY ContentsAreView, NextContentsAreView DEF c, d
<1> QED
  BY <1>16, <1>17, Zenon DEF Store!Next

(* No two entries have the same value; nothing is in itself. *)
LEMMA EntriesDiffer ==
  ASSUME NEW h, GoodHeap(h), NEW o \in Values, NEW d \in Entries(h, o), NEW e \in Entries(h, o),
         d[2] = e[2]
  PROVE  d = e
<1>1. OnePlace(h)
  BY DEF GoodHeap
<1>2. PICK i \in DOMAIN h[o].items : d = << Named(h[o], i), h[o].items[i] >>
  BY DEF Entries
<1>3. PICK j \in DOMAIN h[o].items : e = << Named(h[o], j), h[o].items[j] >>
  BY DEF Entries
<1>4. h[o].items[i] = h[o].items[j]
  BY <1>2, <1>3
<1>5. i = j
  BY <1>1, <1>4 DEF OnePlace
<1> QED
  BY <1>2, <1>3, <1>5

(* An entry's value is no root, in no other container, and not around it.  *)
LEMMA EntryIsElsewhere ==
  ASSUME NEW h, GoodHeap(h), NEW S, Rooted(h, S), NEW o \in Below(h, S), NEW e \in Entries(h, o)
  PROVE  /\ o \notin Within(h, e[2])
         /\ \A r \in S : r # e[2]
         /\ \A w \in Values : w # o => e[2] \notin Items(h, w)
<1>1. o \in Values /\ OnePlace(h)
  BY DEF Below, GoodHeap
<1>2. PICK i \in DOMAIN h[o].items : e[2] = h[o].items[i]
  BY EntriesAreItems DEF Items
<1>3. o \notin Within(h, e[2])
  BY <1>2, NotInsideItself
<1>4. \A r \in S : r # e[2]
  BY <1>1, <1>2 DEF Rooted
<1>5. \A w \in Values : w # o => e[2] \notin Items(h, w)
  BY <1>1, <1>2 DEF Items, OnePlace
<1> QED
  BY <1>3, <1>4, <1>5

(* What goes with its entries shares nothing with what stays. *)
GoneApart(h, S, o, E) ==
  /\ o \notin Came(h, E)
  /\ \A r \in S : r \notin Came(h, E)
  /\ \A w \in Values : w \in Came(h, E) => Items(h, w) \subseteq Came(h, E)
  /\ \A w \in Values : (w \notin Came(h, E) /\ w # o) => Items(h, w) \cap Came(h, E) = {}
  /\ \A e \in Entries(h, o) : e \notin E => e[2] \notin Came(h, E)
  /\ Came(h, E) \subseteq Below(h, S)

(* What some entries of one container hold is held by nothing else.        *)
LEMMA GoneIsApart ==
  ASSUME NEW h, GoodHeap(h), NEW S, Rooted(h, S), NEW o \in Below(h, S),
         NEW E \in SUBSET Entries(h, o)
  PROVE  GoneApart(h, S, o, E)
<1> DEFINE W == Came(h, E)
<1>1. /\ h \in [Values -> BlockSet] /\ S \in SUBSET Values /\ OnePlace(h) /\ o \in Values
  BY DEF GoodHeap, Typed, Rooted, Below
<1>2. \A e \in E : e \in Entries(h, o) /\ e[2] \in Values /\ e[2] \in Below(h, S) /\ e[2] \in Items(h, o)
  BY <1>1, EntryIsBelow
<1>3. o \notin W
  BY <1>2, EntryIsElsewhere DEF Came
<1>4. \A r \in S : r \notin W
  <2>1. ASSUME NEW r \in S, NEW e \in E PROVE r \notin Within(h, e[2])
    <3>1. r # e[2] /\ e[2] \in Values
      BY <1>2, EntryIsElsewhere
    <3> QED
      BY <1>1, <3>1, RootsStay
  <2> QED
    BY <2>1 DEF Came
<1>5. ASSUME NEW w \in Values, w \in W PROVE Items(h, w) \subseteq W
  <2>1. PICK e \in E : w \in Within(h, e[2])
    BY <1>5 DEF Came
  <2>2. Items(h, w) \subseteq Within(h, e[2]) /\ Items(h, w) \subseteq Values
    BY <1>1, <1>2, <2>1, WithinGoesOn, EntriesAreValues
  <2> QED
    BY <2>2 DEF Came
<1>6. ASSUME NEW w \in Values, w \notin W, w # o, NEW y \in Items(h, w), y \in W PROVE FALSE
  <2>1. PICK e \in E : y \in Within(h, e[2])
    BY <1>6 DEF Came
  <2>2. PICK i \in DOMAIN h[w].items : y = h[w].items[i]
    BY <1>6 DEF Items
  <2>3. y # e[2]
    BY <1>2, <1>6, EntryIsElsewhere
  <2>4. w \in Within(h, e[2])
    BY <1>1, <1>2, <2>1, <2>2, <2>3, WithinBelow
  <2> QED
    BY <1>6, <2>4 DEF Came
<1>7. ASSUME NEW d \in Entries(h, o), d \notin E, d[2] \in W PROVE FALSE
  <2>1. PICK e \in E : d[2] \in Within(h, e[2])
    BY <1>7 DEF Came
  <2>2. PICK i \in DOMAIN h[o].items : d[2] = h[o].items[i]
    BY EntriesAreItems DEF Items
  <2>3. d[2] # e[2]
    BY <1>1, <1>2, <1>7, EntriesDiffer
  <2>4. o \in Within(h, e[2])
    BY <1>1, <1>2, <2>1, <2>2, <2>3, WithinBelow
  <2> QED
    BY <1>2, <2>4, EntryIsElsewhere
<1>8. W \subseteq Below(h, S)
  <2>1. \A e \in E : Within(h, e[2]) \subseteq Below(h, S)
    BY <1>1, <1>2, WithinInBelow
  <2> QED
    BY <2>1 DEF Came
<1> QED
  BY <1>3, <1>4, <1>5, <1>6, <1>7, <1>8 DEF GoneApart

(* One container's entries change, and blocks that go with them; a root    *)
(* may become an entry.  Nothing else is where it was not.                 *)
LEMMA HeapChanges ==
  ASSUME NEW h, GoodHeap(h), NEW S, Rooted(h, S), NEW g \in [Values -> BlockSet],
         NEW T \in SUBSET S, NEW o \in Below(h, T), NEW out, NEW in,
         out = Entries(h, o) \ Entries(g, o), in = Entries(g, o) \ Entries(h, o),
         OneGoes(out, Entries(g, o)), OneComes(in, Entries(g, o)),
         \/ T = S /\ in = {}
         \/ \E v \in S : T = S \ {v} /\ \E n : in = {<< n, v >>},
         \A w \in Values : (w \notin Came(h, out) /\ w # o) => Entries(g, w) = Entries(h, w)
  PROVE  Changes(h, S, g, T, o, out, in)
<1> DEFINE W == Came(h, out)
           A == Below(h, T)
           Z == (A \ W) \cup Came(g, in)
<1>1. /\ h \in [Values -> BlockSet] /\ S \in SUBSET Values /\ T \in SUBSET Values
      /\ Rooted(h, T) /\ o \in Values
  BY FewerRoots DEF GoodHeap, Typed, Rooted, Below
<1>2. out \in SUBSET Entries(h, o)
  OBVIOUS
<1>3. /\ o \notin W
      /\ \A r \in T : r \notin W
      /\ \A w \in Values : w \in W => Items(h, w) \subseteq W
      /\ \A w \in Values : (w \notin W /\ w # o) => Items(h, w) \cap W = {}
      /\ \A e \in Entries(h, o) : e \notin out => e[2] \notin W
      /\ W \subseteq A
  <2>1. GoneApart(h, T, o, out)
    BY <1>1, <1>2, GoneIsApart
  <2> QED
    BY <2>1 DEF GoneApart
<1>4. \A w \in Values : (w \notin W /\ w # o) => Items(g, w) = Items(h, w)
  BY SameEntries
<1>5. \A e \in in : e[2] \in Values /\ e[2] \in Items(g, o) /\ e[2] \in Within(g, e[2])
  <2> TAKE e \in in
  <2>1. e[2] \in Items(g, o)
    BY EntriesAreItems
  <2>2. e[2] \in Values
    BY <1>1, <2>1, EntriesAreValues
  <2> QED
    BY <2>1, <2>2, WithinBelow
<1>6. \A y \in Items(g, o) : y \in Came(g, in) \/ (y \in Items(h, o) /\ y \notin W)
  <2> TAKE y \in Items(g, o)
  <2>1. PICK e \in Entries(g, o) : e[2] = y
    BY EntriesAreItems
  <2>2. CASE e \in in
    BY <1>5, <2>1, <2>2 DEF Came
  <2>3. CASE e \in Entries(h, o) /\ e \notin out
    BY <1>3, <2>1, <2>3, EntriesAreItems
  <2> QED
    BY <2>2, <2>3
<1>7. \A y \in Items(h, o) : y \in W \/ y \in Items(g, o)
  <2> TAKE y \in Items(h, o)
  <2>1. PICK e \in Entries(h, o) : e[2] = y
    BY EntriesAreItems
  <2>2. CASE e \in out
    <3>1. y \in Values
      BY <1>1, EntriesAreValues
    <3>2. y \in Within(h, e[2])
      BY <1>1, <2>1, <3>1, WithinBelow
    <3> QED
      BY <2>2, <3>1, <3>2 DEF Came
  <2>3. CASE e \in Entries(g, o)
    BY <2>1, <2>3, EntriesAreItems
  <2> QED
    BY <2>2, <2>3
<1>8. Below(g, T) \subseteq Z
  <2>1. T \subseteq Z
    BY <1>1, <1>3, RootIsBelow
  <2>2. ASSUME NEW w \in Values, w \in Z PROVE Items(g, w) \subseteq Z
    <3>1. CASE w \in Came(g, in)
      <4>1. PICK e \in in : w \in Within(g, e[2])
        BY <3>1 DEF Came
      <4>2. Items(g, w) \subseteq Within(g, e[2]) /\ Items(g, w) \subseteq Values
        BY <1>5, <4>1, WithinGoesOn, EntriesAreValues
      <4>3. Items(g, w) \subseteq Came(g, in)
        BY <4>2 DEF Came
      <4> QED
        BY <4>3
    <3>2. CASE w = o
      <4>1. Items(h, o) \subseteq A
        BY <1>1, EntriesAreValues, BelowGoesOn
      <4> QED
        BY <1>6, <3>2, <4>1
    <3>3. CASE w \in A /\ w \notin W /\ w # o
      <4>1. Items(h, w) \subseteq A
        BY <1>1, <3>3, EntriesAreValues, BelowGoesOn
      <4>2. Items(g, w) = Items(h, w) /\ Items(h, w) \cap W = {}
        BY <1>3, <1>4, <3>3
      <4> QED
        BY <4>1, <4>2
    <3> QED
      BY <2>2, <3>1, <3>2, <3>3
  <2> HIDE DEF Z
  <2> QED
    BY <1>1, <2>1, <2>2, BelowIsLeast
<1>9. A \subseteq W \cup Below(g, T)
  <2>1. \A c \in Values : c \notin W => Items(h, c) \subseteq W \cup Items(g, c)
    BY <1>4, <1>7
  <2>2. T \subseteq W \cup T
    OBVIOUS
  <2> HIDE DEF W
  <2> QED
    BY <1>1, <1>3, <2>1, <2>2, Pruned
<1>10. o \in Below(g, T)
  BY <1>3, <1>9
<1>11. Came(g, in) \subseteq Below(g, T)
  <2>1. ASSUME NEW e \in in PROVE Within(g, e[2]) \subseteq Below(g, T)
    <3>1. e[2] \in Below(g, T)
      BY <1>5, <1>10, BelowGoesOn
    <3> QED
      BY <1>1, <3>1, WithinInBelow
  <2> QED
    BY <2>1 DEF Came
<1>12. Below(g, T) = (A \ W) \cup Came(g, in)
  BY <1>8, <1>9, <1>11
<1>13. \A w \in Below(h, S) : (w \notin W /\ w # o) => Entries(g, w) = Entries(h, w)
  BY DEF Below
<1>14. CASE T = S /\ in = {}
  <2>1. Came(g, in) = {}
    BY <1>14 DEF Came
  <2>2. S \ T = {}
    BY <1>14
  <2> HIDE DEF W
  <2> QED
    BY <1>10, <1>12, <1>13, <1>14, <2>1, <2>2 DEF Changes, W
<1>15. CASE \E v \in S : T = S \ {v} /\ \E n : in = {<< n, v >>}
  <2>1. PICK v \in S : T = S \ {v} /\ \E n : in = {<< n, v >>}
    BY <1>15
  <2>2. PICK n : in = {<< n, v >>}
    BY <2>1
  <2>3. v \in Values
    BY <1>1
  <2>4. Below(h, S) = A \cup Within(h, v) /\ \A w \in A : w \notin Within(h, v)
    BY <2>1, Apart
  <2>5. Within(h, v) \subseteq Values
    BY <1>1, <2>3, WithinBelow
  <2>6. \A w \in Within(h, v) : Items(g, w) = Items(h, w)
    BY <1>3, <1>4, <2>4, <2>5
  <2>7. Within(g, v) = Within(h, v)
    BY <1>1, <2>3, <2>6, SameWithin
  <2>8. Came(g, in) = Within(h, v)
    <3>1. \A e \in in : e[2] = v
      BY <2>2
    <3>2. \E e \in in : TRUE
      BY <2>2
    <3> QED
      BY <2>5, <2>7, <3>1, <3>2 DEF Came
  <2>9. S \ T = {v}
    BY <2>1
  <2>10. Below(g, T) = (Below(h, S) \ W) \cup Came(g, in)
    BY <1>3, <1>12, <2>4, <2>8
  <2>11. \A w \in Below(h, S) : w \in Came(g, in) <=> \E r \in S \ T : w \in Within(h, r)
    BY <2>8, <2>9
  <2>12. o \in Below(h, S) /\ T \subseteq S
    BY <2>4
  <2> HIDE DEF W
  <2> QED
    BY <1>10, <1>13, <2>10, <2>11, <2>12 DEF Changes, W
<1> QED
  BY <1>14, <1>15

-----------------------------------------------------------------------------
(* Changes one after another.  First, blocks that are the same but for     *)
(* their capacities.                                                       *)
SameBlocks(h, g) ==
  \A d \in Values : h[d].items = g[d].items /\ h[d].names = g[d].names /\ h[d].type = g[d].type

(* Blocks that differ in capacity only show a program the same.            *)
LEMMA SameBlocksShow ==
  ASSUME NEW h \in [Values -> BlockSet], NEW g \in [Values -> BlockSet], SameBlocks(h, g)
  PROVE  /\ \A w \in Values : Entries(g, w) = Entries(h, w) /\ Items(g, w) = Items(h, w)
         /\ \A v \in Values : Within(g, v) = Within(h, v)
         /\ \A S \in SUBSET Values : Below(g, S) = Below(h, S)
<1>1. \A w \in Values : Entries(g, w) = Entries(h, w) /\ Items(g, w) = Items(h, w)
  BY DEF SameBlocks, Entries, Named, Items
<1>2. \A v \in Values : Within(g, v) = Within(h, v)
  <2> TAKE v \in Values
  <2>1. Within(h, v) \subseteq Values
    BY WithinBelow
  <2>2. \A c \in Within(h, v) : Items(g, c) = Items(h, c)
    BY <1>1, <2>1
  <2> QED
    BY <2>2, SameWithin
<1>3. \A S \in SUBSET Values : Below(g, S) = Below(h, S)
  <2> TAKE S \in SUBSET Values
  <2>1. \A c \in Below(h, S) : Items(g, c) = Items(h, c)
    BY <1>1 DEF Below
  <2> QED
    BY <2>1, SameBelow
<1> QED
  BY <1>1, <1>2, <1>3

(* A change is one still if capacities differ afterwards.                  *)
LEMMA ChangesStay ==
  ASSUME NEW h \in [Values -> BlockSet], NEW S \in SUBSET Values, NEW g \in [Values -> BlockSet],
         NEW T, NEW o, NEW out, NEW in, Changes(h, S, g, T, o, out, in),
         NEW k \in [Values -> BlockSet], SameBlocks(g, k)
  PROVE  Changes(h, S, k, T, o, out, in)
<1>1. /\ o \in Below(h, S) /\ o \in Below(g, T) /\ T \subseteq S
      /\ out = Entries(h, o) \ Entries(g, o)
      /\ in = Entries(g, o) \ Entries(h, o)
      /\ OneComes(in, Entries(g, o)) /\ OneGoes(out, Entries(g, o))
      /\ \A w \in Below(h, S) : w \in Came(g, in) <=> \E r \in S \ T : w \in Within(h, r)
      /\ Below(g, T) = (Below(h, S) \ Came(h, out)) \cup Came(g, in)
      /\ \A w \in Below(h, S) : (w \notin Came(h, out) /\ w # o) => Entries(g, w) = Entries(h, w)
  BY DEF Changes
<1>2. T \in SUBSET Values /\ o \in Values
  BY <1>1 DEF Below
<1>3. \A w \in Values : Entries(k, w) = Entries(g, w) /\ Items(k, w) = Items(g, w)
  BY SameBlocksShow
<1>4. Below(k, T) = Below(g, T)
  BY <1>2, SameBlocksShow
<1>5. \A e \in in : e[2] \in Values
  BY <1>1, <1>2, EntryIsBelow
<1>6. \A e \in in : Within(k, e[2]) = Within(g, e[2])
  BY <1>5, SameBlocksShow
<1>7. Came(k, in) = Came(g, in)
  BY <1>6 DEF Came
<1>8. Entries(k, o) = Entries(g, o)
  BY <1>2, <1>3
<1>9. \A w \in Below(h, S) : (w \notin Came(h, out) /\ w # o) => Entries(k, w) = Entries(h, w)
  BY <1>1, <1>3 DEF Below
<1> QED
  BY <1>1, <1>4, <1>7, <1>8, <1>9 DEF Changes

(* What is down from a root was not freed. *)
LEMMA BelowIsThere ==
  ASSUME NEW h, GoodHeap(h), NEW S, Rooted(h, S)
  PROVE  \A w \in Below(h, S) : h[w].type # "free"
<1> DEFINE Z == {w \in Values : h[w].type # "free"}
<1>1. h \in [Values -> BlockSet] /\ S \in SUBSET Values /\ NoneFreed(h)
  BY DEF GoodHeap, Typed, Rooted
<1>2. S \subseteq Z
  BY DEF Rooted
<1>3. ASSUME NEW c \in Values, c \in Z PROVE Items(h, c) \subseteq Z
  <2>1. Items(h, c) \subseteq Values
    BY <1>1, EntriesAreValues
  <2>2. \A x \in Items(h, c) : h[x].type # "free"
    BY <1>1 DEF Items, NoneFreed
  <2> QED
    BY <2>1, <2>2
<1> HIDE DEF Z
<1>4. Below(h, S) \subseteq Z
  BY <1>1, <1>2, <1>3, BelowIsLeast
<1> QED
  BY <1>4 DEF Z

(* A block that is allocated first. *)
Fresh(h, S, g, new) ==
  /\ new \in Values /\ new \notin S /\ new \notin Below(h, S)
  /\ GoodHeap(g) /\ Rooted(g, S \cup {new})
  /\ Items(g, new) = {} /\ Within(g, new) = {new}
  /\ Below(g, S \cup {new}) = Below(h, S) \cup {new}
  /\ Below(g, S) = Below(h, S)
  /\ \A w \in Below(h, S) : g[w] = h[w] /\ Entries(g, w) = Entries(h, w) /\ Within(g, w) = Within(h, w)
  /\ \A R \in SUBSET S : Below(g, R) = Below(h, R)

(* A block that malloc gives is reached by nothing, and all else as before.*)
LEMMA FreshIs ==
  ASSUME NEW h, GoodHeap(h), NEW S, Rooted(h, S), Unused(h) # {},
         NEW b \in BlockSet, Sound(b), b.type # "free", b.items = << >>
  PROVE  Fresh(h, S, [h EXCEPT ![malloc(h)] = b], malloc(h))
<1> DEFINE new == malloc(h)
           g == [h EXCEPT ![new] = b]
           T == S \cup {new}
<1>1. h \in [Values -> BlockSet] /\ S \in SUBSET Values
  BY DEF GoodHeap, Typed, Rooted
<1>2. /\ new \in Values /\ new \notin S
      /\ GoodHeap(g) /\ Rooted(g, T)
      /\ \A d \in Values : g[d] = IF d = new THEN b ELSE h[d]
  BY FreshBlock
<1>3. h[new].type = "free"
  BY DEF malloc, Unused
<1> HIDE DEF new, g
<1>4. new \notin Below(h, S)
  BY <1>3, BelowIsThere
<1>5. Items(g, new) = {}
  BY <1>2 DEF Items
<1>6. g \in [Values -> BlockSet] /\ T \in SUBSET Values /\ new \in T
  BY <1>1, <1>2 DEF GoodHeap, Typed
<1>7. Within(g, new) = {new}
  BY <1>2, <1>5, <1>6, NothingInside
<1>8. \A w \in Below(h, S) : g[w] = h[w] /\ Entries(g, w) = Entries(h, w) /\ Items(g, w) = Items(h, w)
  <2> TAKE w \in Below(h, S)
  <2>1. w \in Values /\ w # new
    BY <1>4 DEF Below
  <2>2. g[w] = h[w]
    BY <1>2, <2>1
  <2> QED
    BY <2>2 DEF Entries, Items
<1>9. \A w \in Below(h, S) : Within(g, w) = Within(h, w)
  <2> TAKE w \in Below(h, S)
  <2>1. Within(h, w) \subseteq Below(h, S) /\ w \in Values
    BY <1>1, WithinInBelow DEF Below
  <2>2. \A c \in Within(h, w) : Items(g, c) = Items(h, c)
    BY <1>8, <2>1
  <2> QED
    BY <1>1, <1>6, <2>1, <2>2, SameWithin
<1>10. \A R \in SUBSET S : Below(g, R) = Below(h, R)
  <2> TAKE R \in SUBSET S
  <2>1. R \in SUBSET Values
    BY <1>1
  <2>2. \A c \in Below(h, R) : Items(g, c) = Items(h, c)
    BY <1>8, BelowMore
  <2> QED
    BY <1>1, <1>6, <2>1, <2>2, SameBelow
<1>11. Below(g, S) = Below(h, S)
  BY <1>10
<1>12. Below(g, T) = Below(h, S) \cup {new}
  <2>1. Below(g, T) = Below(g, T \ {new}) \cup Within(g, new)
    BY <1>2, <1>6, Apart
  <2>2. T \ {new} = S
    BY <1>2
  <2> QED
    BY <1>7, <1>11, <2>1, <2>2
<1>13. Fresh(h, S, g, new)
  BY <1>2, <1>4, <1>5, <1>7, <1>8, <1>9, <1>10, <1>11, <1>12 DEF Fresh
<1> QED
  BY <1>13 DEF g, new

(* What comes with one entry is all that is in its value.                  *)
LEMMA CameOne ==
  ASSUME NEW g \in [Values -> BlockSet], NEW n, NEW x \in Values
  PROVE  Came(g, {<< n, x >>}) = Within(g, x)
<1>1. Within(g, x) \subseteq Values
  BY WithinBelow
<1> QED
  BY <1>1 DEF Came

(* A change after an allocation takes what was allocated: so it is one of  *)
(* the heap before.                                                        *)
LEMMA FreshChanges ==
  ASSUME NEW h \in [Values -> BlockSet], NEW S \in SUBSET Values, NEW f, NEW new, Fresh(h, S, f, new),
         NEW g, NEW o, NEW out, NEW in, Changes(f, S \cup {new}, g, S, o, out, in),
         o # new, new \in Came(g, in)
  PROVE  Changes(h, S, g, S, o, out, in)
<1> DEFINE P == S \cup {new}
           A == Below(h, S)
<1>1. /\ new \in Values /\ new \notin S /\ new \notin A
      /\ Within(f, new) = {new}
      /\ Below(f, P) = A \cup {new}
      /\ \A w \in A : Entries(f, w) = Entries(h, w) /\ Within(f, w) = Within(h, w)
  BY DEF Fresh
<1>2. /\ o \in Below(f, P) /\ o \in Below(g, S)
      /\ out = Entries(f, o) \ Entries(g, o)
      /\ in = Entries(g, o) \ Entries(f, o)
      /\ OneComes(in, Entries(g, o)) /\ OneGoes(out, Entries(g, o))
      /\ \A w \in Below(f, P) : w \in Came(g, in) <=> \E r \in P \ S : w \in Within(f, r)
      /\ Below(g, S) = (Below(f, P) \ Came(f, out)) \cup Came(g, in)
      /\ \A w \in Below(f, P) : (w \notin Came(f, out) /\ w # o) => Entries(g, w) = Entries(f, w)
  BY DEF Changes
<1> HIDE DEF A
<1>3. o \in A /\ Entries(f, o) = Entries(h, o)
  BY <1>1, <1>2
<1>4. Came(f, out) = Came(h, out)
  <2>1. \A e \in out : e[2] \in A
    BY <1>2, <1>3, EntryIsBelow DEF A
  <2>2. \A e \in out : Within(f, e[2]) = Within(h, e[2])
    BY <1>1, <2>1
  <2> QED
    BY <2>2 DEF Came
<1>5. P \ S = {new}
  BY <1>1
<1>6. \A w \in A : w \notin Came(g, in)
  BY <1>1, <1>2, <1>5
<1>7. Below(g, S) = (A \ Came(h, out)) \cup Came(g, in)
  BY <1>1, <1>2, <1>4
<1>8. \A w \in A : (w \notin Came(h, out) /\ w # o) => Entries(g, w) = Entries(h, w)
  BY <1>1, <1>2, <1>4
<1>9. S \ S = {} /\ S \subseteq S
  OBVIOUS
<1> QED
  BY <1>2, <1>3, <1>6, <1>7, <1>8, <1>9 DEF Changes, A

(* One entry more; and with it a value down from it. *)
Grows(h, S, g, T, o, n, x) == Changes(h, S, g, T, o, {}, {<< n, x >>})

GrowsWith(h, S, k, T, o, n, x, y) ==
  Grows(h, S, k, T, o, n, x) /\ y \in Within(k, x) /\ x \in Values

(* A change within what has just come. *)
LEMMA ChangesDeeper ==
  ASSUME NEW h, GoodHeap(h), NEW S, Rooted(h, S), NEW g, GoodHeap(g), Rooted(g, S),
         NEW k \in [Values -> BlockSet], NEW o, NEW n, NEW x, Grows(h, S, g, S, o, n, x),
         NEW T, NEW p \in Within(g, x), NEW m, NEW y, Grows(g, S, k, T, p, m, y),
         \A r \in S \ T : o \notin Within(h, r)
  PROVE  GrowsWith(h, S, k, T, o, n, x, y)
<1> DEFINE e == << n, x >>
           f == << m, y >>
           none == {}
           A == Below(h, S)
           B == Below(g, S)
           C == Below(k, T)
           X == Within(g, x)
           Y == Within(k, y)
           V == Within(k, x)
           Z == X \cup Y
<1>1. /\ h \in [Values -> BlockSet] /\ g \in [Values -> BlockSet] /\ S \in SUBSET Values
      /\ A \subseteq Values /\ B \subseteq Values /\ C \subseteq Values
  BY DEF GoodHeap, Typed, Rooted, Below
<1>2. Came(h, none) = {} /\ Came(g, none) = {} /\ Came(k, none) = {}
  BY DEF Came
<1>3. /\ o \in A /\ o \in B
      /\ none = Entries(h, o) \ Entries(g, o)
      /\ {e} = Entries(g, o) \ Entries(h, o)
      /\ OneComes({e}, Entries(g, o)) /\ OneGoes(none, Entries(g, o))
      /\ \A w \in A : w \in Came(g, {e}) <=> \E r \in S \ S : w \in Within(h, r)
      /\ B = (A \ Came(h, none)) \cup Came(g, {e})
      /\ \A w \in A : (w \notin Came(h, none) /\ w # o) => Entries(g, w) = Entries(h, w)
  BY DEF Grows, Changes
<1>4. /\ p \in B /\ p \in C /\ T \subseteq S
      /\ none = Entries(g, p) \ Entries(k, p)
      /\ {f} = Entries(k, p) \ Entries(g, p)
      /\ \A w \in B : w \in Came(k, {f}) <=> \E r \in S \ T : w \in Within(g, r)
      /\ C = (B \ Came(g, none)) \cup Came(k, {f})
      /\ \A w \in B : (w \notin Came(g, none) /\ w # p) => Entries(k, w) = Entries(g, w)
  BY DEF Grows, Changes
<1>5. e \in Entries(g, o) /\ e[2] = x /\ f \in Entries(k, p) /\ f[2] = y
  BY <1>3, <1>4
<1>6. x \in Values /\ o \notin X
  <2>1. e[2] \in Values /\ o \notin Within(g, e[2])
    BY <1>1, <1>3, <1>5, EntryIsBelow, EntryIsElsewhere
  <2> QED
    BY <1>5, <2>1
<1>7. y \in Values /\ y \in Items(k, p)
  <2>1. T \in SUBSET Values
    BY <1>1, <1>4
  <2>2. f[2] \in Values /\ f[2] \in Items(k, p)
    BY <1>4, <1>5, <2>1, EntryIsBelow
  <2> QED
    BY <1>5, <2>2
<1>8. Came(g, {e}) = X /\ Came(k, {f}) = Y /\ Came(k, {e}) = V
  BY <1>1, <1>6, <1>7, CameOne
<1>9. \A w \in A : w \notin X
  BY <1>3, <1>8
<1>10. B = A \cup X /\ C = B \cup Y
  BY <1>2, <1>3, <1>4, <1>8
<1>11. o # p /\ Entries(k, o) = Entries(g, o)
  BY <1>2, <1>3, <1>4, <1>6
<1>12. \A w \in A : w # o => Entries(k, w) = Entries(h, w)
  BY <1>2, <1>3, <1>4, <1>9, <1>10
<1>13. /\ X \subseteq Values /\ Y \subseteq Values /\ V \subseteq Values
       /\ x \in X /\ x \in V /\ y \in Y
  BY <1>1, <1>6, <1>7, WithinBelow
<1>14. /\ \A w \in Values : w \in X => Items(g, w) \subseteq X
       /\ \A w \in Values : w \in Y => Items(k, w) \subseteq Y
       /\ \A w \in Values : w \in V => Items(k, w) \subseteq V
  BY <1>1, <1>6, <1>7, WithinGoesOn
<1>15. \A w \in B : w # p => Items(k, w) = Items(g, w)
  BY <1>2, <1>4, SameEntries
<1>16. \A z \in Items(k, p) : z \in Items(g, p) \/ z = y
  <2> TAKE z \in Items(k, p)
  <2>1. PICK d \in Entries(k, p) : d[2] = z
    BY EntriesAreItems
  <2>2. d = f \/ d \in Entries(g, p)
    BY <1>4
  <2> QED
    BY <1>5, <2>1, <2>2, EntriesAreItems
<1>17. \A z \in Items(g, p) : z \in Items(k, p)
  <2> TAKE z \in Items(g, p)
  <2>1. PICK d \in Entries(g, p) : d[2] = z
    BY EntriesAreItems
  <2>2. d \in Entries(k, p)
    BY <1>4
  <2> QED
    BY <2>1, <2>2, EntriesAreItems
<1> HIDE DEF A, B, C, X, Y, V, e, f, none
<1>18. V \subseteq Z
  <2>1. ASSUME NEW w \in Values, w \in Z PROVE Items(k, w) \subseteq Z
    <3>1. CASE w \in Y
      BY <1>14, <3>1
    <3>2. CASE w = p
      BY <1>13, <1>14, <1>16, <3>2 DEF X
    <3>3. CASE w \in X /\ w # p
      BY <1>10, <1>14, <1>15, <3>3
    <3> QED
      BY <2>1, <3>1, <3>2, <3>3
  <2>2. x \in Z
    BY <1>13
  <2> HIDE DEF Z
  <2> QED
    BY <1>6, <2>1, <2>2, WithinIsLeast DEF V
<1>19. X \subseteq V
  <2> DEFINE U == X \cap V
  <2>1. ASSUME NEW w \in Values, w \in U PROVE Items(g, w) \subseteq U
    <3>1. Items(g, w) \subseteq Items(k, w)
      BY <1>10, <1>15, <1>17, <2>1
    <3> QED
      BY <1>14, <2>1, <3>1
  <2>2. x \in U
    BY <1>13
  <2> HIDE DEF U
  <2>3. X \subseteq U
    BY <1>1, <1>6, <2>1, <2>2, WithinIsLeast DEF X
  <2> QED
    BY <2>3 DEF U
<1>20. y \in V /\ Y \subseteq V
  <2>1. p \in V
    BY <1>19 DEF X
  <2>2. y \in V
    BY <1>7, <1>13, <1>14, <2>1
  <2> QED
    BY <1>6, <2>2, WithinInWithin DEF V, Y
<1>21. V = X \cup Y
  BY <1>18, <1>19, <1>20
<1>22. \A r \in S \ T : Within(g, r) = Within(h, r) /\ Within(h, r) \subseteq A
  <2> TAKE r \in S \ T
  <2>1. r \in Values /\ o \notin Within(h, r)
    BY <1>1
  <2>2. r \in A
    BY <1>1, <2>1, RootIsBelow DEF A
  <2>3. Within(h, r) \subseteq A
    BY <1>1, <2>2, WithinInBelow DEF A
  <2>4. \A c \in Within(h, r) : Items(g, c) = Items(h, c)
    <3> TAKE c \in Within(h, r)
    <3>1. c \in A /\ c # o
      BY <2>1, <2>3
    <3>2. Entries(g, c) = Entries(h, c)
      BY <1>2, <1>3, <3>1
    <3> QED
      BY <3>2, SameEntries
  <2>5. Within(g, r) = Within(h, r)
    BY <1>1, <2>1, <2>4, SameWithin
  <2> QED
    BY <2>3, <2>5
<1>23. \A w \in A : w \in V <=> \E r \in S \ T : w \in Within(h, r)
  BY <1>4, <1>8, <1>9, <1>10, <1>21, <1>22
<1>24. C = (A \ Came(h, none)) \cup V
  BY <1>2, <1>10, <1>21
<1>25. o \in C
  BY <1>3, <1>10
<1>26. Changes(h, S, k, T, o, none, {e})
  BY <1>3, <1>4, <1>8, <1>11, <1>12, <1>23, <1>24, <1>25 DEF Changes, A, C
<1> QED
  BY <1>6, <1>20, <1>26 DEF V, none, e, Grows, GrowsWith

(* What was allocated and not taken is freed. *)
LEMMA FreshDropped ==
  ASSUME NEW h \in [Values -> BlockSet], NEW S \in SUBSET Values, NEW f, NEW new, Fresh(h, S, f, new),
         NEW g, GoodHeap(g), Rooted(g, S \cup {new}), NEW o, NEW in,
         Changes(f, S \cup {new}, g, S \cup {new}, o, {}, in), o # new
  PROVE  Changes(h, S, json_value_free(g, new), S, o, {}, in)
<1> DEFINE P == S \cup {new}
           A == Below(h, S)
           k == json_value_free(g, new)
           none == {}
<1>1. /\ new \in Values /\ new \notin S /\ new \notin A
      /\ Items(f, new) = {}
      /\ Below(f, P) = A \cup {new}
      /\ \A w \in A : Entries(f, w) = Entries(h, w)
  BY DEF Fresh
<1>2. /\ o \in Below(f, P) /\ o \in Below(g, P)
      /\ none = Entries(f, o) \ Entries(g, o)
      /\ in = Entries(g, o) \ Entries(f, o)
      /\ OneComes(in, Entries(g, o)) /\ OneGoes(none, Entries(g, o))
      /\ \A w \in Below(f, P) : w \in Came(g, in) <=> \E r \in P \ P : w \in Within(f, r)
      /\ Below(g, P) = (Below(f, P) \ Came(f, none)) \cup Came(g, in)
      /\ \A w \in Below(f, P) : (w \notin Came(f, none) /\ w # o) => Entries(g, w) = Entries(f, w)
  BY DEF Changes
<1>3. Came(f, none) = {} /\ Came(h, none) = {}
  BY DEF Came
<1>4. g \in [Values -> BlockSet] /\ Typed(g) /\ new \in P /\ P \ {new} = S /\ P \in SUBSET Values
  BY <1>1 DEF GoodHeap, Typed
<1>5. new \in Below(f, P) /\ new \notin Came(g, in)
  BY <1>1, <1>2
<1>6. Items(g, new) = {}
  <2>1. Entries(g, new) = Entries(f, new)
    BY <1>2, <1>3, <1>5
  <2> QED
    BY <1>1, <2>1, SameEntries
<1>7. Within(g, new) = {new}
  BY <1>1, <1>4, <1>6, NothingInside
<1>8. k \in [Values -> BlockSet] /\ \A w \in Values : k[w] = IF w = new THEN Free ELSE g[w]
  BY <1>1, <1>4, <1>7, Freed DEF Typed
<1>9. Below(g, P) = Below(g, S) \cup {new} /\ new \notin Below(g, S)
  <2>1. /\ Below(g, P) = Below(g, P \ {new}) \cup Within(g, new)
        /\ \A w \in Below(g, P \ {new}) : w \notin Within(g, new)
    BY <1>4, Apart
  <2> QED
    BY <1>4, <1>7, <2>1
<1> HIDE DEF k, A, P, none
<1>10. \A w \in Values : w # new => Entries(k, w) = Entries(g, w) /\ Items(k, w) = Items(g, w)
  BY <1>8 DEF Entries, Items
<1>11. Below(k, S) = Below(g, S)
  <2>1. \A c \in Below(g, S) : Items(k, c) = Items(g, c)
    BY <1>9, <1>10 DEF Below
  <2> QED
    BY <1>4, <1>8, <2>1, SameBelow
<1>12. Came(k, in) = Came(g, in)
  <2>1. \A e \in in : e[2] \in Values
    BY <1>2, <1>4, EntryIsBelow
  <2>2. \A e \in in : Within(k, e[2]) = Within(g, e[2])
    <3> TAKE e \in in
    <3>1. Within(g, e[2]) \subseteq Values /\ new \notin Within(g, e[2])
      BY <1>1, <1>4, <1>5, <2>1, WithinBelow DEF Came
    <3>2. \A c \in Within(g, e[2]) : Items(k, c) = Items(g, c)
      BY <1>10, <3>1
    <3> QED
      BY <1>4, <1>8, <2>1, <3>2, SameWithin
  <2> QED
    BY <2>2 DEF Came
<1>13. o \in A /\ o \in Below(k, S) /\ o \in Values
  BY <1>1, <1>2, <1>9, <1>11 DEF Below
<1>14. Entries(h, o) = Entries(f, o) /\ Entries(k, o) = Entries(g, o)
  BY <1>1, <1>10, <1>13
<1>15. \A w \in A : w \notin Came(k, in)
  BY <1>1, <1>2, <1>12
<1>16. Below(k, S) = (A \ Came(h, none)) \cup Came(k, in)
  <2>1. Below(g, P) = A \cup {new} \cup Came(g, in)
    BY <1>1, <1>2, <1>3
  <2> QED
    BY <1>1, <1>3, <1>5, <1>9, <1>11, <1>12, <2>1
<1>17. \A w \in A : w # o => Entries(k, w) = Entries(h, w)
  <2> TAKE w \in A
  <2>1. w \in Values /\ w # new /\ w \in Below(f, P)
    BY <1>1 DEF A, Below
  <2> QED
    BY <1>1, <1>2, <1>3, <1>10, <2>1
<1>18. Changes(h, S, k, S, o, none, in)
  <2>1. S \ S = {} /\ S \subseteq S
    OBVIOUS
  <2> QED
    BY <1>2, <1>13, <1>14, <1>15, <1>16, <1>17, <2>1 DEF Changes, A
<1> QED
  BY <1>18 DEF k, none

-----------------------------------------------------------------------------
(* What the calls do to one container.                                     *)

(* An entry at the end of a container's arrays is an entry more. *)
LEMMA EntriesAppended ==
  ASSUME NEW h, Typed(h), NEW c \in Values, NEW g, NEW n, NEW v \in Values,
         g[c].type = h[c].type, g[c].items = Append(h[c].items, v),
         h[c].type = "object" => n \in Names /\ g[c].names = Append(h[c].names, n),
         h[c].type # "object" => n = None
  PROVE  Entries(g, c) = Entries(h, c) \cup {<< n, v >>}
<1> DEFINE k == Len(h[c].items)
<1>1. /\ h[c].items \in Seq(Values) /\ h[c].names \in Seq(Names)
      /\ k \in Nat /\ DOMAIN h[c].items = 1..k
      /\ h[c].type = "object" => Len(h[c].names) = k
  <2>1. h[c] \in BlockSet /\ Sound(h[c])
    BY DEF Typed
  <2>2. h[c].items \in Seq(Values) /\ h[c].names \in Seq(Names)
    BY <2>1 DEF BlockSet
  <2> QED
    BY <2>1, <2>2 DEF Sound
<1> HIDE DEF k
<1>2. /\ DOMAIN g[c].items = 1 .. k + 1
      /\ \A i \in 1..k : g[c].items[i] = h[c].items[i]
      /\ g[c].items[k + 1] = v
  <2>1. LET t == g[c].items
            s == h[c].items
        IN  /\ DOMAIN t = 1 .. Len(s) + 1
            /\ \A i \in 1 .. Len(s) : t[i] = s[i]
            /\ t[Len(s) + 1] = v
    BY <1>1, Appended
  <2> QED
    BY <2>1 DEF k
<1>3. /\ \A i \in 1..k : Named(g[c], i) = Named(h[c], i)
      /\ Named(g[c], k + 1) = n
  <2>1. CASE h[c].type = "object"
    <3>1. /\ \A i \in 1..k : g[c].names[i] = h[c].names[i]
          /\ g[c].names[k + 1] = n
      <4>1. LET t == g[c].names
                s == h[c].names
            IN  /\ DOMAIN t = 1 .. Len(s) + 1
                /\ \A i \in 1 .. Len(s) : t[i] = s[i]
                /\ t[Len(s) + 1] = n
        BY <1>1, <2>1, Appended
      <4> QED
        BY <1>1, <2>1, <4>1
    <3> QED
      BY <2>1, <3>1 DEF Named
  <2>2. CASE h[c].type # "object"
    BY <2>2 DEF Named
  <2> QED
    BY <2>1, <2>2
<1>4. 1 .. k + 1 = 1..k \cup {k + 1}
  BY <1>1
<1>5. Entries(g, c) = {<< Named(g[c], i), g[c].items[i] >> : i \in 1..k} \cup {<< n, v >>}
  BY <1>2, <1>3, <1>4 DEF Entries
<1>6. {<< Named(g[c], i), g[c].items[i] >> : i \in 1..k} = Entries(h, c)
  BY <1>1, <1>2, <1>3 DEF Entries
<1> QED
  BY <1>5, <1>6

(* A root added at the end of a container is one entry in.                 *)
LEMMA AddedChanges ==
  ASSUME NEW h, GoodHeap(h), NEW S, Rooted(h, S), NEW v \in S, NEW c \in Below(h, S \ {v}),
         NEW g \in [Values -> BlockSet], \A w \in Values : w # c => g[w] = h[w],
         NEW n, Entries(g, c) = Entries(h, c) \cup {<< n, v >>},
         n = None \/ \A e \in Entries(h, c) : e[1] # n
  PROVE  Changes(h, S, g, S \ {v}, c, {}, {<< n, v >>})
<1> DEFINE f == << n, v >>
           in == {f}
           out == {}
           T == S \ {v}
<1>1. c \in Below(h, S) /\ f[1] = n /\ f[2] = v
  BY BelowMore
<1>2. f \notin Entries(h, c)
  BY <1>1, EntryIsElsewhere
<1>3. in = Entries(g, c) \ Entries(h, c) /\ out = Entries(h, c) \ Entries(g, c)
  BY <1>2
<1>4. OneComes(in, Entries(g, c)) /\ OneGoes(out, Entries(g, c))
  <2>1. \A e \in Entries(g, c) : e # f => e[1] # f[1] \/ f[1] = None
    BY <1>1
  <2> HIDE DEF f
  <2> QED
    BY <2>1 DEF OneComes, OneGoes
<1>5. \A w \in Values : (w \notin Came(h, out) /\ w # c) => Entries(g, w) = Entries(h, w)
  BY DEF Entries
<1>6. T \in SUBSET S /\ \E u \in S : T = S \ {u} /\ \E m : in = {<< m, u >>}
  BY Zenon
<1> HIDE DEF in, out, T
<1>7. Changes(h, S, g, T, c, out, in)
  <2>1. c \in Below(h, T)
    BY DEF T
  <2> QED
    BY <1>3, <1>4, <1>5, <1>6, <2>1, HeapChanges
<1> QED
  BY <1>7 DEF in, out, T, f

(* An object's names are distinct. *)
LEMMA OtherNames ==
  ASSUME NEW h, Typed(h), NEW c \in Values, NEW i \in DOMAIN h[c].items, NEW j \in DOMAIN h[c].items,
         i # j
  PROVE  Named(h[c], j) # Named(h[c], i) \/ Named(h[c], i) = None
<1>1. h[c] \in BlockSet /\ Sound(h[c])
  BY DEF Typed
<1>2. h[c].items \in Seq(Values) /\ h[c].names \in Seq(Names)
  BY <1>1 DEF BlockSet
<1>3. CASE h[c].type = "object"
  <2>1. i \in DOMAIN h[c].names /\ j \in DOMAIN h[c].names
    BY <1>1, <1>2, <1>3 DEF Sound
  <2>2. h[c].names[j] # h[c].names[i]
    BY <1>1, <2>1 DEF Sound, IsInjective
  <2> QED
    BY <1>3, <2>2 DEF Named
<1>4. CASE h[c].type # "object"
  BY <1>4 DEF Named
<1> QED
  BY <1>3, <1>4

(* A root put in an entry's place is one entry out and one in.             *)
LEMMA ReplacedChanges ==
  ASSUME NEW h, GoodHeap(h), NEW S, Rooted(h, S), NEW v \in S, NEW c \in Below(h, S \ {v}),
         NEW i \in DOMAIN h[c].items,
         NEW g, g = [json_value_free(h, h[c].items[i]) EXCEPT ![c].items[i] = v]
  PROVE  Changes(h, S, g, S \ {v}, c, {<< Named(h[c], i), h[c].items[i] >>}, {<< Named(h[c], i), v >>})
<1> DEFINE x == h[c].items[i]
           n == Named(h[c], i)
           e == << n, x >>
           f == << n, v >>
           in == {f}
           out == {e}
           T == S \ {v}
<1>1. /\ c \in Below(h, S) /\ c \in Values /\ f[1] = n /\ f[2] = v /\ e[2] = x
      /\ v \in Values /\ Typed(h) /\ OnePlace(h) /\ h \in [Values -> BlockSet]
  BY BelowMore DEF GoodHeap, Rooted, Typed, Below
<1>2. h[c] \in BlockSet /\ Sound(h[c])
  BY <1>1 DEF Typed
<1>3. x \in Values /\ v # x /\ c \notin Within(h, x)
  <2>1. x \in Values
    BY <1>2 DEF BlockSet
  <2>2. v # x
    BY <1>1 DEF Rooted
  <2>3. c \notin Within(h, x)
    BY <1>1, NotInsideItself
  <2> QED
    BY <2>1, <2>2, <2>3
<1>4. g \in [Values -> BlockSet]
  BY <1>1, PutInstead DEF GoodHeap, Typed
<1>5. /\ \A w \in Values : w # c => g[w] = IF w \in Within(h, x) THEN Free ELSE h[w]
      /\ g[c] = [h[c] EXCEPT !.items[i] = v]
  <2>1. \A w \in Values : json_value_free(h, x)[w] = IF w \in Within(h, x) THEN Free ELSE h[w]
    BY <1>1, <1>3, Freed
  <2>2. json_value_free(h, x) \in [Values -> BlockSet]
    BY <1>1, <1>3, Freed DEF Typed
  <2>3. g = [json_value_free(h, x) EXCEPT ![c] = [@ EXCEPT !.items[i] = v]]
    OBVIOUS
  <2> HIDE DEF x
  <2>4. g[c] = [json_value_free(h, x)[c] EXCEPT !.items[i] = v]
    BY <1>1, <2>2, <2>3
  <2>5. \A w \in Values : w # c => g[w] = json_value_free(h, x)[w]
    BY <2>2, <2>3
  <2> QED
    BY <1>1, <1>3, <2>1, <2>4, <2>5
<1>6. /\ g[c].type = h[c].type /\ g[c].names = h[c].names
      /\ DOMAIN g[c].items = DOMAIN h[c].items
      /\ \A j \in DOMAIN h[c].items : g[c].items[j] = IF j = i THEN v ELSE h[c].items[j]
  <2>1. /\ g[c].type = h[c].type
        /\ DOMAIN g[c].items = DOMAIN h[c].items
        /\ \A j \in DOMAIN h[c].items : g[c].items[j] = IF j = i THEN v ELSE h[c].items[j]
    <3>1. LET d == [h[c] EXCEPT !.items[i] = v] IN
          /\ d \in BlockSet /\ Sound(d) /\ d.type = h[c].type
          /\ DOMAIN d.items = DOMAIN h[c].items
          /\ \A j \in DOMAIN h[c].items : d.items[j] = IF j = i THEN v ELSE h[c].items[j]
      BY <1>1, <1>2, EntryReplaced
    <3> HIDE DEF x, n
    <3> QED
      BY <1>5, <3>1, Zenon
  <2>2. g[c].names = h[c].names
    BY <1>2, <1>5 DEF BlockSet
  <2> QED
    BY <2>1, <2>2
<1>7. \A j \in DOMAIN h[c].items : Named(g[c], j) = Named(h[c], j)
  BY <1>6 DEF Named
<1>8. /\ e \in Entries(h, c) /\ f \in Entries(g, c)
      /\ e \notin Entries(g, c) /\ f \notin Entries(h, c)
  <2>1. e \in Entries(h, c)
    BY DEF Entries
  <2>2. f \in Entries(g, c)
    BY <1>6, <1>7 DEF Entries
  <2>3. \A j \in DOMAIN h[c].items : g[c].items[j] # x
    BY <1>1, <1>3, <1>6 DEF OnePlace
  <2>4. e \notin Entries(g, c)
    BY <1>6, <2>3 DEF Entries
  <2>5. \A j \in DOMAIN h[c].items : h[c].items[j] # v
    BY <1>1 DEF Rooted
  <2>6. f \notin Entries(h, c)
    BY <2>5 DEF Entries
  <2> QED
    BY <2>1, <2>2, <2>4, <2>6
<1>9. \A d \in Entries(h, c) : d = e \/ d \in Entries(g, c)
  <2> TAKE d \in Entries(h, c)
  <2>1. PICK j \in DOMAIN h[c].items : d = << Named(h[c], j), h[c].items[j] >>
    BY DEF Entries
  <2>2. CASE j = i
    BY <2>1, <2>2
  <2>3. CASE j # i
    <3>1. d = << Named(g[c], j), g[c].items[j] >>
      BY <1>6, <1>7, <2>1, <2>3
    <3> QED
      BY <1>6, <3>1 DEF Entries
  <2> QED
    BY <2>2, <2>3
<1>10. \A d \in Entries(g, c) : d = f \/ (d \in Entries(h, c) /\ (d[1] # n \/ n = None))
  <2> TAKE d \in Entries(g, c)
  <2>1. PICK j \in DOMAIN h[c].items : d = << Named(g[c], j), g[c].items[j] >>
    BY <1>6 DEF Entries
  <2>2. CASE j = i
    BY <1>6, <1>7, <2>1, <2>2
  <2>3. CASE j # i
    <3>1. d = << Named(h[c], j), h[c].items[j] >>
      BY <1>6, <1>7, <2>1, <2>3
    <3>2. d \in Entries(h, c) /\ d[1] = Named(h[c], j)
      BY <3>1 DEF Entries
    <3>3. Named(h[c], j) # n \/ n = None
      BY <1>1, <2>3, OtherNames
    <3> QED
      BY <3>2, <3>3
  <2> QED
    BY <2>2, <2>3
<1> HIDE DEF e, f, n, x
<1>11. in = Entries(g, c) \ Entries(h, c)
  BY <1>8, <1>10
<1>12. out = Entries(h, c) \ Entries(g, c)
  BY <1>8, <1>9
<1>13. OneComes(in, Entries(g, c)) /\ OneGoes(out, Entries(g, c))
  BY <1>1, <1>8, <1>10 DEF OneComes, OneGoes
<1>14. Came(h, out) = Within(h, x)
  BY <1>1, <1>3, CameOne DEF e
<1>15. \A w \in Values : (w \notin Came(h, out) /\ w # c) => Entries(g, w) = Entries(h, w)
  BY <1>5, <1>14 DEF Entries
<1>16. T \in SUBSET S /\ \E u \in S : T = S \ {u} /\ \E m : in = {<< m, u >>}
  <2>1. in = {<< n, v >>}
    BY DEF f
  <2> QED
    BY <2>1, Zenon
<1> HIDE DEF in, out, T
<1>17. Changes(h, S, g, T, c, out, in)
  <2>1. c \in Below(h, T)
    BY DEF T
  <2> QED
    BY <1>4, <1>11, <1>12, <1>13, <1>15, <1>16, <2>1, HeapChanges
<1> QED
  BY <1>17 DEF in, out, T, e, f, n, x

(* The last entry takes the place of the one that is removed. *)
LEMMA EntriesRemoved ==
  ASSUME NEW h, GoodHeap(h), NEW c \in Values, NEW i \in DOMAIN h[c].items, NEW g,
         g[c].type = h[c].type, g[c].items = Swapped(h[c].items, i),
         h[c].type = "object" => g[c].names = Swapped(h[c].names, i)
  PROVE  Entries(g, c) = Entries(h, c) \ {<< Named(h[c], i), h[c].items[i] >>}
<1> DEFINE s == h[c].items
           t == g[c].items
           k == Len(s)
           e == << Named(h[c], i), s[i] >>
<1>1. /\ s \in Seq(Values) /\ h[c].names \in Seq(Names) /\ k \in Nat /\ DOMAIN s = 1..k
      /\ h[c].type = "object" => Len(h[c].names) = k
      /\ OnePlace(h)
  <2>1. h[c] \in BlockSet /\ Sound(h[c]) /\ OnePlace(h)
    BY DEF GoodHeap, Typed
  <2>2. s \in Seq(Values) /\ h[c].names \in Seq(Names)
    BY <2>1 DEF BlockSet
  <2> QED
    BY <2>1, <2>2 DEF Sound
<1> HIDE DEF s, t
<1>2. i \in DOMAIN s /\ t = Swapped(s, i) /\ s = h[c].items /\ t = g[c].items
  BY DEF s, t
<1>3. Without(t, s, i) /\ t \in Seq(Values)
  BY <1>1, <1>2, SwappedSeq
<1>4. DOMAIN t = 1 .. k - 1
  BY <1>1, <1>3 DEF Without
<1>5. \A j \in DOMAIN t : From(s, i, j) = IF j = i THEN k ELSE j
  BY DEF From
<1>6. \A j \in DOMAIN t : Named(g[c], j) = Named(h[c], From(s, i, j))
  <2>1. CASE h[c].type = "object"
    <3> DEFINE p == h[c].names
               q == g[c].names
    <3>1. p \in Seq(Names) /\ i \in DOMAIN p /\ q = Swapped(p, i) /\ Len(p) = k
      BY <1>1, <1>2, <2>1
    <3> HIDE DEF p, q
    <3>2. Without(q, p, i) /\ q \in Seq(Names)
      BY <3>1, SwappedSeq
    <3>3. DOMAIN q = DOMAIN t
      BY <1>1, <1>4, <3>1, <3>2 DEF Without
    <3>4. \A j \in DOMAIN q : q[j] = p[From(p, i, j)] /\ From(p, i, j) = From(s, i, j)
      BY <3>1, <3>2 DEF Without, From
    <3> QED
      BY <2>1, <3>3, <3>4 DEF Named, p, q
  <2>2. CASE h[c].type # "object"
    BY <2>2 DEF Named
  <2> QED
    BY <2>1, <2>2
<1> DEFINE entry(j) == << Named(h[c], j), s[j] >>
<1>7. Entries(g, c) = {entry(From(s, i, j)) : j \in DOMAIN t}
  <2>1. \A j \in DOMAIN t : << Named(g[c], j), t[j] >> = entry(From(s, i, j))
    BY <1>3, <1>6 DEF Without
  <2> QED
    BY <2>1 DEF Entries, t
<1>8. Entries(h, c) = {entry(j) : j \in DOMAIN s}
  BY DEF Entries, s
<1>9. \A j \in DOMAIN s : j # i => entry(j) # e
  BY <1>1, <1>2 DEF OnePlace
<1>10. e = entry(i)
  OBVIOUS
<1> HIDE DEF entry, e
<1>11. \A d \in Entries(g, c) : d \in Entries(h, c) \ {e}
  BY <1>3, <1>7, <1>8, <1>9 DEF Without
<1>12. \A d \in Entries(h, c) \ {e} : d \in Entries(g, c)
  <2> TAKE d \in Entries(h, c) \ {e}
  <2>1. PICK j \in DOMAIN s : d = entry(j)
    BY <1>8
  <2>2. j # i
    BY <1>10, <2>1
  <2>3. CASE j = k
    <3>1. i \in DOMAIN t /\ From(s, i, i) = j
      BY <1>1, <1>2, <1>4, <1>5, <2>2, <2>3
    <3> QED
      BY <1>7, <2>1, <3>1
  <2>4. CASE j # k
    <3>1. j \in DOMAIN t
      BY <1>1, <1>4, <2>4
    <3>2. From(s, i, j) = j
      BY <1>5, <2>2, <3>1
    <3> QED
      BY <1>7, <2>1, <3>1, <3>2
  <2> QED
    BY <2>3, <2>4
<1>13. Entries(g, c) = Entries(h, c) \ {e}
  BY <1>11, <1>12
<1> QED
  BY <1>13 DEF e, s

(* A removed entry is one entry out.                                       *)
LEMMA RemovedChanges ==
  ASSUME NEW h, GoodHeap(h), NEW S, Rooted(h, S), NEW c \in Below(h, S),
         h[c].type \in {"object", "array"}, NEW i \in DOMAIN h[c].items
  PROVE  Changes(h, S, Removed(h, c, i), S, c, {<< Named(h[c], i), h[c].items[i] >>}, {})
<1> DEFINE x == h[c].items[i]
           e == << Named(h[c], i), x >>
           f == json_value_free(h, x)
           its == Swapped(h[c].items, i)
           ns == IF h[c].type = "object" THEN Swapped(h[c].names, i) ELSE << >>
           g == Removed(h, c, i)
           out == {e}
           in == {}
<1>1. /\ c \in Values /\ Typed(h) /\ h \in [Values -> BlockSet]
      /\ e[2] = x /\ S \in SUBSET S
  BY DEF GoodHeap, Typed, Below
<1>2. h[c] \in BlockSet /\ x \in Values
  BY <1>1 DEF BlockSet
<1>3. c \notin Within(h, x)
  BY NotInsideItself
<1>4. g \in [Values -> BlockSet]
  BY <1>1, <1>3, EntryRemoved DEF GoodHeap, Typed
<1>5. /\ \A w \in Values : f[w] = IF w \in Within(h, x) THEN Free ELSE h[w]
      /\ f \in [Values -> BlockSet]
  BY <1>1, <1>2, Freed DEF Typed
<1>6. g = [f EXCEPT ![c].items = its, ![c].names = ns]
  BY DEF Removed
<1> HIDE DEF f, its, ns, g
<1>7. g[c] = [[f[c] EXCEPT !.items = its] EXCEPT !.names = ns] /\ \A w \in Values : w # c => g[w] = f[w]
  BY <1>1, <1>5, <1>6
<1>8. f[c] = h[c]
  BY <1>1, <1>3, <1>5
<1>9. g[c] = Block(h[c].type, ns, its, h[c].capacity)
  <2>1. [[h[c] EXCEPT !.items = its] EXCEPT !.names = ns] = Block(h[c].type, ns, its, h[c].capacity)
    BY <1>2, Rewritten
  <2> QED
    BY <1>7, <1>8, <2>1
<1>10. g[c].type = h[c].type /\ g[c].items = its /\ g[c].names = ns
  BY <1>9 DEF Block
<1>11. Entries(g, c) = Entries(h, c) \ {e}
  BY <1>1, <1>10, EntriesRemoved DEF its, ns
<1>12. e \in Entries(h, c)
  BY DEF Entries
<1> HIDE DEF e, x
<1>13. Came(h, out) = Within(h, x)
  BY <1>1, <1>2, CameOne DEF e
<1>14. \A w \in Values : (w \notin Came(h, out) /\ w # c) => Entries(g, w) = Entries(h, w)
  BY <1>5, <1>7, <1>13 DEF Entries
<1>15. out = Entries(h, c) \ Entries(g, c) /\ in = Entries(g, c) \ Entries(h, c)
  BY <1>11, <1>12
<1>16. OneGoes(out, Entries(g, c)) /\ OneComes(in, Entries(g, c))
  BY DEF OneGoes, OneComes
<1>17. S = S /\ in = {}
  OBVIOUS
<1> HIDE DEF out, in
<1>18. Changes(h, S, g, S, c, out, in)
  BY <1>1, <1>4, <1>14, <1>15, <1>16, <1>17, HeapChanges
<1> QED
  BY <1>18 DEF out, in, e, x, g

(* A cleared container has all its entries out.                            *)
LEMMA ClearedChanges ==
  ASSUME NEW h, GoodHeap(h), NEW S, Rooted(h, S), NEW c \in Below(h, S),
         h[c].type \in {"object", "array"}
  PROVE  Changes(h, S, Cleared(h, c), S, c, Entries(h, c), {})
<1> DEFINE g == Cleared(h, c)
           out == Entries(h, c)
           in == {}
           W == Came(h, out)
           Z == W \cup {c}
<1>1. /\ c \in Values /\ Typed(h) /\ h \in [Values -> BlockSet] /\ S \in SUBSET S
      /\ out \in SUBSET Entries(h, c)
  BY DEF GoodHeap, Typed, Below
<1>2. g \in [Values -> BlockSet]
  BY <1>1, ContainerCleared DEF GoodHeap, Typed
<1>3. \A w \in Values : g[w] = IF w = c THEN [h[c] EXCEPT !.names = << >>, !.items = << >>]
                               ELSE IF w \in Within(h, c) THEN Free ELSE h[w]
  BY DEF Cleared
<1>4. Entries(g, c) = {}
  <2>1. h[c] \in BlockSet
    BY <1>1
  <2>2. g[c] = [h[c] EXCEPT !.names = << >>, !.items = << >>]
    BY <1>1, <1>3
  <2>3. g[c].items = << >>
    BY <2>1, <2>2 DEF BlockSet
  <2>4. DOMAIN g[c].items = {}
    BY <2>3
  <2> HIDE DEF g
  <2> QED
    BY <2>4 DEF Entries
<1>5. Within(h, c) \subseteq Z
  <2>1. \A w \in Values : w \in W => Items(h, w) \subseteq W
    BY <1>1, GoneIsApart DEF GoneApart
  <2>2. Items(h, c) \subseteq W
    <3> SUFFICES ASSUME NEW x \in Items(h, c) PROVE x \in W
      OBVIOUS
    <3>1. PICK e \in Entries(h, c) : e[2] = x
      BY EntriesAreItems
    <3>2. x \in Values
      BY <1>1, EntriesAreValues
    <3>3. x \in Within(h, e[2])
      BY <1>1, <3>1, <3>2, WithinBelow
    <3> QED
      BY <3>2, <3>3 DEF Came
  <2>3. \A w \in Values : w \in Z => Items(h, w) \subseteq Z
    BY <2>1, <2>2
  <2>4. c \in Z
    OBVIOUS
  <2> HIDE DEF Z
  <2> QED
    BY <1>1, <2>3, <2>4, WithinIsLeast
<1> HIDE DEF g
<1>6. \A w \in Values : (w \notin Came(h, out) /\ w # c) => Entries(g, w) = Entries(h, w)
  BY <1>3, <1>5 DEF Entries
<1>7. out = Entries(h, c) \ Entries(g, c) /\ in = Entries(g, c) \ Entries(h, c)
  BY <1>4
<1>8. OneGoes(out, Entries(g, c)) /\ OneComes(in, Entries(g, c))
  BY <1>4 DEF OneGoes, OneComes
<1>9. S = S /\ in = {}
  OBVIOUS
<1> HIDE DEF out, in
<1>10. Changes(h, S, g, S, c, out, in)
  BY <1>1, <1>2, <1>6, <1>7, <1>8, <1>9, HeapChanges
<1> QED
  BY <1>10 DEF out, in, g

-----------------------------------------------------------------------------
(* A value is added to a container, set in it or put in place of another:  *)
(* refused, it leaves all blocks as they were but for a capacity.          *)
PutsIn(h, S, r, v, c) ==
  \/ r.ok = FALSE /\ r.heap \in [Values -> BlockSet] /\ SameBlocks(h, r.heap)
  \/ /\ r.ok = TRUE
     /\ \E n, out : /\ Changes(h, S, r.heap, S \ {v}, c, out, {<< n, v >>})
                    /\ Items(h, c) = {} => out = {}

(* No entry goes out of an empty container.                                *)
LEMMA NothingGoes ==
  ASSUME NEW h, NEW S, NEW g, NEW T, NEW o, NEW out, NEW in, Changes(h, S, g, T, o, out, in),
         Items(h, o) = {}
  PROVE  out = {}
<1>1. \A e \in Entries(h, o) : e[2] \in Items(h, o)
  BY EntriesAreItems
<1>2. Entries(h, o) = {}
  BY <1>1
<1> QED
  BY <1>2 DEF Changes

(* json_object_add refuses, or puts one entry in.                          *)
LEMMA ObjectAddPutsIn ==
  ASSUME NEW h, GoodHeap(h), NEW S, Rooted(h, S), NEW v \in S, NEW o \in Below(h, S \ {v}),
         h[o].type = "object", NEW n \in Names, NEW mem \in Int
  PROVE  LET r == json_object_add(h, o, n, v, mem)
         IN  \/ Refuses(r, h)
             \/ r.ok = TRUE /\ Changes(h, S, r.heap, S \ {v}, o, {}, {<< n, v >>})
<1> DEFINE r == json_object_add(h, o, n, v, mem)
<1>1. Typed(h) /\ o \in Values /\ v \in Values
  BY DEF GoodHeap, Below, Rooted
<1>2. \/ Refuses(r, h)
      \/ /\ Adds(r, h, o, v)
         /\ Place(h, o, n) = 0
         /\ r.heap[o].names = Append(h[o].names, n)
  BY <1>1, ObjectAddsOrRefuses
<1> HIDE DEF r
<1>3. CASE /\ Adds(r, h, o, v)
           /\ Place(h, o, n) = 0
           /\ r.heap[o].names = Append(h[o].names, n)
  <2> DEFINE g == r.heap
  <2>1. /\ g = [h EXCEPT ![o] = g[o]] /\ g[o] \in BlockSet
        /\ g[o].type = h[o].type /\ g[o].items = Append(h[o].items, v)
        /\ g[o].names = Append(h[o].names, n)
    BY <1>3 DEF Adds
  <2> HIDE DEF g
  <2>2. g \in [Values -> BlockSet] /\ \A w \in Values : w # o => g[w] = h[w]
    BY <1>1, <2>1 DEF Typed
  <2>3. Entries(g, o) = Entries(h, o) \cup {<< n, v >>}
    <3>1. /\ g[o].type = h[o].type /\ g[o].items = Append(h[o].items, v)
          /\ h[o].type = "object" => n \in Names /\ g[o].names = Append(h[o].names, n)
          /\ h[o].type # "object" => n = None
      BY <2>1
    <3> QED
      BY <1>1, <3>1, EntriesAppended, SMTT(60)
  <2>4. \A e \in Entries(h, o) : e[1] # n
    <3>1. h[o] \in BlockSet /\ Sound(h[o])
      BY <1>1 DEF Typed
    <3>2. DOMAIN h[o].names = DOMAIN h[o].items /\ \A i \in DOMAIN h[o].names : h[o].names[i] # n
      BY <1>3, <3>1, PlaceOfName
    <3> QED
      BY <3>2 DEF Entries, Named
  <2>5. Changes(h, S, g, S \ {v}, o, {}, {<< n, v >>})
    BY <2>2, <2>3, <2>4, AddedChanges
  <2> QED
    BY <1>3, <2>5 DEF Adds, g, r
<1> QED
  BY <1>2, <1>3 DEF r

(* A refused call leaves the blocks, but for capacities.                   *)
LEMMA RefusesLeaves ==
  ASSUME NEW r, NEW h, Refuses(r, h)
  PROVE  r.ok = FALSE /\ r.heap \in [Values -> BlockSet] /\ SameBlocks(h, r.heap)
BY DEF Refuses, SameBlocks

(* What replaces an entry has been put in.                                 *)
LEMMA ReplacedPutsIn ==
  ASSUME NEW h, GoodHeap(h), NEW S, Rooted(h, S), NEW v \in S, NEW c \in Below(h, S \ {v}),
         NEW i \in DOMAIN h[c].items,
         NEW r, r.ok = TRUE,
         r.heap = [json_value_free(h, h[c].items[i]) EXCEPT ![c].items[i] = v]
  PROVE  PutsIn(h, S, r, v, c)
<1> DEFINE n == Named(h[c], i)
           out == {<< n, h[c].items[i] >>}
<1>1. Changes(h, S, r.heap, S \ {v}, c, out, {<< n, v >>})
  BY ReplacedChanges
<1> HIDE DEF n, out
<1>2. Items(h, c) = {} => out = {}
  BY <1>1, NothingGoes
<1> QED
  BY <1>1, <1>2 DEF PutsIn

(* json_object_set_value refuses, or puts one entry in.                    *)
LEMMA ObjectSetPutsIn ==
  ASSUME NEW h, GoodHeap(h), NEW S, Rooted(h, S), NEW v \in S, NEW o \in Below(h, S \ {v}),
         h[o].type = "object", NEW n \in Names, NEW mem \in Int
  PROVE  PutsIn(h, S, json_object_set_value(h, o, n, v, mem), v, o)
<1> DEFINE r == json_object_set_value(h, o, n, v, mem)
           i == Place(h, o, n)
<1>1. o \in Values /\ h[o] \in BlockSet /\ Sound(h[o])
  BY DEF GoodHeap, Below, Typed
<1>2. CASE i = 0
  <2> DEFINE a == json_object_add(h, o, n, v, mem)
  <2>1. r = a
    BY <1>2 DEF json_object_set_value
  <2>2. \/ Refuses(a, h)
        \/ a.ok = TRUE /\ Changes(h, S, a.heap, S \ {v}, o, {}, {<< n, v >>})
    BY ObjectAddPutsIn
  <2> HIDE DEF a, r
  <2>3. CASE Refuses(a, h)
    BY <2>1, <2>3, RefusesLeaves DEF PutsIn, r
  <2>4. CASE a.ok = TRUE /\ Changes(h, S, a.heap, S \ {v}, o, {}, {<< n, v >>})
    <3>1. PutsIn(h, S, a, v, o)
      BY <2>4 DEF PutsIn
    <3> QED
      BY <2>1, <3>1 DEF r
  <2> QED
    BY <2>2, <2>3, <2>4
<1>3. CASE i # 0
  <2>1. i \in DOMAIN h[o].items
    BY <1>1, <1>3, PlaceOfName
  <2>2. r.ok = TRUE /\ r.heap = [json_value_free(h, h[o].items[i]) EXCEPT ![o].items[i] = v]
    BY <1>3 DEF json_object_set_value, Done
  <2> HIDE DEF r, i
  <2>3. PutsIn(h, S, r, v, o)
    BY <2>1, <2>2, ReplacedPutsIn
  <2> QED
    BY <2>3 DEF r
<1> QED
  BY <1>2, <1>3

(* json_array_add refuses, or puts one entry in.                           *)
LEMMA ArrayAddPutsIn ==
  ASSUME NEW h, GoodHeap(h), NEW S, Rooted(h, S), NEW v \in S, NEW a \in Below(h, S \ {v}),
         h[a].type = "array", NEW mem \in Int
  PROVE  PutsIn(h, S, json_array_add(h, a, v, mem), v, a)
<1> DEFINE r == json_array_add(h, a, v, mem)
           g == r.heap
<1>1. Typed(h) /\ a \in Values /\ v \in Values
  BY DEF GoodHeap, Below, Rooted
<1>2. Refuses(r, h) \/ Adds(r, h, a, v)
  BY <1>1, ArrayAddsOrRefuses
<1> HIDE DEF r
<1>3. CASE Adds(r, h, a, v)
  <2>1. /\ g = [h EXCEPT ![a] = g[a]] /\ g[a] \in BlockSet
        /\ g[a].type = h[a].type /\ g[a].items = Append(h[a].items, v)
    BY <1>3 DEF Adds
  <2> HIDE DEF g
  <2>2. g \in [Values -> BlockSet] /\ \A w \in Values : w # a => g[w] = h[w]
    BY <1>1, <2>1 DEF Typed
  <2>3. Entries(g, a) = Entries(h, a) \cup {<< None, v >>}
    <3>1. ASSUME NEW n, n = None PROVE Entries(g, a) = Entries(h, a) \cup {<< n, v >>}
      <4>1. /\ h[a].type = "object" => n \in Names /\ g[a].names = Append(h[a].names, n)
            /\ h[a].type # "object" => n = None
        BY <3>1
      <4> QED
        BY <1>1, <2>1, <4>1, EntriesAppended
    <3> QED
      BY <3>1
  <2>4. Changes(h, S, g, S \ {v}, a, {}, {<< None, v >>})
    BY <2>2, <2>3, AddedChanges
  <2>5. r.ok = TRUE
    BY <1>3 DEF Adds
  <2> QED
    BY <2>4, <2>5 DEF PutsIn, g, r
<1>4. CASE Refuses(r, h)
  BY <1>4, RefusesLeaves DEF PutsIn, r
<1> QED
  BY <1>2, <1>3, <1>4

-----------------------------------------------------------------------------
(* One step along a dotted name, and all of them.                          *)
Steps(s, t, S) ==
  \/ t.heap = s.heap /\ (t.ok => s.ok /\ t.object \in Items(s.heap, s.object))
  \/ t.ok = FALSE /\ SameBlocks(s.heap, t.heap)
  \/ /\ s.ok /\ t.ok /\ Items(t.heap, t.object) = {}
     /\ \E n : Changes(s.heap, S, t.heap, S, s.object, {}, {<< n, t.object >>})

(* A block that was made and not taken is as free as it was. *)
LEMMA GivenBack ==
  ASSUME NEW h, GoodHeap(h), NEW S, Rooted(h, S), Unused(h) # {},
         NEW b \in BlockSet, Sound(b), b.type # "free", b.items = << >>,
         NEW g, Typed(g), SameBlocks([h EXCEPT ![malloc(h)] = b], g)
  PROVE  SameBlocks(h, json_value_free(g, malloc(h)))
<1> DEFINE new == malloc(h)
           f == [h EXCEPT ![new] = b]
           k == json_value_free(g, new)
<1>1. /\ new \in Values
      /\ GoodHeap(f)
      /\ \A d \in Values : f[d] = IF d = new THEN b ELSE h[d]
  BY FreshBlock
<1>2. h[new].type = "free"
  BY DEF malloc, Unused
<1>3. Fresh(h, S, f, new)
  BY FreshIs
<1> HIDE DEF new, f
<1>4. h[new] = Free
  BY <1>1, <1>2 DEF GoodHeap, Typed, Sound
<1>5. f \in [Values -> BlockSet] /\ g \in [Values -> BlockSet] /\ SameBlocks(f, g)
  BY <1>1 DEF GoodHeap, Typed, f, new
<1>6. Within(g, new) = {new}
  BY <1>1, <1>3, <1>5, SameBlocksShow DEF Fresh
<1>7. \A w \in Values : k[w] = IF w = new THEN Free ELSE g[w]
  BY <1>1, <1>6, Freed
<1> HIDE DEF k
<1>8. \A w \in Values : h[w].items = k[w].items /\ h[w].names = k[w].names /\ h[w].type = k[w].type
  <2> TAKE w \in Values
  <2>1. CASE w = new
    BY <1>1, <1>4, <1>7, <2>1
  <2>2. CASE w # new
    BY <1>1, <1>5, <1>7, <2>2 DEF SameBlocks
  <2> QED
    BY <2>1, <2>2
<1> QED
  BY <1>8 DEF SameBlocks, k, new

(* A step along a dotted name finds an object, makes one, or ends the way. *)
LEMMA StepIs ==
  ASSUME NEW s, NEW S, OnTheWay(s, S), s.ok => s.object \in Below(s.heap, S),
         NEW n \in Names, NEW mem \in Int
  PROVE  Steps(s, Into(s, n, mem), S)
<1> DEFINE h == s.heap
           o == s.object
           t == Into(s, n, mem)
           found == json_value_get(h, json_object_get_value(h, o, n), "object")
<1>1. /\ s = [heap |-> h, object |-> o, ok |-> s.ok] /\ s.ok \in BOOLEAN
      /\ GoodHeap(h) /\ Rooted(h, S) /\ Typed(h)
      /\ s.ok => o \in Values /\ h[o].type = "object" /\ o \in Below(h, S)
  BY DEF OnTheWay, GoodHeap
<1>2. CASE ~ s.ok
  <2>1. t = s
    BY <1>2 DEF Into
  <2> QED
    BY <1>2, <2>1 DEF Steps
<1>3. CASE s.ok /\ found # None
  <2>1. t = [s EXCEPT !.object = found]
    BY <1>3 DEF Into
  <2>2. t.heap = h /\ t.object = found
    BY <1>1, <2>1
  <2>3. found \in Items(h, o)
    BY <1>1, <1>3, LookUp
  <2> HIDE DEF t, found
  <2> QED
    BY <1>3, <2>2, <2>3 DEF Steps, t
<1>4. CASE s.ok /\ found = None /\ Unused(h) = {}
  <2>1. t = [s EXCEPT !.ok = FALSE]
    BY <1>4 DEF Into
  <2>2. t.heap = h /\ t.ok = FALSE
    BY <1>1, <2>1
  <2> HIDE DEF t
  <2> QED
    BY <2>2 DEF Steps, t
<1>5. CASE s.ok /\ found = None /\ Unused(h) # {}
  <2> DEFINE new == malloc(h)
             b == Block("object", << >>, << >>, 0)
             f == [h EXCEPT ![new] = b]
             r == json_object_add(f, o, n, new, mem)
             P == S \cup {new}
  <2>1. t = IF r.ok THEN [heap |-> r.heap, object |-> new, ok |-> TRUE]
            ELSE [s EXCEPT !.heap = json_value_free(r.heap, new), !.ok = FALSE]
    BY <1>5 DEF Into
  <2>2. b \in BlockSet /\ Sound(b) /\ b.type = "object" /\ b.items = << >>
    BY EmptyBlocks
  <2> HIDE DEF b
  <2>3. Fresh(h, S, f, new)
    BY <1>1, <1>5, <2>2, FreshIs
  <2>4. /\ new \in Values /\ new \notin S /\ new \notin Below(h, S)
        /\ GoodHeap(f) /\ Rooted(f, P) /\ Items(f, new) = {}
        /\ Below(f, P) = Below(h, S) \cup {new}
        /\ Below(f, S) = Below(h, S)
        /\ \A w \in Below(h, S) : f[w] = h[w]
    BY <2>3 DEF Fresh
  <2>5. o \in Below(f, P \ {new}) /\ o # new /\ f[o].type = "object" /\ new \in P /\ P \ {new} = S
    <3>1. P \ {new} = S
      BY <2>4
    <3> QED
      BY <1>1, <1>5, <2>4, <3>1
  <2> HIDE DEF f, P, new
  <2>6. Refuses(r, f) \/ (r.ok = TRUE /\ Changes(f, P, r.heap, P \ {new}, o, {}, {<< n, new >>}))
    BY <2>4, <2>5, ObjectAddPutsIn
  <2>7. Takes(r, P, new)
    BY <2>4, <2>5, ObjectAdds DEF Below
  <2> HIDE DEF r, t
  <2>8. CASE Refuses(r, f)
    <3>1. r.ok = FALSE /\ SameBlocks(f, r.heap) /\ Typed(r.heap)
      BY <2>7, <2>8, RefusesLeaves DEF Takes, GoodHeap
    <3>2. SameBlocks([h EXCEPT ![malloc(h)] = b], r.heap)
      BY <3>1 DEF f, new
    <3>3. SameBlocks(h, json_value_free(r.heap, malloc(h)))
      BY <1>1, <1>5, <2>2, <3>1, <3>2, GivenBack
    <3>4. t.heap = json_value_free(r.heap, new) /\ t.ok = FALSE
      BY <1>1, <2>1, <3>1
    <3> QED
      BY <3>3, <3>4 DEF Steps, t, new
  <2>9. CASE r.ok = TRUE /\ Changes(f, P, r.heap, P \ {new}, o, {}, {<< n, new >>})
    <3> DEFINE g == r.heap
               in == {<< n, new >>}
               none == {}
    <3>1. t.heap = g /\ t.object = new /\ t.ok = TRUE
      BY <2>1, <2>9
    <3>2. g \in [Values -> BlockSet]
      BY <2>7 DEF Takes, GoodHeap, Typed
    <3>3. Changes(f, P, g, S, o, none, in)
      BY <2>5, <2>9
    <3> HIDE DEF g
    <3>4. new \in Came(g, in)
      <4>1. Came(g, in) = Within(g, new)
        BY <2>4, <3>2, CameOne
      <4> QED
        BY <2>4, <3>2, <4>1, WithinBelow
    <3>5. Entries(g, new) = Entries(f, new)
      <4>1. Came(f, none) = {}
        BY DEF Came
      <4>2. new \in Below(f, P)
        BY <2>4
      <4> QED
        BY <2>5, <3>3, <4>1, <4>2 DEF Changes
    <3>6. Items(g, new) = {}
      BY <2>4, <3>5, SameEntries
    <3> HIDE DEF in, none
    <3>7. Changes(h, S, g, S, o, none, in)
      <4>1. h \in [Values -> BlockSet] /\ S \in SUBSET Values
        BY <1>1 DEF Typed, Rooted
      <4>2. Changes(f, S \cup {new}, g, S, o, none, in)
        BY <3>3 DEF P
      <4> QED
        BY <2>3, <2>5, <3>4, <4>1, <4>2, FreshChanges
    <3>8. \E m : Changes(h, S, g, S, o, {}, {<< m, new >>})
      BY <3>7 DEF in, none
    <3> QED
      BY <1>5, <3>1, <3>6, <3>8, Zenon DEF Steps, t
  <2> QED
    BY <2>6, <2>8, <2>9
<1> QED
  BY <1>1, <1>2, <1>3, <1>4, <1>5

(* What the steps so far have made: nothing, or objects one in another, in *)
(* an object that was there.                                               *)
Untouched(h, s) == SameBlocks(h, s.heap) /\ (s.ok => s.heap = h)

MadeOnTheWay(h, S, R, s) ==
  \E p \in Below(h, R) : \E n, x :
    /\ Changes(h, S, s.heap, S, p, {}, {<< n, x >>})
    /\ s.ok => s.object \in Within(s.heap, x) /\ Items(s.heap, s.object) = {}

WalkedIn(h, S, R, s) ==
  /\ OnTheWay(s, S)
  /\ s.ok => s.object \in Below(s.heap, R)
  /\ Untouched(h, s) \/ MadeOnTheWay(h, S, R, s)

(* Two heaps alike to a third but for capacities are so to each other.     *)
LEMMA SameBlocksStay ==
  ASSUME NEW h, NEW g, NEW k, SameBlocks(h, g), SameBlocks(g, k)
  PROVE  SameBlocks(h, k)
BY DEF SameBlocks

(* Having changed nothing or one entry, a way does no more in a step.      *)
LEMMA StepOn ==
  ASSUME NEW h, GoodHeap(h), NEW S, Rooted(h, S), NEW R \in SUBSET S,
         NEW s, WalkedIn(h, S, R, s), NEW n \in Names, NEW mem \in Int
  PROVE  WalkedIn(h, S, R, Into(s, n, mem))
<1> DEFINE t == Into(s, n, mem)
<1>1. /\ OnTheWay(s, S) /\ (s.ok => s.object \in Below(s.heap, R))
      /\ Untouched(h, s) \/ MadeOnTheWay(h, S, R, s)
      /\ s.ok => s.object \in Below(s.heap, S)
  BY BelowMore DEF WalkedIn
<1>2. OnTheWay(t, S)
  BY <1>1, StepInto
<1>3. t.ok => t.object \in Below(t.heap, R)
  BY <1>1, StepKeeps
<1>4. Steps(s, t, S)
  BY <1>1, StepIs
<1> HIDE DEF t
<1>5. /\ GoodHeap(s.heap) /\ Rooted(s.heap, S) /\ GoodHeap(t.heap)
      /\ h \in [Values -> BlockSet] /\ s.heap \in [Values -> BlockSet]
      /\ t.heap \in [Values -> BlockSet] /\ S \in SUBSET Values
  BY <1>1, <1>2 DEF OnTheWay, GoodHeap, Typed, Rooted
<1>6. CASE t.heap = s.heap /\ (t.ok => s.ok /\ t.object \in Items(s.heap, s.object))
  <2>1. CASE Untouched(h, s)
    BY <1>2, <1>3, <1>6, <2>1 DEF Untouched, WalkedIn, t
  <2>2. CASE MadeOnTheWay(h, S, R, s)
    <3>1. MadeOnTheWay(h, S, R, t)
      BY <1>6, <2>2 DEF MadeOnTheWay
    <3> QED
      BY <1>2, <1>3, <3>1 DEF WalkedIn, t
  <2> QED
    BY <1>1, <2>1, <2>2
<1>7. CASE t.ok = FALSE /\ SameBlocks(s.heap, t.heap)
  <2>1. CASE Untouched(h, s)
    <3>1. Untouched(h, t)
      BY <1>7, <2>1, SameBlocksStay DEF Untouched
    <3> QED
      BY <1>2, <1>3, <3>1 DEF WalkedIn, t
  <2>2. CASE MadeOnTheWay(h, S, R, s)
    <3>1. PICK p \in Below(h, R) : \E m, x : Changes(h, S, s.heap, S, p, {}, {<< m, x >>})
      BY <2>2 DEF MadeOnTheWay
    <3>2. PICK m, x : Changes(h, S, s.heap, S, p, {}, {<< m, x >>})
      BY <3>1
    <3>3. Changes(h, S, t.heap, S, p, {}, {<< m, x >>})
      BY <1>5, <1>7, <3>2, ChangesStay
    <3>4. MadeOnTheWay(h, S, R, t)
      BY <1>7, <3>3 DEF MadeOnTheWay
    <3> QED
      BY <1>2, <1>3, <3>4 DEF WalkedIn, t
  <2> QED
    BY <1>1, <2>1, <2>2
<1>8. CASE /\ s.ok /\ t.ok /\ Items(t.heap, t.object) = {}
           /\ \E m : Changes(s.heap, S, t.heap, S, s.object, {}, {<< m, t.object >>})
  <2>1. PICK m : Changes(s.heap, S, t.heap, S, s.object, {}, {<< m, t.object >>})
    BY <1>8
  <2>2. t.object \in Values
    BY <1>2, <1>8 DEF OnTheWay
  <2>3. CASE Untouched(h, s)
    <3>1. s.heap = h
      BY <1>8, <2>3 DEF Untouched
    <3>2. t.object \in Within(t.heap, t.object)
      BY <1>5, <2>2, WithinBelow
    <3>3. s.object \in Below(h, R) /\ Changes(h, S, t.heap, S, s.object, {}, {<< m, t.object >>})
      BY <1>1, <1>8, <2>1, <3>1
    <3>4. MadeOnTheWay(h, S, R, t)
      BY <1>8, <3>2, <3>3 DEF MadeOnTheWay
    <3> QED
      BY <1>2, <1>3, <3>4 DEF WalkedIn, t
  <2>4. CASE MadeOnTheWay(h, S, R, s)
    <3>1. PICK p \in Below(h, R) : \E l, x :
            /\ Changes(h, S, s.heap, S, p, {}, {<< l, x >>})
            /\ s.ok => s.object \in Within(s.heap, x) /\ Items(s.heap, s.object) = {}
      BY <2>4 DEF MadeOnTheWay
    <3>2. PICK l, x :
            /\ Changes(h, S, s.heap, S, p, {}, {<< l, x >>})
            /\ s.ok => s.object \in Within(s.heap, x) /\ Items(s.heap, s.object) = {}
      BY <3>1
    <3>3. s.object \in Within(s.heap, x)
      BY <1>8, <3>2
    <3>4. \A r \in S \ S : p \notin Within(h, r)
      OBVIOUS
    <3>5. /\ Changes(h, S, t.heap, S, p, {}, {<< l, x >>})
          /\ t.object \in Within(t.heap, x)
      <4>1. Grows(h, S, s.heap, S, p, l, x) /\ Grows(s.heap, S, t.heap, S, s.object, m, t.object)
        BY <2>1, <3>2 DEF Grows
      <4>2. GrowsWith(h, S, t.heap, S, p, l, x, t.object)
        BY <1>5, <3>3, <3>4, <4>1, ChangesDeeper
      <4> QED
        BY <4>2 DEF GrowsWith, Grows
    <3>6. MadeOnTheWay(h, S, R, t)
      BY <1>8, <3>5 DEF MadeOnTheWay
    <3> QED
      BY <1>2, <1>3, <3>6 DEF WalkedIn, t
  <2> QED
    BY <1>1, <2>3, <2>4
<1> QED
  BY <1>4, <1>6, <1>7, <1>8 DEF Steps

(* So a way of any length changes nothing or one entry.                    *)
LEMMA WalkOn ==
  ASSUME NEW h, GoodHeap(h), NEW S, Rooted(h, S), NEW R \in SUBSET S,
         NEW o \in Below(h, R), h[o].type = "object",
         NEW path \in Paths, NEW mem \in Int
  PROVE  WalkedIn(h, S, R, Walks(h, o, path, mem)[Len(path) - 1])
<1> DEFINE at == Walks(h, o, path, mem)
           T == {k \in Nat : k < Len(path) => WalkedIn(h, S, R, at[k])}
<1>1. path \in Seq(Names) /\ Len(path) \in Nat /\ Len(path) - 1 \in Nat
  BY PathHasNames
<1>2. 0 \in T
  <2>1. at[0] = [heap |-> h, object |-> o, ok |-> TRUE]
    BY WalksStart
  <2> HIDE DEF at
  <2>2. at[0].heap = h /\ at[0].object = o /\ at[0].ok = TRUE
    BY <2>1
  <2>3. OnTheWay(at[0], S)
    BY <2>1, <2>2 DEF OnTheWay, Below
  <2>4. Untouched(h, at[0])
    BY <2>2 DEF Untouched, SameBlocks
  <2> QED
    BY <2>2, <2>3, <2>4 DEF WalkedIn
<1>3. ASSUME NEW k \in Nat, k \in T PROVE k + 1 \in T
  <2> SUFFICES ASSUME k + 1 < Len(path) PROVE WalkedIn(h, S, R, at[k + 1])
    BY <1>1
  <2>1. k < Len(path) /\ path[k + 1] \in Names
    BY <1>1
  <2>2. WalkedIn(h, S, R, at[k])
    BY <2>1, <1>3
  <2>3. at[k + 1] = Into(at[k], path[k + 1], mem - 2 * k)
    BY WalksStep, Zenon
  <2> HIDE DEF at
  <2>4. WalkedIn(h, S, R, Into(at[k], path[k + 1], mem - 2 * k))
    BY <2>1, <2>2, StepOn
  <2> QED
    BY <2>3, <2>4
<1> HIDE DEF T
<1>4. Nat \subseteq T
  BY <1>2, <1>3, Induct
<1>5. Len(path) - 1 \in T
  BY <1>1, <1>4
<1> QED
  BY <1>1, <1>5 DEF T

(* A value that is given or made is taken, by itself or in objects made on *)
(* the way; or refused, with or without objects made on the way.           *)
SetsIn(h, S, r, v) ==
  \/ r.ok = FALSE /\ r.heap \in [Values -> BlockSet] /\ SameBlocks(h, r.heap)
  \/ /\ r.ok = FALSE
     /\ \E p \in Below(h, S \ {v}) : \E n, x : Changes(h, S, r.heap, S, p, {}, {<< n, x >>})
  \/ /\ r.ok = TRUE
     /\ \E p \in Below(h, S \ {v}) : \E n, x, out :
          /\ Changes(h, S, r.heap, S \ {v}, p, out, {<< n, x >>})
          /\ v \in Came(r.heap, {<< n, x >>})

(* To put a value in a container is to set it.                             *)
LEMMA PutsInSets ==
  ASSUME NEW h, NEW S, NEW v \in Values, NEW c \in Below(h, S \ {v}),
         NEW r, r.heap \in [Values -> BlockSet], PutsIn(h, S, r, v, c)
  PROVE  SetsIn(h, S, r, v)
<1>1. CASE r.ok = FALSE
  BY <1>1 DEF PutsIn, SetsIn
<1>2. CASE r.ok = TRUE
  <2>1. PICK n, out : Changes(h, S, r.heap, S \ {v}, c, out, {<< n, v >>})
    BY <1>2 DEF PutsIn
  <2>2. v \in Within(r.heap, v)
    BY WithinBelow
  <2>3. v \in Came(r.heap, {<< n, v >>})
    BY <2>2, CameOne
  <2> QED
    BY <1>2, <2>1, <2>3 DEF SetsIn
<1> QED
  BY <1>1, <1>2 DEF PutsIn

(* json_object_dotset_value sets, or refuses with objects made or none.    *)
LEMMA DotSetsIn ==
  ASSUME NEW h, GoodHeap(h), NEW S, Rooted(h, S), NEW v \in S,
         NEW o \in Below(h, S \ {v}), h[o].type = "object", NEW path \in Paths, NEW mem \in Int
  PROVE  SetsIn(h, S, json_object_dotset_value(h, o, path, v, mem), v)
<1> DEFINE R == S \ {v}
           s == Walks(h, o, path, mem)[Len(path) - 1]
           r == json_object_dotset_value(h, o, path, v, mem)
           q == json_object_set_value(s.heap, s.object, Last(path), v, Left(path, mem))
<1>1. r = IF s.ok THEN q ELSE Fails(s.heap)
  BY DEF json_object_dotset_value
<1>2. R \in SUBSET S /\ o \in Below(h, R)
  OBVIOUS
<1> HIDE DEF R
<1>3. WalkedIn(h, S, R, s)
  BY <1>2, WalkOn
<1>4. Last(path) \in Names /\ Left(path, mem) \in Int
  BY PathHasNames DEF Left
<1> HIDE DEF s, r
<1>5. /\ OnTheWay(s, S) /\ (s.ok => s.object \in Below(s.heap, S \ {v}))
      /\ Untouched(h, s) \/ MadeOnTheWay(h, S, R, s)
      /\ GoodHeap(s.heap) /\ Rooted(s.heap, S) /\ s.heap \in [Values -> BlockSet]
      /\ h \in [Values -> BlockSet] /\ S \in SUBSET Values /\ v \in Values
      /\ s.ok \in BOOLEAN
  BY <1>3 DEF WalkedIn, OnTheWay, R, GoodHeap, Typed, Rooted
<1>6. CASE ~ s.ok
  <2>1. r.ok = FALSE /\ r.heap = s.heap
    BY <1>1, <1>6 DEF Fails
  <2>2. CASE Untouched(h, s)
    BY <1>5, <2>1, <2>2 DEF Untouched, SetsIn, r
  <2>3. CASE MadeOnTheWay(h, S, R, s)
    <3>1. \E p \in Below(h, S \ {v}) : \E n, x : Changes(h, S, r.heap, S, p, {}, {<< n, x >>})
      BY <2>1, <2>3 DEF MadeOnTheWay, R
    <3> QED
      BY <2>1, <3>1 DEF SetsIn, r
  <2> QED
    BY <1>5, <2>2, <2>3
<1>7. CASE s.ok
  <2>1. s.object \in Below(s.heap, S \ {v}) /\ s.object \in Values /\ s.heap[s.object].type = "object"
    BY <1>5, <1>7 DEF OnTheWay
  <2>2. PutsIn(s.heap, S, q, v, s.object)
    BY <1>4, <1>5, <2>1, ObjectSetPutsIn
  <2>3. Takes(q, S, v)
    BY <1>4, <1>5, <2>1, ObjectSets
  <2> HIDE DEF q
  <2>4. r = q /\ PutsIn(s.heap, S, r, v, s.object) /\ Takes(r, S, v)
    BY <1>1, <1>7, <2>2, <2>3
  <2>5. GoodHeap(r.heap) /\ r.heap \in [Values -> BlockSet]
    BY <2>4 DEF Takes, GoodHeap, Typed
  <2>6. CASE Untouched(h, s)
    <3>1. s.heap = h
      BY <1>7, <2>6 DEF Untouched
    <3>2. PutsIn(h, S, r, v, s.object) /\ s.object \in Below(h, S \ {v})
      BY <2>1, <2>4, <3>1
    <3>3. SetsIn(h, S, r, v)
      BY <1>5, <2>5, <3>2, PutsInSets
    <3> QED
      BY <3>3 DEF r
  <2>7. CASE MadeOnTheWay(h, S, R, s)
    <3>1. PICK p \in Below(h, R) : \E n, x :
            /\ Changes(h, S, s.heap, S, p, {}, {<< n, x >>})
            /\ s.ok => s.object \in Within(s.heap, x) /\ Items(s.heap, s.object) = {}
      BY <2>7 DEF MadeOnTheWay
    <3>2. PICK n, x :
            /\ Changes(h, S, s.heap, S, p, {}, {<< n, x >>})
            /\ s.ok => s.object \in Within(s.heap, x) /\ Items(s.heap, s.object) = {}
      BY <3>1
    <3>3. s.object \in Within(s.heap, x) /\ Items(s.heap, s.object) = {}
      BY <1>7, <3>2
    <3>4. p \in Below(h, S \ {v})
      BY DEF R
    <3>5. CASE r.ok = FALSE
      <4>1. SameBlocks(s.heap, r.heap)
        BY <2>4, <3>5 DEF PutsIn
      <4>2. Changes(h, S, r.heap, S, p, {}, {<< n, x >>})
        BY <1>5, <2>5, <3>2, <4>1, ChangesStay
      <4>3. SetsIn(h, S, r, v)
        BY <3>4, <3>5, <4>2 DEF SetsIn
      <4> QED
        BY <4>3 DEF r
    <3>6. CASE r.ok = TRUE
      <4> DEFINE T == S \ {v}
      <4>1. PICK m : Changes(s.heap, S, r.heap, T, s.object, {}, {<< m, v >>})
        BY <2>4, <3>3, <3>6 DEF PutsIn
      <4>2. \A d \in S \ T : p \notin Within(h, d)
        BY <3>4, Apart
      <4> HIDE DEF T
      <4>3. /\ Changes(h, S, r.heap, T, p, {}, {<< n, x >>})
            /\ v \in Within(r.heap, x) /\ x \in Values
        <5>1. Grows(h, S, s.heap, S, p, n, x) /\ Grows(s.heap, S, r.heap, T, s.object, m, v)
          BY <3>2, <4>1 DEF Grows
        <5>2. GrowsWith(h, S, r.heap, T, p, n, x, v)
          BY <1>5, <2>5, <3>3, <4>2, <5>1, ChangesDeeper
        <5> QED
          BY <5>2 DEF GrowsWith, Grows
      <4>4. v \in Came(r.heap, {<< n, x >>})
        BY <2>5, <4>3, CameOne
      <4>5. SetsIn(h, S, r, v)
        BY <3>4, <3>6, <4>3, <4>4 DEF SetsIn, T
      <4> QED
        BY <4>5 DEF r
    <3> QED
      BY <2>4, <3>5, <3>6 DEF PutsIn
  <2> QED
    BY <1>5, <2>6, <2>7
<1> QED
  BY <1>5, <1>6, <1>7

-----------------------------------------------------------------------------
(* The calls, each a step of the store or none.                            *)
Implemented == Store!Next \/ UNCHANGED Store!vars

(* Where a program's values have the entries they had, it sees no change. *)
LEMMA NothingSeen ==
  ASSUME OwnInv, OwnInv', held' = held,
         Below(heap', held) = Below(heap, held),
         \A w \in Below(heap, held) : Entries(heap', w) = Entries(heap, w)
  PROVE  Implemented
<1>1. View(heap', held') = View(heap, held)
  BY DEF View
<1>2. Contents' = Contents
  BY <1>1, ContentsAreView, NextContentsAreView
<1> QED
  BY <1>2 DEF Implemented, Store!vars

(* Where only capacities change, a program sees nothing.                   *)
LEMMA SameBlocksUnseen ==
  ASSUME OwnInv, OwnInv', held' = held, SameBlocks(heap, heap')
  PROVE  Implemented
<1>1. heap \in [Values -> BlockSet] /\ heap' \in [Values -> BlockSet] /\ held \in SUBSET Values
  BY DEF OwnInv, GoodHeap, Typed, Rooted
<1>2. /\ Below(heap', held) = Below(heap, held)
      /\ \A w \in Values : Entries(heap', w) = Entries(heap, w)
  BY <1>1, SameBlocksShow
<1>3. \A w \in Below(heap, held) : Entries(heap', w) = Entries(heap, w)
  BY <1>2 DEF Below
<1> QED
  BY <1>2, <1>3, NothingSeen

(* A change of the heap is a step of JsonStore.                            *)
LEMMA ChangeSeen ==
  ASSUME OwnInv, OwnInv', NEW o, NEW out, NEW in,
         Changes(heap, held, heap', held', o, out, in)
  PROVE  Implemented
BY ChangesAreChange DEF Implemented

(* New values, in blocks that were free, with one that has them all. *)
LEMMA TreeMade ==
  ASSUME OwnInv, OwnInv', NEW r \in Values, r \notin held, held' = held \cup {r},
         \A w \in Values : heap[w].type # "free" => heap'[w] = heap[w]
  PROVE  Implemented
<1> DEFINE c == View(heap, held)
           d == View(heap', held')
           A == Below(heap, held)
           B == Below(heap', held')
           W == Within(heap', r)
<1>1. /\ GoodHeap(heap) /\ Rooted(heap, held) /\ GoodHeap(heap') /\ Rooted(heap', held')
      /\ heap \in [Values -> BlockSet] /\ heap' \in [Values -> BlockSet]
      /\ held \in SUBSET Values /\ held' \ {r} = held /\ r \in held'
  BY DEF OwnInv, GoodHeap, Rooted, Typed, OnePlace, NoneFreed
<1>2. Store!There(c) = A /\ \A v \in A : c[v] = Entries(heap, v)
  BY <1>1, ViewIs
<1>3. Store!There(d) = B /\ \A v \in B : d[v] = Entries(heap', v) /\ Store!Tree(d, v) = Within(heap', v)
  BY <1>1, ViewIs
<1>4. \A w \in A : heap'[w] = heap[w]
  BY <1>1, BelowIsThere DEF Below
<1>5. \A w \in A : Entries(heap', w) = Entries(heap, w) /\ Items(heap', w) = Items(heap, w)
  BY <1>4 DEF Entries, Items
<1>6. Below(heap', held) = A
  BY <1>1, <1>5, SameBelow
<1>7. /\ B = Below(heap', held' \ {r}) \cup W
      /\ \A w \in Below(heap', held' \ {r}) : w \notin W
  BY <1>1, Apart
<1>8. B = A \cup W /\ W \cap A = {}
  BY <1>1, <1>6, <1>7
<1>9. r \in W
  BY <1>1, WithinBelow
<1>10. Contents = c /\ Contents' = d
  BY ContentsAreView, NextContentsAreView
<1> HIDE DEF c, d, A, B, W
<1>11. Store!Tree(d, r) = W
  BY <1>3, <1>8, <1>9 DEF W
<1>12. \A v \in A : d[v] = c[v]
  BY <1>2, <1>3, <1>5, <1>8
<1>13. Store!Same(c, d, A)
  BY <1>12 DEF Store!Same
<1>14. r \in Values \ Store!There(c)
  BY <1>2, <1>8, <1>9
<1>15. Store!Make(c, d)
  BY <1>2, <1>3, <1>8, <1>11, <1>13, <1>14 DEF Store!Make
<1> QED
  BY <1>10, <1>15, Zenon DEF Store!Next, Implemented

(* A value is made, or none is to be had.                                  *)
LEMMA InitIs ==
  ASSUME OwnInv, OwnInv', NEW type, json_value_init(Block(type, << >>, << >>, 0))
  PROVE  Implemented
<1> DEFINE new == malloc(heap)
<1>1. /\ Unused(heap) # {} /\ held' = held \cup {new}
      /\ heap' = [heap EXCEPT ![new] = Block(type, << >>, << >>, 0)]
  BY DEF json_value_init
<1>2. heap \in [Values -> BlockSet] /\ \A v \in held : heap[v].type # "free"
  BY DEF OwnInv, GoodHeap, Typed, Rooted
<1>3. new \in Values /\ heap[new].type = "free"
  BY <1>1 DEF malloc, Unused
<1> HIDE DEF new
<1>4. new \notin held /\ \A w \in Values : heap[w].type # "free" => heap'[w] = heap[w]
  BY <1>1, <1>2, <1>3
<1> QED
  BY <1>1, <1>3, <1>4, TreeMade

(* A copy is a tree made.                                                  *)
LEMMA CopyIs ==
  ASSUME OwnInv, OwnInv', NEW v \in Owned, json_value_deep_copy(v)
  PROVE  Implemented
<1> DEFINE W == Within(heap, v)
           to == Blocks(W)
<1>1. /\ heap \in [Values -> BlockSet] /\ v \in Values
      /\ \A s \in held : heap[s].type # "free"
  BY OwnedValues DEF GoodHeap, Typed, Rooted
<1>2. W \subseteq Values /\ v \in W
  BY <1>1, WithinBelow
<1>3. IsFiniteSet(W)
  BY <1>2, FS_Subset, TreeAssumption
<1>4. Room(Cardinality(W)) /\ heap' = Copied(heap, v, to) /\ held' = held \cup {to[v]}
  BY DEF json_value_deep_copy
<1>5. to \in [W -> Unused(heap)]
  BY <1>3, <1>4, BlocksFound
<1> HIDE DEF to, W
<1>6. \A w \in W : to[w] \in Values /\ heap[to[w]].type = "free"
  BY <1>5 DEF Unused
<1>7. \A w \in Values : heap[w].type # "free" => Copied(heap, v, to)[w] = heap[w]
  BY <1>6 DEF Copied, W
<1>8. to[v] \in Values /\ to[v] \notin held
  BY <1>1, <1>2, <1>6
<1> QED
  BY <1>4, <1>7, <1>8, TreeMade

(* A parsed container is a tree made.                                      *)
LEMMA ParseIs ==
  ASSUME OwnInv, OwnInv', NEW type, NEW names, NEW n \in Nat,
         ParseContainer(type, names, n)
  PROVE  Implemented
<1> DEFINE to == Blocks(0..n)
           b == Block(type, names, [i \in 1..n |-> to[i]], n)
           g == [v \in Values |-> IF v = to[0] THEN b
                                  ELSE IF \E i \in 1..n : to[i] = v THEN Scalar ELSE heap[v]]
<1>1. Room(n + 1) /\ heap' = g /\ held' = held \cup {to[0]}
  BY DEF ParseContainer
<1>2. to \in [0..n -> Unused(heap)]
  BY <1>1, BlocksInARow
<1>3. \A s \in held : heap[s].type # "free"
  BY DEF OwnInv, Rooted
<1> HIDE DEF to, b
<1>4. \A i \in 0..n : to[i] \in Values /\ heap[to[i]].type = "free"
  BY <1>2 DEF Unused
<1>5. 0 \in 0..n /\ 1..n \subseteq 0..n
  OBVIOUS
<1>6. \A w \in Values : heap[w].type # "free" => g[w] = heap[w]
  BY <1>4, <1>5
<1> HIDE DEF g
<1>7. to[0] \in Values /\ to[0] \notin held
  BY <1>3, <1>4, <1>5
<1> QED
  BY <1>1, <1>6, <1>7, TreeMade

(* A freed value is a tree dropped.                                        *)
LEMMA FreeIs ==
  ASSUME OwnInv, OwnInv', NEW v \in held, FreeValue(v)
  PROVE  Implemented
<1> DEFINE c == View(heap, held)
           d == View(heap', held')
           A == Below(heap, held)
           B == Below(heap', held')
           T == held \ {v}
           W == Within(heap, v)
<1>1. /\ GoodHeap(heap) /\ Rooted(heap, held) /\ GoodHeap(heap') /\ Rooted(heap', held')
      /\ heap \in [Values -> BlockSet] /\ heap' \in [Values -> BlockSet] /\ Typed(heap)
      /\ held \in SUBSET Values /\ v \in Values /\ T \in SUBSET Values
  BY DEF OwnInv, GoodHeap, Rooted, Typed, OnePlace, NoneFreed
<1>2. heap' = json_value_free(heap, v) /\ held' = T
  BY DEF FreeValue
<1>3. \A w \in Values : heap'[w] = IF w \in W THEN Free ELSE heap[w]
  BY <1>1, <1>2, Freed
<1>4. /\ Store!There(c) = A
      /\ \A x \in A : c[x] = Entries(heap, x) /\ Store!Tree(c, x) = Within(heap, x)
  BY <1>1, ViewIs
<1>5. Store!There(d) = B /\ \A x \in B : d[x] = Entries(heap', x)
  BY <1>1, ViewIs
<1>6. A = Below(heap, T) \cup W /\ \A w \in Below(heap, T) : w \notin W
  BY <1>1, Apart
<1>7. \A w \in Below(heap, T) : Entries(heap', w) = Entries(heap, w) /\ Items(heap', w) = Items(heap, w)
  BY <1>3, <1>6 DEF Entries, Items, Below
<1>8. B = Below(heap, T)
  BY <1>1, <1>2, <1>7, SameBelow
<1>9. v \in A
  BY <1>1, RootIsBelow
<1>10. Contents = c /\ Contents' = d
  BY ContentsAreView, NextContentsAreView
<1> HIDE DEF c, d, A, B, W
<1>11. Store!Tree(c, v) = W
  BY <1>4, <1>9 DEF W
<1>12. B = A \ W
  BY <1>6, <1>8
<1>13. Store!Same(c, d, B)
  <2>1. \A x \in B : d[x] = c[x]
    BY <1>4, <1>5, <1>7, <1>8, <1>12
  <2> QED
    BY <2>1 DEF Store!Same
<1>14. Store!Drop(c, d)
  BY <1>2, <1>4, <1>5, <1>11, <1>12, <1>13 DEF Store!Drop
<1> QED
  BY <1>10, <1>14, Zenon DEF Store!Next, Implemented

(* A value of the program's that is given, and taken or not. *)
LEMMA GiveIs ==
  ASSUME OwnInv, OwnInv', NEW v \in held, NEW r, SetsIn(heap, held, r, v), Give(v, r)
  PROVE  Implemented
<1>1. heap' = r.heap /\ held' = IF r.ok THEN held \ {v} ELSE held
  BY DEF Give
<1>2. CASE r.ok = FALSE /\ SameBlocks(heap, r.heap)
  BY <1>1, <1>2, SameBlocksUnseen
<1>3. CASE /\ r.ok = FALSE
           /\ \E p \in Below(heap, held \ {v}) : \E n, x :
                Changes(heap, held, r.heap, held, p, {}, {<< n, x >>})
  <2>1. PICK p, n, x : Changes(heap, held, r.heap, held, p, {}, {<< n, x >>})
    BY <1>3
  <2> DEFINE in == {<< n, x >>}
             none == {}
  <2>2. Changes(heap, held, r.heap, held, p, none, in)
    BY <2>1
  <2> HIDE DEF in, none
  <2>3. Changes(heap, held, heap', held', p, none, in)
    BY <1>1, <1>3, <2>2
  <2> QED
    BY <2>3, ChangeSeen
<1>4. CASE /\ r.ok = TRUE
           /\ \E p \in Below(heap, held \ {v}) : \E n, x, out :
                /\ Changes(heap, held, r.heap, held \ {v}, p, out, {<< n, x >>})
                /\ v \in Came(r.heap, {<< n, x >>})
  <2>1. PICK p, n, x, out : Changes(heap, held, r.heap, held \ {v}, p, out, {<< n, x >>})
    BY <1>4
  <2> DEFINE in == {<< n, x >>}
  <2>2. Changes(heap, held, r.heap, held \ {v}, p, out, in)
    BY <2>1
  <2> HIDE DEF in
  <2>3. Changes(heap, held, heap', held', p, out, in)
    BY <1>1, <1>4, <2>2
  <2> QED
    BY <2>3, ChangeSeen
<1> QED
  BY <1>2, <1>3, <1>4 DEF SetsIn

(* A value that a call makes, and puts into a container if it is taken. *)
LEMMA WithNewIsFresh ==
  ASSUME OwnInv, Unused(heap) # {}
  PROVE  /\ Fresh(heap, held, WithNew, malloc(heap))
         /\ malloc(heap) \in held \cup {malloc(heap)}
         /\ (held \cup {malloc(heap)}) \ {malloc(heap)} = held
<1>1. GoodHeap(heap) /\ Rooted(heap, held)
  BY DEF OwnInv
<1>2. Fresh(heap, held, WithNew, malloc(heap))
  BY <1>1, EmptyBlocks, FreshIs DEF WithNew
<1>3. malloc(heap) \notin held
  BY <1>2 DEF Fresh
<1> QED
  BY <1>2, <1>3

(* A value that is made and put in at once is one change.                  *)
LEMMA NewIsTaken ==
  ASSUME OwnInv, OwnInv', Unused(heap) # {}, held' = held,
         NEW p \in Below(WithNew, held), NEW out, NEW in,
         Changes(WithNew, held \cup {malloc(heap)}, heap', held, p, out, in),
         malloc(heap) \in Came(heap', in)
  PROVE  Implemented
<1> DEFINE new == malloc(heap)
<1>1. Fresh(heap, held, WithNew, new)
  BY WithNewIsFresh
<1>2. heap \in [Values -> BlockSet] /\ held \in SUBSET Values
  BY DEF OwnInv, GoodHeap, Typed, Rooted
<1> HIDE DEF new
<1>3. p # new
  BY <1>1 DEF Fresh
<1>4. /\ Changes(WithNew, held \cup {new}, heap', held, p, out, in)
      /\ new \in Came(heap', in)
  BY DEF new
<1>5. Changes(heap, held, heap', held, p, out, in)
  BY <1>1, <1>2, <1>3, <1>4, FreshChanges
<1>6. Changes(heap, held, heap', held', p, out, in)
  BY <1>5
<1> QED
  BY <1>6, ChangeSeen

(* A scalar that is made and set: put in, or refused and freed.            *)
LEMMA KeepIs ==
  ASSUME OwnInv, OwnInv', Unused(heap) # {}, NEW r,
         Takes(r, held \cup {malloc(heap)}, malloc(heap)),
         SetsIn(WithNew, held \cup {malloc(heap)}, r, malloc(heap)),
         Keep(r, TRUE)
  PROVE  Implemented
<1> DEFINE new == malloc(heap)
           P == held \cup {new}
           k == json_value_free(r.heap, new)
<1>1. /\ Fresh(heap, held, WithNew, new) /\ P \ {new} = held
      /\ GoodHeap(heap) /\ Rooted(heap, held)
      /\ heap \in [Values -> BlockSet] /\ held \in SUBSET Values
  BY WithNewIsFresh DEF OwnInv, GoodHeap, Typed, Rooted
<1>2. held' = held /\ heap' = IF r.ok THEN r.heap ELSE k
  BY DEF Keep
<1>3. Takes(r, P, new) /\ SetsIn(WithNew, P, r, new)
  OBVIOUS
<1>4. CASE r.ok = FALSE /\ SameBlocks(WithNew, r.heap)
  <2>1. Typed(r.heap)
    BY <1>3 DEF Takes, GoodHeap
  <2>2. SameBlocks([heap EXCEPT ![malloc(heap)] = Scalar], r.heap)
    BY <1>4 DEF WithNew
  <2>3. SameBlocks(heap, k)
    BY <1>1, <2>1, <2>2, EmptyBlocks, GivenBack
  <2>4. heap' = k
    BY <1>2, <1>4
  <2> HIDE DEF k
  <2> QED
    BY <1>2, <2>3, <2>4, SameBlocksUnseen
<1> HIDE DEF P, new
<1>5. CASE /\ r.ok = FALSE
           /\ \E p \in Below(WithNew, P \ {new}) : \E n, x :
                Changes(WithNew, P, r.heap, P, p, {}, {<< n, x >>})
  <2>1. PICK p \in Below(WithNew, held) : \E n, x : Changes(WithNew, P, r.heap, P, p, {}, {<< n, x >>})
    BY <1>1, <1>5
  <2>2. PICK n, x : Changes(WithNew, P, r.heap, P, p, {}, {<< n, x >>})
    BY <2>1
  <2> DEFINE in == {<< n, x >>}
  <2>3. Changes(WithNew, P, r.heap, P, p, {}, in)
    BY <2>2
  <2> HIDE DEF in
  <2>4. p # new
    BY <1>1, <2>1 DEF Fresh
  <2>5. GoodHeap(r.heap) /\ Rooted(r.heap, P)
    BY <1>3, <1>5 DEF Takes
  <2> DEFINE g == r.heap
  <2> HIDE DEF g
  <2>6. /\ GoodHeap(g) /\ Rooted(g, held \cup {new})
        /\ Changes(WithNew, held \cup {new}, g, held \cup {new}, p, {}, in)
    BY <2>3, <2>5 DEF P, g
  <2>7. Changes(heap, held, json_value_free(g, new), held, p, {}, in)
    BY <1>1, <2>4, <2>6, FreshDropped
  <2>8. heap' = json_value_free(g, new)
    BY <1>2, <1>5 DEF g
  <2>9. Changes(heap, held, heap', held', p, {}, in)
    BY <1>2, <2>7, <2>8
  <2> QED
    BY <2>9, ChangeSeen
<1>6. CASE /\ r.ok = TRUE
           /\ \E p \in Below(WithNew, P \ {new}) : \E n, x, out :
                /\ Changes(WithNew, P, r.heap, P \ {new}, p, out, {<< n, x >>})
                /\ new \in Came(r.heap, {<< n, x >>})
  <2>1. PICK p \in Below(WithNew, held) : \E n, x, out :
               /\ Changes(WithNew, P, r.heap, P \ {new}, p, out, {<< n, x >>})
               /\ new \in Came(r.heap, {<< n, x >>})
    BY <1>1, <1>6
  <2>2. PICK n, x, out : /\ Changes(WithNew, P, r.heap, P \ {new}, p, out, {<< n, x >>})
                         /\ new \in Came(r.heap, {<< n, x >>})
    BY <2>1
  <2> DEFINE in == {<< n, x >>}
  <2>3. Changes(WithNew, P, r.heap, P \ {new}, p, out, in) /\ new \in Came(r.heap, in)
    BY <2>2
  <2> HIDE DEF in
  <2>4. heap' = r.heap
    BY <1>2, <1>6
  <2>5. Changes(WithNew, P, heap', held, p, out, in) /\ new \in Came(heap', in)
    BY <1>1, <2>3, <2>4
  <2> QED
    BY <1>2, <2>1, <2>5, NewIsTaken DEF P, new
<1> QED
  BY <1>3, <1>4, <1>5, <1>6 DEF SetsIn

(* Setting a value, by a name or a dotted one, is one change or none.      *)
LEMMA SetValueIs ==
  ASSUME OwnInv, OwnInv', NEW o \in Of("object"), NEW path \in Paths, NEW v \in Loose(o),
         NEW mem \in Int, SetValue(o, path, v, mem)
  PROVE  Implemented
<1> DEFINE r == json_object_dotset_value(heap, o, path, v, mem)
<1>1. /\ GoodHeap(heap) /\ Rooted(heap, held) /\ v \in held
      /\ o \in Owned /\ heap[o].type = "object"
  BY OwnedValues
<1>2. o \in Below(heap, held \ {v})
  BY <1>1, LooseIsElsewhere
<1>3. SetsIn(heap, held, r, v)
  BY <1>1, <1>2, DotSetsIn
<1>4. Give(v, r)
  BY DEF SetValue
<1> HIDE DEF r
<1> QED
  BY <1>1, <1>3, <1>4, GiveIs

(* Refused, the value that set made is lost: a program sees nothing of it. *)
LEMMA SetScalarIs ==
  ASSUME OwnInv, OwnInv', NEW o \in Of("object"), NEW n \in Names, NEW mem \in Int,
         json_object_set_scalar(o, n, mem)
  PROVE  Implemented
<1> DEFINE new == malloc(heap)
           P == held \cup {new}
           r == json_object_set_value(WithNew, o, n, new, mem)
<1>1. Unused(heap) # {}
  BY DEF json_object_set_scalar
<1>2. o \in Values /\ o \in Below(heap, held) /\ heap[o].type = "object"
  BY OwnedValues
<1>3. /\ GoodHeap(WithNew) /\ Rooted(WithNew, P) /\ new \in P
      /\ WithNew[o].type = "object"
  BY <1>1, <1>2, OneMore
<1>4. Fresh(heap, held, WithNew, new) /\ P \ {new} = held
  BY <1>1, WithNewIsFresh
<1>5. o \in Below(WithNew, P \ {new})
  BY <1>2, <1>4 DEF Fresh
<1>6. heap' = r.heap /\ held' = held
  BY DEF json_object_set_scalar, Keep
<1>7. PutsIn(WithNew, P, r, new, o)
  BY <1>3, <1>5, ObjectSetPutsIn
<1> HIDE DEF r
<1>8. heap' \in [Values -> BlockSet] /\ WithNew \in [Values -> BlockSet] /\ held \in SUBSET Values
  BY <1>3 DEF OwnInv, GoodHeap, Typed, Rooted
<1>9. CASE r.ok = FALSE /\ SameBlocks(WithNew, r.heap)
  <2>1. /\ Below(heap', held) = Below(WithNew, held)
        /\ \A w \in Values : Entries(heap', w) = Entries(WithNew, w)
    BY <1>6, <1>8, <1>9, SameBlocksShow
  <2>2. /\ Below(WithNew, held) = Below(heap, held)
        /\ \A w \in Below(heap, held) : Entries(WithNew, w) = Entries(heap, w)
    BY <1>4 DEF Fresh
  <2>3. \A w \in Below(heap, held) : Entries(heap', w) = Entries(heap, w)
    BY <2>1, <2>2 DEF Below
  <2> QED
    BY <1>6, <2>1, <2>2, <2>3, NothingSeen
<1>10. CASE \E m, out : Changes(WithNew, P, r.heap, P \ {new}, o, out, {<< m, new >>})
  <2>1. PICK m, out : Changes(WithNew, P, r.heap, P \ {new}, o, out, {<< m, new >>})
    BY <1>10
  <2>2. new \in Values
    BY <1>4 DEF Fresh
  <2>3. new \in Within(heap', new)
    BY <1>8, <2>2, WithinBelow
  <2>4. new \in Came(heap', {<< m, new >>})
    BY <1>8, <2>2, <2>3, CameOne
  <2> DEFINE in == {<< m, new >>}
  <2>5. Changes(WithNew, P, r.heap, P \ {new}, o, out, in) /\ new \in Came(heap', in)
    BY <2>1, <2>4
  <2> HIDE DEF in, P, new
  <2>6. Changes(WithNew, P, heap', held, o, out, in) /\ o \in Below(WithNew, held)
    BY <1>4, <1>5, <1>6, <2>5
  <2> QED
    BY <1>1, <1>6, <2>5, <2>6, NewIsTaken DEF P, new
<1> QED
  BY <1>7, <1>9, <1>10 DEF PutsIn

(* So is setting a scalar by a dotted name.                                *)
LEMMA DotsetScalarIs ==
  ASSUME OwnInv, OwnInv', NEW o \in Of("object"), NEW path \in Paths, NEW mem \in Int,
         json_object_dotset_scalar(o, path, mem)
  PROVE  Implemented
<1> DEFINE new == malloc(heap)
           P == held \cup {new}
           r == json_object_dotset_value(WithNew, o, path, new, mem)
<1>1. Unused(heap) # {}
  BY DEF json_object_dotset_scalar
<1>2. o \in Values /\ o \in Below(heap, held) /\ heap[o].type = "object"
  BY OwnedValues
<1>3. /\ GoodHeap(WithNew) /\ Rooted(WithNew, P) /\ new \in P
      /\ WithNew[o].type = "object"
  BY <1>1, <1>2, OneMore
<1>4. o \in Below(WithNew, P \ {new})
  BY <1>1, <1>2, WithNewIsFresh DEF Fresh
<1>5. Keep(r, TRUE)
  BY DEF json_object_dotset_scalar
<1>6. Takes(r, P, new)
  BY <1>2, <1>3, DotSets
<1>7. SetsIn(WithNew, P, r, new)
  BY <1>3, <1>4, DotSetsIn
<1> HIDE DEF r
<1> QED
  BY <1>1, <1>5, <1>6, <1>7, KeepIs

(* A removal is one entry out.                                             *)
LEMMA RemoveIs ==
  ASSUME OwnInv, OwnInv', NEW c \in Below(heap, held), heap[c].type \in {"object", "array"},
         NEW i \in DOMAIN heap[c].items, heap' = Removed(heap, c, i), held' = held
  PROVE  Implemented
<1> DEFINE out == {<< Named(heap[c], i), heap[c].items[i] >>}
           in == {}
<1>1. GoodHeap(heap) /\ Rooted(heap, held)
  BY DEF OwnInv
<1>2. Changes(heap, held, Removed(heap, c, i), held, c, out, in)
  BY <1>1, RemovedChanges
<1> HIDE DEF out, in
<1>3. Changes(heap, held, heap', held', c, out, in)
  BY <1>2
<1> QED
  BY <1>3, ChangeSeen

(* So is one by a dotted name, if the name leads anywhere.                 *)
LEMMA DotremoveIs ==
  ASSUME OwnInv, OwnInv', NEW o \in Of("object"), NEW path \in Paths, json_object_dotremove(o, path)
  PROVE  Implemented
<1> DEFINE p == Along(heap, o, path)
           n == Last(path)
           i == Place(heap, p, n)
<1>1. o \in Below(heap, held) /\ heap[o].type = "object" /\ GoodHeap(heap)
  BY OwnedValues
<1>2. p # None /\ i # 0 /\ heap' = Removed(heap, p, i) /\ held' = held
  BY DEF json_object_dotremove
<1>3. p \in Below(heap, held) /\ heap[p].type = "object"
  BY <1>1, <1>2, AlongIsBelow
<1>4. heap[p] \in BlockSet /\ Sound(heap[p])
  BY <1>1, <1>3 DEF Below, GoodHeap, Typed
<1> HIDE DEF p, n
<1>5. i \in DOMAIN heap[p].items
  BY <1>2, <1>3, <1>4, PlaceOfName
<1> HIDE DEF i
<1> QED
  BY <1>2, <1>3, <1>5, RemoveIs

(* A cleared container is one emptied.                                     *)
LEMMA ClearIs ==
  ASSUME OwnInv, OwnInv', NEW c \in Owned, heap[c].type \in {"object", "array"}, json_clear(c)
  PROVE  Implemented
<1> DEFINE out == Entries(heap, c)
           in == {}
<1>1. GoodHeap(heap) /\ Rooted(heap, held) /\ c \in Below(heap, held)
  BY OwnedValues
<1>2. Changes(heap, held, Cleared(heap, c), held, c, out, in)
  BY <1>1, ClearedChanges
<1> HIDE DEF out, in
<1>3. Changes(heap, held, heap', held', c, out, in)
  BY <1>2 DEF json_clear
<1> QED
  BY <1>3, ChangeSeen

(* An appended value is one entry in, or refused.                          *)
LEMMA AppendValueIs ==
  ASSUME OwnInv, OwnInv', NEW a \in Of("array"), NEW v \in Loose(a), NEW mem \in Int,
         json_array_append_value(a, v, mem)
  PROVE  Implemented
<1> DEFINE r == json_array_add(heap, a, v, mem)
<1>1. /\ GoodHeap(heap) /\ Rooted(heap, held) /\ v \in held /\ v \in Values
      /\ a \in Owned /\ a \in Values /\ heap[a].type = "array"
  BY OwnedValues
<1>2. a \in Below(heap, held \ {v})
  BY <1>1, LooseIsElsewhere
<1>3. PutsIn(heap, held, r, v, a)
  BY <1>1, <1>2, ArrayAddPutsIn
<1>4. r.heap \in [Values -> BlockSet]
  BY <1>1, ArrayAdds DEF Takes, GoodHeap, Typed
<1>5. Give(v, r)
  BY DEF json_array_append_value
<1> HIDE DEF r
<1>6. SetsIn(heap, held, r, v)
  BY <1>1, <1>2, <1>3, <1>4, PutsInSets
<1> QED
  BY <1>1, <1>5, <1>6, GiveIs

(* An appended scalar is one entry in, or made, refused and freed.         *)
LEMMA AppendScalarIs ==
  ASSUME OwnInv, OwnInv', NEW a \in Of("array"), NEW mem \in Int, json_array_append_scalar(a, mem)
  PROVE  Implemented
<1> DEFINE new == malloc(heap)
           P == held \cup {new}
           r == json_array_add(WithNew, a, new, mem)
<1>1. Unused(heap) # {}
  BY DEF json_array_append_scalar
<1>2. a \in Values /\ a \in Below(heap, held) /\ heap[a].type = "array"
  BY OwnedValues
<1>3. /\ GoodHeap(WithNew) /\ Rooted(WithNew, P) /\ new \in P /\ new \in Values
      /\ WithNew[a].type = "array"
  BY <1>1, <1>2, OneMore
<1>4. a \in Below(WithNew, P \ {new})
  BY <1>1, <1>2, WithNewIsFresh DEF Fresh
<1>5. Keep(r, TRUE)
  BY DEF json_array_append_scalar
<1>6. Takes(r, P, new)
  BY <1>2, <1>3, ArrayAdds
<1>7. PutsIn(WithNew, P, r, new, a)
  BY <1>3, <1>4, ArrayAddPutsIn
<1>8. r.heap \in [Values -> BlockSet]
  BY <1>6 DEF Takes, GoodHeap, Typed
<1> HIDE DEF r
<1>9. SetsIn(WithNew, P, r, new)
  BY <1>3, <1>4, <1>7, <1>8, PutsInSets
<1> QED
  BY <1>1, <1>5, <1>6, <1>9, KeepIs

(* A value that replaces another in an array is set.                       *)
LEMMA ReplacedSetsIn ==
  ASSUME NEW h, GoodHeap(h), NEW S, Rooted(h, S), NEW v \in S, NEW a \in Below(h, S \ {v}),
         NEW i \in DOMAIN h[a].items
  PROVE  SetsIn(h, S, Done(Replaced(h, a, i, v)), v)
<1> DEFINE r == Done(Replaced(h, a, i, v))
<1>1. r.ok = TRUE /\ r.heap = [json_value_free(h, h[a].items[i]) EXCEPT ![a].items[i] = v]
  BY DEF Done, Replaced
<1>2. a \in Values /\ v \in Values
  BY DEF Below, Rooted
<1>3. r.heap \in [Values -> BlockSet]
  BY <1>2, ReplacedTakes DEF Takes, GoodHeap, Typed
<1> HIDE DEF r
<1>4. PutsIn(h, S, r, v, a)
  BY <1>1, ReplacedPutsIn
<1>5. SetsIn(h, S, r, v)
  BY <1>2, <1>3, <1>4, PutsInSets
<1> QED
  BY <1>5 DEF r

(* json_array_replace_value is one entry out and one in.                   *)
LEMMA ReplaceValueIs ==
  ASSUME OwnInv, OwnInv', NEW a \in Of("array"), NEW i \in DOMAIN heap[a].items, NEW v \in Loose(a),
         json_array_replace_value(a, i, v)
  PROVE  Implemented
<1> DEFINE r == Done(Replaced(heap, a, i, v))
<1>1. /\ GoodHeap(heap) /\ Rooted(heap, held) /\ v \in held /\ a \in Owned
  BY OwnedValues
<1>2. a \in Below(heap, held \ {v})
  BY <1>1, LooseIsElsewhere
<1>3. SetsIn(heap, held, r, v)
  BY <1>1, <1>2, ReplacedSetsIn
<1>4. Give(v, r)
  BY DEF json_array_replace_value
<1> HIDE DEF r
<1> QED
  BY <1>1, <1>3, <1>4, GiveIs

(* So it is with a scalar that is made first.                              *)
LEMMA ReplaceScalarIs ==
  ASSUME OwnInv, OwnInv', NEW a \in Of("array"), NEW i \in DOMAIN heap[a].items,
         json_array_replace_scalar(a, i)
  PROVE  Implemented
<1> DEFINE new == malloc(heap)
           P == held \cup {new}
           r == Done(Replaced(WithNew, a, i, new))
<1>1. Unused(heap) # {}
  BY DEF json_array_replace_scalar
<1>2. a \in Values /\ a \in Below(heap, held) /\ heap[a].type = "array"
  BY OwnedValues
<1>3. /\ GoodHeap(WithNew) /\ Rooted(WithNew, P) /\ new \in P
      /\ WithNew[a] = heap[a]
  BY <1>1, <1>2, OneMore
<1>4. a \in Below(WithNew, P \ {new}) /\ i \in DOMAIN WithNew[a].items
  BY <1>1, <1>2, <1>3, WithNewIsFresh DEF Fresh
<1>5. Keep(r, TRUE)
  BY DEF json_array_replace_scalar
<1>6. Takes(r, P, new)
  BY <1>2, <1>3, <1>4, ReplacedTakes
<1>7. SetsIn(WithNew, P, r, new)
  BY <1>3, <1>4, ReplacedSetsIn
<1> HIDE DEF r
<1> QED
  BY <1>1, <1>5, <1>6, <1>7, KeepIs

(* What a refused entry of a document leaves was never a program's.        *)
LEMMA ParseRefusedIs ==
  ASSUME OwnInv, OwnInv', NEW lost \in SUBSET Unused(heap), ParseRefused(lost)
  PROVE  Implemented
<1>1. /\ heap' = [d \in Values |-> IF d \in lost THEN Scalar ELSE heap[d]]
      /\ held' = held
  BY DEF ParseRefused
<1>2. GoodHeap(heap) /\ Rooted(heap, held)
  BY DEF OwnInv
<1>3. \A w \in Below(heap, held) : w \in Values /\ heap[w].type # "free"
  BY <1>2, BelowIsThere DEF Below
<1>4. \A w \in Below(heap, held) : heap'[w] = heap[w]
  BY <1>1, <1>3 DEF Unused
<1>5. \A w \in Below(heap, held) : Items(heap', w) = Items(heap, w) /\ Entries(heap', w) = Entries(heap, w)
  BY <1>4 DEF Items, Entries
<1>6. heap \in [Values -> BlockSet] /\ heap' \in [Values -> BlockSet] /\ held \in SUBSET Values
  BY DEF OwnInv, GoodHeap, Typed, Rooted
<1>7. Below(heap', held) = Below(heap, held)
  BY <1>5, <1>6, SameBelow
<1> QED
  BY <1>1, <1>5, <1>7, NothingSeen

(* When the program dies, all it had is gone.                              *)
LEMMA DiesIs ==
  ASSUME OwnInv', DiesGrowing, OwnInv
  PROVE  Implemented
<1>1. held' = {}
  BY DEF DiesGrowing
<1>2. Contents' = View(heap', held')
  BY NextContentsAreView
<1>3. Below(heap', held') = {}
  BY <1>1 DEF Below
<1>4. \A v \in Values : View(heap', held')[v] = None
  BY <1>3 DEF View
<1>5. Store!There(Contents') = {}
  BY <1>2, <1>4 DEF Store!There
<1>6. Store!End(Contents')
  BY <1>1, <1>5 DEF Store!End
<1> QED
  BY <1>6, Zenon DEF Store!Next, Implemented

-----------------------------------------------------------------------------
(* Every call is a step of JsonStore, or one a program sees nothing of.    *)
LEMMA StepImplements ==
  ASSUME OwnInv, OwnInv', Next
  PROVE  Implemented
<1>1. ASSUME NEW type \in {"object", "array", "scalar"},
             json_value_init(Block(type, << >>, << >>, 0))
      PROVE  Implemented
  BY <1>1, InitIs
<1>2. ASSUME NEW v \in held, FreeValue(v) PROVE Implemented
  BY <1>2, FreeIs
<1>3. ASSUME NEW v \in Owned, json_value_deep_copy(v) PROVE Implemented
  BY <1>3, CopyIs
<1>4. ASSUME NEW names \in {p \in Paths : IsInjective(p)},
             ParseContainer("object", names, Len(names)) \/ ParseContainer("array", << >>, Len(names))
      PROVE  Implemented
  <2>1. Len(names) \in Nat
    BY PathHasNames
  <2> QED
    BY <1>4, <2>1, ParseIs
<1>5. ASSUME NEW lost \in SUBSET Unused(heap), ParseRefused(lost) PROVE Implemented
  BY <1>5, ParseRefusedIs
<1>6. CASE ObjectCalls
  <2>0. Memory \subseteq Int
    BY MemoryIsCounted
  <2>1. PICK o \in Of("object"), mem \in Memory :
          \/ \E path \in Paths, v \in Loose(o) : SetValue(o, path, v, mem)
          \/ \E n \in Names : json_object_set_scalar(o, n, mem)
          \/ \E path \in Paths : json_object_dotset_scalar(o, path, mem)
          \/ \E path \in Paths : json_object_dotremove(o, path)
          \/ json_clear(o)
    BY <1>6 DEF ObjectCalls
  <2>2. CASE \E path \in Paths, v \in Loose(o) : SetValue(o, path, v, mem)
    BY <2>0, <2>2, SetValueIs
  <2>3. CASE \E n \in Names : json_object_set_scalar(o, n, mem)
    BY <2>0, <2>3, SetScalarIs
  <2>4. CASE \E path \in Paths : json_object_dotset_scalar(o, path, mem)
    BY <2>0, <2>4, DotsetScalarIs
  <2>5. CASE \E path \in Paths : json_object_dotremove(o, path)
    BY <2>5, DotremoveIs
  <2>6. CASE json_clear(o)
    BY <2>6, ClearIs, OwnedValues
  <2> QED
    BY <2>1, <2>2, <2>3, <2>4, <2>5, <2>6
<1>7. CASE ArrayCalls
  <2>0. Memory \subseteq Int
    BY MemoryIsCounted
  <2>1. PICK a \in Of("array") :
          \/ \E v \in Loose(a), mem \in Memory : json_array_append_value(a, v, mem)
          \/ \E mem \in Memory : json_array_append_scalar(a, mem)
          \/ \E i \in DOMAIN heap[a].items :
               \/ json_array_remove(a, i)
               \/ json_array_replace_scalar(a, i)
               \/ \E v \in Loose(a) : json_array_replace_value(a, i, v)
          \/ json_clear(a)
    BY <1>7 DEF ArrayCalls
  <2>2. CASE \E v \in Loose(a), mem \in Memory : json_array_append_value(a, v, mem)
    BY <2>0, <2>2, AppendValueIs
  <2>3. CASE \E mem \in Memory : json_array_append_scalar(a, mem)
    BY <2>0, <2>3, AppendScalarIs
  <2>4. ASSUME NEW i \in DOMAIN heap[a].items, json_array_remove(a, i) PROVE Implemented
    <3>1. a \in Below(heap, held) /\ heap[a].type \in {"object", "array"}
      BY OwnedValues
    <3> QED
      BY <2>4, <3>1, RemoveIs DEF json_array_remove
  <2>5. ASSUME NEW i \in DOMAIN heap[a].items, json_array_replace_scalar(a, i) PROVE Implemented
    BY <2>5, ReplaceScalarIs
  <2>6. ASSUME NEW i \in DOMAIN heap[a].items, NEW v \in Loose(a), json_array_replace_value(a, i, v)
        PROVE  Implemented
    BY <2>6, ReplaceValueIs
  <2>7. CASE json_clear(a)
    BY <2>7, ClearIs, OwnedValues
  <2> QED
    BY <2>1, <2>2, <2>3, <2>4, <2>5, <2>6, <2>7
<1>8. CASE DiesGrowing
  BY <1>8, DiesIs
<1> QED
  BY <1>1, <1>2, <1>3, <1>4, <1>5, <1>6, <1>7, <1>8 DEF Next

(* At first there is nothing, in both.                                     *)
LEMMA InitImplements ==
  ASSUME Init
  PROVE  Store!Init
<1>1. OwnInv
  BY InitOwns
<1>2. Contents = View(heap, held)
  BY <1>1, ContentsAreView
<1>3. Below(heap, {}) = {}
  BY DEF Below
<1>4. held = {}
  BY DEF Init
<1>5. Contents = [v \in Values |-> None]
  BY <1>2, <1>3, <1>4 DEF View
<1> QED
  BY <1>4, <1>5 DEF Store!Init

(* JsonTree implements JsonStore: whatever the calls of parson.c do to     *)
(* blocks, arrays of places and dotted names, refused or not, a program    *)
(* sees a tree made, a tree dropped, one entry put in, put in place of     *)
(* another or taken out, a container emptied, or nothing.                  *)
THEOREM CallsImplementStore == Spec => ImplementsStore
<1>1. Init => Store!Init
  BY InitImplements
<1>2. OwnInv /\ OwnInv' /\ [Next]_vars => [Store!Next]_(Store!vars)
  <2> SUFFICES ASSUME OwnInv, OwnInv', [Next]_vars PROVE Implemented
    BY DEF Implemented
  <2>1. CASE Next
    BY <2>1, StepImplements
  <2>2. CASE UNCHANGED vars
    <3>1. heap' = heap /\ held' = held
      BY <2>2 DEF vars
    <3>2. /\ Below(heap', held) = Below(heap, held)
          /\ \A w \in Below(heap, held) : Entries(heap', w) = Entries(heap, w)
      BY <3>1
    <3> QED
      BY <3>1, <3>2, NothingSeen
  <2> QED
    BY <2>1, <2>2
<1> QED
  BY <1>1, <1>2, AlwaysOwnInv, PTL DEF Spec, ImplementsStore, Store!Spec

=============================================================================
