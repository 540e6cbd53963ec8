------------------------------ MODULE JsonTree -------------------------------
(***************************************************************************)
(* The values of parson.c on the heap, and the calls that build, change,   *)
(* copy and free them.                                                     *)
(*                                                                         *)
(* A value is a block of memory.  An object keeps two parallel arrays,     *)
(* names and values, an array keeps its items; both grow by doubling up to *)
(* a limit, and a removed entry is replaced by the last one.  A container  *)
(* owns the values in it: freeing it frees them.  Strings, numbers,        *)
(* booleans and null are one kind of value here, scalar.                   *)
(*                                                                         *)
(* The caller is any program that keeps to parson.h: it frees only values  *)
(* it still owns, gives away a value once, and never puts a container into *)
(* itself.  Beyond the values' blocks an entry takes memory for its place, *)
(* when the container has to grow, and for its name: of these two, entry   *)
(* after entry along a dotted name, a call gets the first mem.             *)
(***************************************************************************)
EXTENDS Integers, Sequences, SequencesExt, FiniteSets

CONSTANTS
  Values,                \* the blocks of memory there are for values
  Names,                 \* names of an object's values
  STARTING_CAPACITY,     \* places of a first allocation: 15
  OBJECT_MAX_CAPACITY,   \* 960
  ARRAY_MAX_CAPACITY,    \* 122880
  MAXPATH,               \* bound on the length of a dotted name explored
  None                   \* NULL

(* The capacities there are: 15, 30, 60 ...  The limits are among them,    *)
(* 15*(2^6) and 15*(2^13).                                                 *)
Capacities[k \in Nat] == IF k = 0 THEN STARTING_CAPACITY ELSE 2 * Capacities[k - 1]

(* NULL is no value, and nothing that is in a container. *)
ASSUME TreeAssumption ==
  /\ IsFiniteSet(Values) /\ None \notin Values
  /\ \A entries \in SUBSET ((Names \cup {None}) \X Values) : entries # None
  /\ STARTING_CAPACITY \in Nat \ {0} /\ MAXPATH \in Nat \ {0}
  /\ OBJECT_MAX_CAPACITY \in Nat
  /\ \E k \in 0 .. OBJECT_MAX_CAPACITY : OBJECT_MAX_CAPACITY = Capacities[k]
  /\ ARRAY_MAX_CAPACITY \in Nat
  /\ \E k \in 0 .. ARRAY_MAX_CAPACITY : ARRAY_MAX_CAPACITY = Capacities[k]

VARIABLES
  heap,    \* what each block holds
  held     \* the values the caller owns

vars == << heap, held >>

-----------------------------------------------------------------------------
Block(type, names, items, capacity) ==
  [type |-> type, names |-> names, items |-> items, capacity |-> capacity]

Free   == Block("free", << >>, << >>, 0)
Scalar == Block("scalar", << >>, << >>, 0)

Unused(h) == {v \in Values : h[v].type = "free"}

Items(h, v) == {h[v].items[i] : i \in DOMAIN h[v].items}

(* A value with what is in it down to a level, and with all that is in it. *)
Levels(h, v) ==
  LET down[n \in Nat] ==
        IF n = 0 THEN {v}
        ELSE LET above == down[n - 1] IN above \cup UNION {Items(h, w) : w \in above}
  IN down

Within(h, v) == Levels(h, v)[Cardinality(Values) - 1]

json_value_free(h, v) == [w \in Values |-> IF w \in Within(h, v) THEN Free ELSE h[w]]

malloc(h) == CHOOSE v \in Unused(h) : TRUE

(* The place of a name in an object, 0 if it has none; and its value. *)
Place(h, o, n) ==
  IF \E i \in DOMAIN h[o].names : h[o].names[i] = n
    THEN CHOOSE i \in DOMAIN h[o].names : h[o].names[i] = n
    ELSE 0

json_object_get_value(h, o, n) ==
  LET i == Place(h, o, n) IN IF i = 0 THEN None ELSE h[o].items[i]

(* A value as one of a type, NULL if it is of another or there is none. *)
json_value_get(h, v, type) == IF v # None /\ h[v].type = type THEN v ELSE None

(* The object that all but the last of the names of a path lead to. *)
Ways(h, o, path) ==
  LET at[k \in Nat] ==
        IF k = 0 THEN o
        ELSE LET p == at[k - 1]
             IN IF p = None THEN None
                ELSE json_value_get(h, json_object_get_value(h, p, path[k]), "object")
  IN at

Along(h, o, path) == Ways(h, o, path)[Len(path) - 1]

json_object_dotget_value(h, o, path) ==
  LET p == Along(h, o, path)
  IN IF p = None THEN None ELSE json_object_get_value(h, p, Last(path))

-----------------------------------------------------------------------------
(* What a call makes of the heap, and whether it succeeds. *)
Done(h)  == [heap |-> h, ok |-> TRUE]
Fails(h) == [heap |-> h, ok |-> FALSE]

Limit(b) == IF b.type = "object" THEN OBJECT_MAX_CAPACITY ELSE ARRAY_MAX_CAPACITY

Doubled(c) == IF 2 * c > STARTING_CAPACITY THEN 2 * c ELSE STARTING_CAPACITY

(* The capacity a container has once there is a place for another entry. *)
Grown(b) == IF Len(b.items) < b.capacity THEN b.capacity ELSE Doubled(b.capacity)

NoPlace(b, mem) == Grown(b) # b.capacity /\ (Grown(b) > Limit(b) \/ mem < 1)

json_object_add_unchecked(h, o, n, v, mem) ==     \* faulty: the name may be there already
  IF NoPlace(h[o], mem) THEN Fails(h)
  ELSE Done([h EXCEPT ![o] = Block("object", Append(h[o].names, n), Append(h[o].items, v),
                                   Grown(h[o]))])

(* A container stays grown if its new entry is then refused. *)
json_object_add(h, o, n, v, mem) ==
  LET b == h[o] IN
  IF NoPlace(b, mem) THEN Fails(h)
  ELSE IF Place(h, o, n) # 0 \/ mem < 2 THEN Fails([h EXCEPT ![o].capacity = Grown(b)])
  ELSE Done([h EXCEPT ![o] = Block("object", Append(b.names, n), Append(b.items, v), Grown(b))])

json_array_add(h, a, v, mem) ==
  LET b == h[a] IN
  IF NoPlace(b, mem) THEN Fails(h)
  ELSE Done([h EXCEPT ![a] = Block("array", << >>, Append(b.items, v), Grown(b))])

json_object_set_value(h, o, n, v, mem) ==
  LET i == Place(h, o, n) IN
  IF i = 0 THEN json_object_add(h, o, n, v, mem)
  ELSE Done([json_value_free(h, h[o].items[i]) EXCEPT ![o].items[i] = v])

(* One step along a dotted name: into the object of that name, which is    *)
(* made if there is none; a value that is no object is in the way.         *)
Into(s, n, mem) ==
  LET found == json_value_get(s.heap, json_object_get_value(s.heap, s.object, n), "object") IN
  IF ~ s.ok THEN s
  ELSE IF found # None THEN [s EXCEPT !.object = found]
  ELSE IF Unused(s.heap) = {} THEN [s EXCEPT !.ok = FALSE]
  ELSE LET new == malloc(s.heap)
           r == json_object_add([s.heap EXCEPT ![new] = Block("object", << >>, << >>, 0)],
                                s.object, n, new, mem)
       IN IF r.ok THEN [heap |-> r.heap, object |-> new, ok |-> TRUE]
          ELSE [s EXCEPT !.heap = json_value_free(r.heap, new), !.ok = FALSE]

(* The steps along a dotted name, and what memory they leave. *)
Walks(h, o, path, mem) ==
  LET at[k \in Nat] ==
        IF k = 0 THEN [heap |-> h, object |-> o, ok |-> TRUE]
        ELSE Into(at[k - 1], path[k], mem - 2 * (k - 1))
  IN at

Left(path, mem) == mem - 2 * (Len(path) - 1)

json_object_dotset_value_outer(h, o, path, v, mem) ==     \* faulty: the last step is not taken
  LET s == Walks(h, o, path, mem)[Len(path) - 1]
  IN IF s.ok THEN json_object_set_value(s.heap, o, Last(path), v, Left(path, mem))
     ELSE Fails(s.heap)

(* What was made on the way stays if a later step fails. *)
json_object_dotset_value(h, o, path, v, mem) ==
  LET s == Walks(h, o, path, mem)[Len(path) - 1]
  IN IF s.ok THEN json_object_set_value(s.heap, s.object, Last(path), v, Left(path, mem))
     ELSE Fails(s.heap)

-----------------------------------------------------------------------------
(* The entry at i gives its place to the last one. *)
Swapped(s, i) == [j \in 1 .. Len(s) - 1 |-> IF j = i THEN Last(s) ELSE s[j]]

Removed_swap_forgotten(h, c, i) ==     \* faulty: the last entry is cut off
  [json_value_free(h, h[c].items[i]) EXCEPT
     ![c].items = Front(h[c].items),
     ![c].names = IF h[c].type = "object" THEN Front(h[c].names) ELSE << >>]

Removed_name_stays(h, c, i) ==     \* faulty: only the value is moved
  [json_value_free(h, h[c].items[i]) EXCEPT
     ![c].items = Swapped(h[c].items, i),
     ![c].names = IF h[c].type = "object" THEN Front(h[c].names) ELSE << >>]

Removed(h, c, i) ==
  [json_value_free(h, h[c].items[i]) EXCEPT
     ![c].items = Swapped(h[c].items, i),
     ![c].names = IF h[c].type = "object" THEN Swapped(h[c].names, i) ELSE << >>]

Cleared(h, c) ==
  [v \in Values |-> IF v = c THEN [h[c] EXCEPT !.names = << >>, !.items = << >>]
                    ELSE IF v \in Within(h, c) THEN Free ELSE h[v]]

Replaced(h, a, i, v) == [json_value_free(h, h[a].items[i]) EXCEPT ![a].items[i] = v]

(* The capacity a copy grows to, entry by entry. *)
GrownFor[n \in Nat] ==
  IF n = 0 THEN 0
  ELSE LET c == GrownFor[n - 1] IN IF n - 1 < c THEN c ELSE Doubled(c)

CapacityFor(n) == GrownFor[n]

(* A copy in unused blocks, entry by entry. *)
Copied(h, v, to) ==
  [w \in Values |->
     IF \E x \in Within(h, v) : to[x] = w
       THEN LET b == h[CHOOSE x \in Within(h, v) : to[x] = w]
            IN Block(b.type, b.names, [i \in DOMAIN b.items |-> to[b.items[i]]],
                     CapacityFor(Len(b.items)))
       ELSE h[w]]

-----------------------------------------------------------------------------
(* The caller. *)
Owned == UNION {Within(heap, v) : v \in held}

Of(type) == {v \in Owned : heap[v].type = type}

(* What may be put into c: a value of the caller's that c is not in. *)
Loose(c) == {v \in held : c \notin Within(heap, v)}

Paths == UNION {[1..k -> Names] : k \in 1..MAXPATH}

Memory == 0 .. 2 * MAXPATH

Init ==
  /\ heap = [v \in Values |-> Free]
  /\ held = {}

json_value_init(b) ==
  /\ Unused(heap) # {}
  /\ heap' = [heap EXCEPT ![malloc(heap)] = b]
  /\ held' = held \cup {malloc(heap)}

FreeValue(v) ==
  /\ heap' = json_value_free(heap, v)
  /\ held' = held \ {v}

(* A value that was taken is the container's now. *)
Give(v, r) ==
  /\ heap' = r.heap
  /\ held' = IF r.ok THEN held \ {v} ELSE held

SetValue(o, path, v, mem) ==
  Give(v, json_object_dotset_value(heap, o, path, v, mem))

(* A call that makes its own value: dotset, append and replace free it if  *)
(* it is not taken; set, whose name has no dots, does not.                 *)
WithNew == [heap EXCEPT ![malloc(heap)] = Scalar]

Keep(r, frees) ==
  /\ heap' = IF r.ok \/ ~ frees THEN r.heap ELSE json_value_free(r.heap, malloc(heap))
  /\ UNCHANGED held

json_object_set_scalar(o, n, mem) ==
  /\ Unused(heap) # {}
  /\ Keep(json_object_set_value(WithNew, o, n, malloc(heap), mem), FALSE)

json_object_dotset_scalar_leaks(o, path, mem) ==     \* faulty: as set does
  /\ Unused(heap) # {}
  /\ Keep(json_object_dotset_value(WithNew, o, path, malloc(heap), mem), FALSE)

json_object_dotset_scalar(o, path, mem) ==
  /\ Unused(heap) # {}
  /\ Keep(json_object_dotset_value(WithNew, o, path, malloc(heap), mem), TRUE)

json_object_dotremove(o, path) ==
  LET p == Along(heap, o, path)
      i == IF p = None THEN 0 ELSE Place(heap, p, Last(path))
  IN /\ i # 0
     /\ heap' = Removed(heap, p, i)
     /\ UNCHANGED held

json_clear(c) ==
  /\ heap' = Cleared(heap, c)
  /\ UNCHANGED held

json_array_append_value(a, v, mem) == Give(v, json_array_add(heap, a, v, mem))

json_array_append_scalar(a, mem) ==
  /\ Unused(heap) # {}
  /\ Keep(json_array_add(WithNew, a, malloc(heap), mem), TRUE)

json_array_remove(a, i) ==
  /\ heap' = Removed(heap, a, i)
  /\ UNCHANGED held

json_array_replace_value(a, i, v) == Give(v, Done(Replaced(heap, a, i, v)))

json_array_replace_scalar(a, i) ==
  /\ Unused(heap) # {}
  /\ Keep(Done(Replaced(WithNew, a, i, malloc(heap))), TRUE)

(* Blocks for all of S; which they are makes no difference. *)
Blocks(S) == CHOOSE to \in Injection(S, Unused(heap)) : TRUE

Room(n) == n <= Cardinality(Unused(heap))

(* Without room for all of it a copy is given up, and what was made of it  *)
(* is freed.                                                               *)
json_value_deep_copy(v) ==
  /\ Room(Cardinality(Within(heap, v)))
  /\ LET to == Blocks(Within(heap, v))
     IN heap' = Copied(heap, v, to) /\ held' = held \cup {to[v]}

(* json_parse_string makes a container, here one of scalars, and trims it. *)
ParseContainer(type, names, n) ==
  /\ Room(n + 1)
  /\ CapacityFor(n) <= Limit(Block(type, names, << >>, 0))
  /\ LET to == Blocks(0..n)
     IN /\ heap' = [v \in Values |->
                      IF v = to[0] THEN Block(type, names, [i \in 1..n |-> to[i]], n)
                      ELSE IF \E i \in 1..n : to[i] = v THEN Scalar ELSE heap[v]]
        /\ held' = held \cup {to[0]}

(* An entry that its container does not take, because its name is there    *)
(* already, the container is at its limit or memory is missing, ends the   *)
(* parsing; of the entry only its one block is freed, and the values in it *)
(* are lost: {"a":1,"a":[1]} loses the last scalar.                        *)
ParseRefused(lost) ==
  /\ Room(Cardinality(lost) + 2)
  /\ heap' = [v \in Values |-> IF v \in lost THEN Scalar ELSE heap[v]]
  /\ UNCHANGED held

(* When an object's arrays grow, whether there was memory for the names is *)
(* tested twice, and for the values never: they are NULL then, and the     *)
(* program dies when the old values are copied there or the next is added, *)
(* be it in this call or, if the name was refused, in a later one.  So it  *)
(* does in a document that is read and in an object that is copied.  (An   *)
(* object left so is not told apart from one that is empty.)               *)
DiesGrowing ==
  /\ \/ Room(2)
     \/ \E o \in Of("object") :
          /\ Unused(heap) # {} \/ Loose(o) # {}
          /\ \/ heap[o].items = << >>
             \/ Grown(heap[o]) # heap[o].capacity /\ Grown(heap[o]) <= Limit(heap[o])
  /\ heap' = [v \in Values |-> Free]
  /\ held' = {}

ObjectCalls ==
  \E o \in Of("object"), mem \in Memory :
    \/ \E path \in Paths, v \in Loose(o) : SetValue(o, path, v, mem)
    \/ \E n \in Names : json_object_set_scalar(o, n, mem)
    \/ \E path \in Paths : json_object_dotset_scalar(o, path, mem)
    \/ \E path \in Paths : json_object_dotremove(o, path)
    \/ json_clear(o)

ArrayCalls ==
  \E a \in Of("array") :
    \/ \E v \in Loose(a), mem \in Memory : json_array_append_value(a, v, mem)
    \/ \E mem \in Memory : json_array_append_scalar(a, mem)
    \/ \E i \in DOMAIN heap[a].items :
         \/ json_array_remove(a, i)
         \/ json_array_replace_scalar(a, i)
         \/ \E v \in Loose(a) : json_array_replace_value(a, i, v)
    \/ json_clear(a)

Next ==
  \/ \E type \in {"object", "array", "scalar"} : json_value_init(Block(type, << >>, << >>, 0))
  \/ \E v \in held : FreeValue(v)
  \/ \E v \in Owned : json_value_deep_copy(v)
  \/ \E names \in {p \in Paths : IsInjective(p)} :
       ParseContainer("object", names, Len(names)) \/ ParseContainer("array", << >>, Len(names))
  \/ \E lost \in SUBSET Unused(heap) : ParseRefused(lost)
  \/ ObjectCalls
  \/ ArrayCalls
  \/ DiesGrowing

Spec == Init /\ [][Next]_vars

-----------------------------------------------------------------------------
Live == {v \in Values : heap[v].type # "free"}

(* As long as the program lives, an object has as many names as values,    *)
(* its names are distinct, whatever is added, refused, moved by a removal  *)
(* or made along a dotted name; no container has more entries than places, *)
(* nor more places than allowed.  (When the places of an object's values   *)
(* cannot be had, the code writes to NULL: see DiesGrowing.)               *)
TypeOK ==
  /\ held \subseteq Live
  /\ \A v \in Live :
       LET b == heap[v] IN
       /\ b.type \in {"object", "array", "scalar"}
       /\ b.names \in Seq(Names) /\ IsInjective(b.names)
       /\ Len(b.names) = (IF b.type = "object" THEN Len(b.items) ELSE 0)
       /\ b.type = "scalar" => b.items = << >>
       /\ b.capacity \in Len(b.items) .. Limit(b)

(* The places a block is owned from. *)
PlacesOf(v) ==
  UNION {{<< c, i >> : i \in {j \in DOMAIN heap[c].items : heap[c].items[j] = v}} : c \in Values}

(* No container holds a value that was freed, no two places the same       *)
(* value, and what the caller owns is in no container: so nothing is freed *)
(* twice, and nothing is used after it was.                                *)
OneOwner ==
  \A v \in Values :
    /\ v \in Live => Cardinality(PlacesOf(v)) + (IF v \in held THEN 1 ELSE 0) <= 1
    /\ v \notin Live => PlacesOf(v) = {} /\ v \notin held

(* A value that was set under a dotted name is found there; and set or     *)
(* refused, it changes nothing of what other dotted names lead to, neither *)
(* the objects on the way nor the entries beside them.                     *)
SetIsFound ==
  \A o \in Of("object"), path \in Paths, mem \in Memory : \A v \in Loose(o) :
    LET r == json_object_dotset_value(heap, o, path, v, mem)
    IN /\ r.ok => json_object_dotget_value(r.heap, o, path) = v
       /\ \A q \in Paths :
            LET found == json_object_dotget_value(heap, o, q)
            IN \/ found = None
               \/ r.ok /\ IsPrefix(path, q)
               \/ json_object_dotget_value(r.heap, o, q) = found

(* What nobody can free any more. *)
Lost == Live \ Owned

(* Memory is lost in two places only: a set of a string, number, boolean   *)
(* or null that is refused, and the reading of a document an entry of      *)
(* which is refused, by a repeated name, a limit or want of memory.        *)
LossOnlyWhere ==
  [][ ~ Lost' \subseteq Lost =>
        \/ \E lost \in SUBSET Unused(heap) : ParseRefused(lost)
        \/ \E o \in Of("object"), n \in Names, mem \in Memory : json_object_set_scalar(o, n, mem) ]_vars

(* What a program sees of the values: which are its own, and what is in    *)
(* each, an object's entries by name, an array's in no order.              *)
Content(v) ==
  {<< IF heap[v].type = "object" THEN heap[v].names[i] ELSE None, heap[v].items[i] >> :
     i \in DOMAIN heap[v].items}

Contents == LET owned == Owned IN [v \in Values |-> IF v \in owned THEN Content(v) ELSE None]

Store == INSTANCE JsonStore WITH roots <- held, content <- Contents

ImplementsStore == Store!Spec

=============================================================================
