-------------------------------- MODULE MinHeap --------------------------------
(***************************************************************************)
(* The binary heap of include/linux/min_heap.h, as order.c uses it.  The   *)
(* heap is an array; positions are byte offsets, as in the code, so that   *)
(* the arithmetic of parent() is the one that runs.                        *)
(***************************************************************************)
EXTENDS Integers, Sequences, FiniteSets, SequencesExt

CONSTANTS
    Elems,      \* the heap events, numbered in the order of heap_event_list
    Keys,       \* their times
    elem_size,  \* the size of an array element in bytes
    lsbit,      \* elem_size & -elem_size
    Nobody      \* NULL

ASSUME MinHeapAssumption ==
    /\ Elems \subseteq Int /\ Keys \subseteq Int
    /\ {elem_size, lsbit} \subseteq Nat \ {0}
    /\ elem_size % lsbit = 0 /\ (elem_size \div lsbit) % 2 = 1
    /\ Nobody \notin Elems

VARIABLES
    data,  \* heap->data[0 .. heap->nr)
    key    \* heap_event->time

vars == <<data, key>>

------------------------------------------------------------------------------
(* (i & lsbit) # 0 *)
OddMultiple(i) == (i \div lsbit) % 2 = 1

parent(i) ==
    LET j == i - elem_size
    IN  (IF OddMultiple(j) THEN j - elem_size ELSE j) \div 2

Elem(d, off) == d[off \div elem_size + 1]
do_swap(d, a, b) ==
    [d EXCEPT ![a \div elem_size + 1] = Elem(d, b), ![b \div elem_size + 1] = Elem(d, a)]

less_than(k, d, a, b) == k[Elem(d, a)] < k[Elem(d, b)]

(* Sift down: follow the smaller child to a leaf, come back to the place,  *)
(* and move the element there.                                             *)
LeafBelowNoLast(d, k, a) ==
    LET n == Len(d) * elem_size
        path[b \in Nat] ==
            LET c == 2 * b + elem_size
            IN  IF c + elem_size < n
                THEN path[IF less_than(k, d, c, c + elem_size) THEN c ELSE c + elem_size]
                ELSE b
    IN  path[a]

LeafBelow(d, k, a) ==
    LET n == Len(d) * elem_size
        path[b \in Nat] ==
            LET c == 2 * b + elem_size
            IN  IF c + elem_size < n
                THEN path[IF less_than(k, d, c, c + elem_size) THEN c ELSE c + elem_size]
                ELSE IF c + elem_size = n THEN c ELSE b
    IN  path[a]

sift_down(d, k, pos) ==
    LET a == pos * elem_size
        place[b \in Nat] ==
            IF b # a /\ less_than(k, d, a, b) THEN place[parent(b)] ELSE b
        c == place[LeafBelow(d, k, a)]
        (* one swap of c with each ancestor, a last *)
        shift[b \in Nat] ==
            IF b = a THEN <<>> ELSE <<parent(b)>> \o shift[parent(b)]
    IN  FoldLeft(LAMBDA acc, b : do_swap(acc, b, c), d, shift[c])

sift_up(d, k, idx) ==
    LET up[a \in Nat] ==
            IF a = 0 THEN <<>>
            ELSE IF k[Elem(d, parent(a))] < k[d[idx + 1]] THEN <<>>
            ELSE <<<<a, parent(a)>>>> \o up[parent(a)]
    IN  FoldLeft(LAMBDA acc, ab : do_swap(acc, ab[1], ab[2]), d, up[idx * elem_size])

(* Floyd: sift down every inner node, the last one first. *)
heapify_all(d, k) ==
    LET inner == Len(d) \div 2
    IN  FoldLeft(LAMBDA acc, i : sift_down(acc, k, inner - i), d, [i \in 1..inner |-> i])

------------------------------------------------------------------------------
min_heap_peek == IF data = <<>> THEN Nobody ELSE data[1]

(* order_heap_init() fills the empty array, order_process() heapifies it. *)
min_heapify_all(q) ==
    /\ data = <<>>
    /\ data' = heapify_all(SetToSortSeq(q, <), key)
    /\ UNCHANGED key

(* The root has a new time. *)
min_heap_sift_down(t) ==
    /\ data # <<>>
    /\ key' = [key EXCEPT ![data[1]] = t]
    /\ data' = sift_down(data, key', 0)

(* The last element replaces the root. *)
min_heap_pop ==
    /\ data # <<>>
    /\ LET nr == Len(data) - 1
           moved == IF nr = 0 THEN <<>> ELSE <<data[nr + 1]>> \o SubSeq(data, 2, nr)
       IN  data' = IF nr = 0 THEN <<>> ELSE sift_down(moved, key, 0)
    /\ UNCHANGED key

(* A new element replaces the root. *)
min_heap_pop_push(e) ==
    /\ data # <<>> /\ ~Contains(data, e)
    /\ data' = sift_down([data EXCEPT ![1] = e], key, 0)
    /\ UNCHANGED key

min_heap_push(e) ==
    /\ ~Contains(data, e)
    /\ data' = sift_up(Append(data, e), key, Len(data))
    /\ UNCHANGED key

DelSift(d, idx) == sift_down(sift_up(d, key, idx), key, idx)

min_heap_del(idx) ==
    /\ LET nr == Len(data) - 1
       IN  data' = IF idx = nr THEN Front(data)
                   ELSE DelSift(Front([data EXCEPT ![idx + 1] = Last(data)]), idx)
    /\ UNCHANGED key

(* When order_process() stops it takes the elements off the end. *)
stream_stop ==
    /\ data # <<>>
    /\ data' = Front(data)
    /\ UNCHANGED key

Init ==
    /\ data = <<>>
    /\ key \in [Elems -> Keys]

Next ==
    \/ \E q \in SUBSET Elems : min_heapify_all(q)
    \/ \E t \in Keys : min_heap_sift_down(t)
    \/ min_heap_pop \/ stream_stop
    \/ \E e \in Elems : min_heap_push(e) \/ min_heap_pop_push(e)
    \/ \E idx \in 0..(Len(data) - 1) : min_heap_del(idx)

Spec == Init /\ [][Next]_vars

------------------------------------------------------------------------------
(* The array implements the queue of order.c.  No element is lost or       *)
(* doubled, by whatever path it moves; min_heap_peek() is one with the     *)
(* least time, and it is the one that pop takes away or replaces.          *)
Q == INSTANCE HeapQueue WITH queue <- ToSet(data), root <- min_heap_peek
Implements ==
    /\ Q!QSpec
    /\ [](Cardinality(ToSet(data)) = Len(data))
    /\ [][/\ min_heap_pop => Q!Pop
          /\ \A e \in Elems : min_heap_pop_push(e) => Q!Replace(e)]_vars
================================================================================
