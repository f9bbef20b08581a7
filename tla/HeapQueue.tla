------------------------------- MODULE HeapQueue -------------------------------
(***************************************************************************)
(* What order.c relies on: a set of elements from which the root, an       *)
(* element with the least key, is read and removed, and which keeps every  *)
(* other element.                                                          *)
(***************************************************************************)
EXTENDS Integers

CONSTANTS Elems, Keys, Nobody

VARIABLES
    queue,  \* the elements
    key,    \* key[e]: what elements are compared by
    root    \* the element min_heap_peek() returns, or Nobody

qvars == <<queue, key, root>>

IsRoot(r, q, k) == IF q = {} THEN r = Nobody ELSE r \in q /\ \A e \in q : k[r] <= k[e]

QInit ==
    /\ queue = {}
    /\ key \in [Elems -> Keys]
    /\ root = Nobody

Fill ==
    /\ queue = {}
    /\ queue' \in SUBSET Elems
    /\ UNCHANGED key

Add(e) ==
    /\ queue' = queue \cup {e}
    /\ UNCHANGED key

Drop(e) ==
    /\ e \in queue
    /\ queue' = queue \ {e}
    /\ UNCHANGED key

Pop == Drop(root)

Replace(e) ==
    /\ root \in queue
    /\ queue' = (queue \ {root}) \cup {e}
    /\ UNCHANGED key

Change(k) ==
    /\ root \in queue
    /\ key' = [key EXCEPT ![root] = k]
    /\ UNCHANGED queue

QNext ==
    /\ \/ Fill
       \/ \E e \in Elems : Add(e) \/ Drop(e) \/ Replace(e)
       \/ \E k \in Keys : Change(k)
    /\ IsRoot(root', queue', key')

QSpec == QInit /\ [][QNext]_qvars
================================================================================
