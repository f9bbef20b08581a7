----------------------------- MODULE MCEventSpread -----------------------------
(* EventSpread for TLC: one tcp client that the sender outruns, two clients *)
(* that come and go, a virtio port, and a sender whose order_process() ends *)
(* early between two ticks.                                                 *)
EXTENDS EventSpread

E(type, order, clients, events) ==
    [type |-> type, order |-> order, match |-> TRUE, clients |-> clients, events |-> events,
     ticks |-> 1, ends |-> {"TARGET"}]
Streams ==
    {E("tcp", FALSE, {1}, 4), E("tcp", TRUE, {1}, 3), E("cdev", FALSE, {1}, 3), E("tcp", FALSE, {1, 2}, 1)}
    \cup {[E("tcp", o, {1}, 1) EXCEPT !.match = FALSE] : o \in BOOLEAN}
    \cup {[E("tcp", FALSE, {1}, 2) EXCEPT !.ticks = 2, !.ends = Ends]}
================================================================================
