---------------------------- MODULE MCMultiTrace ----------------------------
(* MultiTrace for the command lines that differ in what they make the       *)
(* profiler do.                                                             *)
EXTENDS MultiTrace

\* The event of level l of tp_list, on instance i with key k.
Event(i, k, l) ==
    [ins |-> i, key |-> k, level |-> l, untraced |-> FALSE, as1 |-> TRUE, as2 |-> TRUE]
Untraced(i, k) == [Event(i, k, 0) EXCEPT !.untraced = TRUE]
Unnecessary(e) == [e EXCEPT !.as1 = FALSE]

\* Two levels of events with a common key from two ring buffers, --order.
Keyed(detail, before, after) ==
    [detail |-> detail, before_event1 |-> before, after_event2 |-> after,
     order |-> TRUE, late |-> FALSE, cycle |-> FALSE, perins |-> FALSE, nr_list |-> 2, max_losses |-> 1,
     events |-> {Event(1, 1, 0), Event(2, 1, 1), Untraced(2, 2)}]
\* The instance is the key.
PerIns(detail, before, after) ==
    [Keyed(detail, before, after) EXCEPT
        !.perins = TRUE, !.events = {Event(1, 1, 0), Event(1, 1, 1), Event(2, 2, 0)}]

CommandLines ==
    {\* two losses, in the common list and in those of the instances
     [Keyed(TRUE, 2, 1) EXCEPT !.max_losses = 2], [PerIns(TRUE, 0, 1) EXCEPT !.max_losses = 2],
     \* no --order: perf-prof syscalls, on two threads
     [PerIns(FALSE, 0, 0) EXCEPT !.order = FALSE, !.events = @ \cup {Event(1, 1, 2)}],
     \* three levels, and --cycle with roles
     [Keyed(FALSE, 0, 0) EXCEPT !.nr_list = 3, !.events = {Event(1, 1, 0), Event(2, 1, 1), Event(2, 2, 0)}],
     [Keyed(TRUE, 1, 0) EXCEPT !.cycle = TRUE,
                               !.events = {Event(1, 1, 0), Unnecessary(Event(1, 1, 0)), Event(2, 1, 1)}],
     \* no --order: one ring buffer, with late events
     [Keyed(TRUE, 0, 1) EXCEPT !.order = FALSE, !.late = TRUE, !.events = {Event(1, 1, 0), Event(1, 1, 1)}]}
=============================================================================
