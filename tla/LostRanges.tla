----------------------------- MODULE LostRanges -----------------------------
(***************************************************************************)
(* The list of losses that the profilers which need an ordered stream keep *)
(* (lost_list of task-state, kmemleak and blktrace).  With --order a loss  *)
(* is known before the events around it are processed: lost() notes the    *)
(* range (start, end) in which events are missing, and every sample is     *)
(* first compared with the noted ranges.  The three profilers have the     *)
(* same list handling; what differs is what they do when the state they    *)
(* built before the loss becomes useless ("reclaim").                      *)
(***************************************************************************)
EXTENDS Naturals, Sequences, SequencesExt

(* struct task_lost_node, the members that matter here. *)
LostNode(start, end) == [start |-> start, end |-> end, reclaim |-> FALSE]

(* The list stays sorted by start_time; equal ones in order of arrival.    *)
LostInsert(list, start, end) ==
  LET i == SelectInSeq(list, LAMBDA pos : pos.start > start)
  IN  InsertAt(list, IF i = 0 THEN Len(list) + 1 ELSE i, LostNode(start, end))

(* mutation: a range that no event fell into throws nothing away *)
EventLostInside(list, t) ==
  LET i    == SelectInSeq(list, LAMBDA l : t <= l.start \/ t < l.end)
      drop == i # 0 /\ t > list[i].start
      rest == IF i = 0 THEN << >> ELSE SubSeq(list, i, Len(list))
  IN  [list    |-> IF drop THEN [rest EXCEPT ![1].reclaim = TRUE] ELSE rest,
       drop    |-> drop,
       reclaim |-> drop /\ ~list[i].reclaim]

(***************************************************************************)
(* An event of time t meets the list.  The walk stops at the first range   *)
(* that starts at or after t, or that t lies in; the ranges before it are  *)
(* over and are removed.  `drop': the event lies in a range and must not   *)
(* be used.  `reclaim': some range was entered for the first time, the     *)
(* state of before is thrown away.                                         *)
(***************************************************************************)
EventLost(list, t) ==
  LET i       == SelectInSeq(list, LAMBDA l : t <= l.start \/ t < l.end)
      drop    == i # 0 /\ t > list[i].start
      rest    == IF i = 0 THEN << >> ELSE SubSeq(list, i, Len(list))
      entered == {k \in DOMAIN list : (i = 0 \/ k < i) \/ (k = i /\ drop)}
  IN  [list    |-> IF drop THEN [rest EXCEPT ![1].reclaim = TRUE] ELSE rest,
       drop    |-> drop,
       reclaim |-> \E k \in entered : ~list[k].reclaim]

=============================================================================
