------------------------------- MODULE Kmemleak -------------------------------
(***************************************************************************)
(* The kmemleak profiler: allocations are kept until the free of the same  *)
(* pointer arrives, what is left at the end, or when events are lost, is   *)
(* reported as leaked.  Without --order the events of different CPUs       *)
(* arrive in any order: a free that finds no allocation waits in gc_free   *)
(* for one second (Sec).  With --order they arrive in time order and       *)
(* losses are announced in advance (module LostRanges).                    *)
(*                                                                         *)
(* The allocator of the kernel is the environment: `live' and `frees' are  *)
(* what really happens.                                                    *)
(***************************************************************************)
EXTENDS LostRanges, FiniteSets

CONSTANTS
  Ptrs,        \* addresses
  Cpus,        \* ring buffers
  Sec,         \* NSEC_PER_SEC
  MaxTime,     \* bound: events of the kernel
  MaxLost      \* bound: losses

VARIABLES
  mode,        \* "none" before init(), then "order" or "plain" (no --order)
  exited,      \* kmemleak_exit() was called
  alloc,       \* ctx->alloc: set of [ptr, time]
  gc_free,     \* ctx->gc_free: frees without an allocation, [ptr, time]
  lost_list,   \* ctx->lost_list
  clock, window, losses,
  queue,       \* per CPU: events on their way, without --order
  live,        \* per pointer: time of its allocation, 0 if it is free
  frees,       \* history: [ptr, time of the allocation, time of the free]
  seen,        \* history: allocations processed since the last report
  leaks,       \* what the last step reported
  expect       \* what the last step had to report

world == <<clock, queue, live, frees>>
vars  == <<mode, exited, alloc, gc_free, lost_list, window, losses, world, seen, leaks, expect>>

(* mutation: a free takes an allocation of any time *)
FindAnyTime(allocs, ptr, t) == {a \in allocs : a.ptr = ptr}

(* rblist__find() with insert = 0: some allocation of the pointer that is  *)
(* not younger.  Which one of several depends on the shape of the tree.    *)
Find(allocs, ptr, t) == {a \in allocs : a.ptr = ptr /\ a.time <= t}

(* gc_free is sorted by time, then pointer. *)
First(gc) == CHOOSE f \in gc : \A g \in gc : f.time < g.time \/ (f.time = g.time /\ f.ptr <= g.ptr)

(* One older than a second, and not the only one. *)
gc_need_free(gc, t) == Cardinality(gc) > 1 /\ t > First(gc).time + Sec

(* __gc_free_first(): the results it may have. *)
GcFirst(s) ==
  LET f == First(s.gc)
      m == Find(s.alloc, f.ptr, f.time)
  IN  {[alloc |-> s.alloc \ x, gc |-> s.gc \ {f}] :
         x \in IF m = {} THEN {{}} ELSE {{a} : a \in m}}

(* gc_free() at an event of time t; all of the list if t is 0. *)
RECURSIVE GcLoop(_, _)
GcLoop(s, t) ==
  IF IF t = 0 THEN s.gc # {} ELSE gc_need_free(s.gc, t)
  THEN UNION {GcLoop(x, t) : x \in GcFirst(s)}
  ELSE {s}

(* report_kmemleak(): what waits is matched, what remains is reported, and *)
(* the list of allocations is emptied.                                     *)
Report(s) == {[alloc |-> {}, gc |-> {}, leaks |-> x.alloc] : x \in GcLoop(s, 0)}

(* lost_reclaim(). *)
Reclaim(s) == IF s.alloc # {} THEN Report(s) ELSE {[alloc |-> {}, gc |-> {}, leaks |-> {}]}

(* kmemleak_sample(), the part after kmemleak_event_lost(). *)
Process(s, e) ==
  LET o == [ptr |-> e.ptr, time |-> e.time]
      m == Find(s.alloc, e.ptr, e.time)
  IN  IF e.ev = "alloc" THEN {[alloc |-> s.alloc \cup {o}, gc |-> s.gc]}
      ELSE IF m = {} THEN GcLoop([alloc |-> s.alloc, gc |-> s.gc \cup {o}], e.time)
      ELSE {[alloc |-> s.alloc \ {a}, gc |-> s.gc] : a \in m}
-----------------------------------------------------------------------------
FreedBy(a, t) == \E f \in frees : f.ptr = a.ptr /\ f.time = a.time /\ f.at <= t

(* A report shows the state at time t. *)
Expected(t) == {a \in seen : ~FreedBy(a, t)}

Begin == [alloc |-> alloc, gc |-> gc_free]

(* kmemleak_sample() of event e. *)
Sample(e) ==
  LET el    == EventLost(lost_list, e.time)
      first == SelectInSeq(lost_list, LAMBDA l : ~l.reclaim)
      obj   == [ptr |-> e.ptr, time |-> e.time]
      old   == IF el.reclaim THEN {} ELSE seen
  IN  /\ lost_list' = el.list
      /\ \E r \in IF el.reclaim THEN Reclaim(Begin)
                  ELSE {[alloc |-> alloc, gc |-> gc_free, leaks |-> {}]} :
           \E x \in IF el.drop THEN {r} ELSE Process(r, e) :
             /\ alloc' = x.alloc
             /\ gc_free' = x.gc
             /\ leaks' = r.leaks
      /\ expect' = IF el.reclaim THEN Expected(lost_list[first].start) ELSE {}
      /\ seen' = IF e.ev = "alloc" /\ ~el.drop THEN old \cup {obj} ELSE old

Quiet == /\ leaks' = {} /\ expect' = {}
         /\ UNCHANGED <<alloc, gc_free, lost_list, seen>>

(* kmemleak_lost() without --order: report at once. *)
LostPlain ==
  /\ \E r \in Reclaim(Begin) : alloc' = r.alloc /\ gc_free' = r.gc /\ leaks' = r.leaks
  /\ seen' = {}
  /\ expect' = {a \in seen : live[a.ptr] = a.time}
  /\ UNCHANGED lost_list
-----------------------------------------------------------------------------
Open(order) ==
  /\ mode = "none"
  /\ mode' = IF order THEN "order" ELSE "plain"
  /\ Quiet /\ UNCHANGED <<exited, world, window, losses>>

Lost(c, t) == window[c].start < t /\ t < window[c].end

(* An allocation or a free on CPU c.  Without --order it is queued, or     *)
(* lost and a PERF_RECORD_LOST queued; nothing is on its way for longer    *)
(* than the second the code allows for.                                    *)
Memory(c, ev, p, lose) ==
  LET t == clock + 1
      e == [ev |-> ev, ptr |-> p, time |-> t]
  IN  /\ clock < MaxTime /\ ~exited
      /\ (ev = "alloc") = (live[p] = 0)
      /\ clock' = t
      /\ live' = [live EXCEPT ![p] = IF ev = "alloc" THEN t ELSE 0]
      /\ frees' = IF ev = "free" THEN frees \cup {[ptr |-> p, time |-> live[p], at |-> t]}
                  ELSE frees
      /\ \/ /\ mode = "order" /\ ~lose
            /\ IF Lost(c, t) THEN Quiet ELSE Sample(e)
            /\ UNCHANGED <<queue, losses>>
         \/ /\ mode = "plain"
            /\ \A d \in Cpus : queue[d] # << >> => t - Head(queue[d]).time <= Sec
            /\ lose => losses < MaxLost
            /\ losses' = IF lose THEN losses + 1 ELSE losses
            /\ queue' = [queue EXCEPT ![c] = Append(@, IF lose THEN [e EXCEPT !.ev = "lost"] ELSE e)]
            /\ Quiet
      /\ UNCHANGED <<mode, exited, window>>

(* Without --order: the next record of a ring buffer is read. *)
Read(c) ==
  /\ mode = "plain" /\ queue[c] # << >>
  /\ queue' = [queue EXCEPT ![c] = Tail(@)]
  /\ IF Head(queue[c]).ev = "lost" THEN LostPlain ELSE Sample(Head(queue[c]))
  /\ UNCHANGED <<mode, exited, clock, live, frees, window, losses>>

(* kmemleak_lost() with --order. *)
LostOrder(c, start, end) ==
  /\ mode = "order" /\ ~exited /\ losses < MaxLost
  /\ start \in clock .. MaxTime - 1 /\ end \in start + 2 .. MaxTime
  /\ start >= window[c].end
  /\ window' = [window EXCEPT ![c] = [start |-> start, end |-> end]]
  /\ lost_list' = LostInsert(lost_list, start, end)
  /\ losses' = losses + 1
  /\ leaks' = {} /\ expect' = {}
  /\ UNCHANGED <<mode, exited, alloc, gc_free, seen, world>>

(* kmemleak_exit(), after the final flush: every event has been processed, *)
(* the one that ends a loss included.                                      *)
Exit ==
  /\ mode # "none" /\ ~exited
  /\ \A c \in Cpus : queue[c] = << >> /\ window[c].end <= clock
  /\ exited' = TRUE
  /\ \E r \in Report(Begin) : alloc' = r.alloc /\ gc_free' = r.gc /\ leaks' = r.leaks
  /\ expect' = Expected(clock)
  /\ seen' = {}
  /\ UNCHANGED <<mode, lost_list, world, window, losses>>
-----------------------------------------------------------------------------
Init ==
  /\ mode = "none" /\ exited = FALSE
  /\ alloc = {} /\ gc_free = {} /\ lost_list = << >>
  /\ clock = 0 /\ losses = 0
  /\ window = [c \in Cpus |-> [start |-> 0, end |-> 0]]
  /\ queue = [c \in Cpus |-> << >>]
  /\ live = [p \in Ptrs |-> 0] /\ frees = {}
  /\ seen = {} /\ leaks = {} /\ expect = {}

Next ==
  \/ \E order \in BOOLEAN : Open(order)
  \/ \E c \in Cpus, ev \in {"alloc", "free"}, p \in Ptrs, lose \in BOOLEAN : Memory(c, ev, p, lose)
  \/ \E c \in Cpus : Read(c)
  \/ \E c \in Cpus, start, end \in 0 .. MaxTime : LostOrder(c, start, end)
  \/ Exit
-----------------------------------------------------------------------------
(* A report is exact.  An object that was allocated, with an event the     *)
(* profiler processed, and not freed by the moment the report is about is  *)
(* in it, in whatever order the events of the CPUs arrive and whatever     *)
(* frees wait in gc_free; and nothing else is.  The second half needs an   *)
(* ordered stream: without --order a late free may take an older           *)
(* allocation of the same pointer, and a free may be lost.                 *)
Reused(p) == Cardinality({f \in frees : f.ptr = p}) + (IF live[p] = 0 THEN 0 ELSE 1) > 1
ReportExact ==
  /\ expect \subseteq leaks
  /\ \A a \in leaks \ expect : mode = "plain" /\ (losses > 0 \/ Reused(a.ptr))
=============================================================================
