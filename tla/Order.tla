------------------------------- MODULE Order -------------------------------
(***************************************************************************)
(* The heap sort of order.c: the per-CPU (or per-thread) kernel ring       *)
(* buffers of a device, and the event streams pulled from other perf-prof  *)
(* instances, are merged into one time-ordered sequence of events while    *)
(* the kernel keeps writing.                                               *)
(*                                                                         *)
(* The kernel, the senders of the streams and the main loop interleave.    *)
(* One call of order_process() is a session of steps: OrderMmap (read_init)*)
(* and BeginMmap or EmptyMmap (the test for an empty ring buffer),         *)
(* InitStream/InitMap (order_heap_init), then Sort, Consume and Read in    *)
(* turn (the loop), and Unwind (the label stream_stop).  A step of the     *)
(* session ends wherever the code reads the kernel's head pointer or       *)
(* releases ring-buffer space.                                             *)
(*                                                                         *)
(* Abstractions.  A record takes one unit of ring-buffer space whatever    *)
(* its type; a position is the number of records before it.  In the        *)
(* non-overwrite mode modelled here map->start and map->prev are equal     *)
(* whenever they are used, and are one variable, start.  The binary heap   *)
(* is the set of queued elements, of which any one with the least time may *)
(* come first (module MinHeap checks that the array implements that).       *)
(***************************************************************************)
EXTENDS Integers, Sequences, FiniteSets

CONSTANTS
    Maps,         \* perf_mmap ring buffers, one per instance
    Streams,      \* stream_event queues (pull= attribute)
    RingSize,     \* map->mask + 1, in records
    Watermark,    \* dev->order.wakeup_watermark, in records
    MaxClock,     \* bound: samples the kernel takes
    MaxNest,      \* bound: samples of one ring buffer with a delayed output
    MaxOther,     \* bound: non-sample records the kernel writes
    MaxStream,    \* bound: events a stream carries
    MaxTick,      \* bound: ticks of the perf-clock service
    MayDisable,   \* whether the device is ever disabled
    NoMap         \* no map

ASSUME OrderAssumption ==
    /\ Maps \cap Streams = {}
    /\ NoMap \notin Maps \cup Streams
    /\ RingSize \in Nat \ {0}
    /\ Watermark \in Nat
    /\ MayDisable \in BOOLEAN
    /\ {MaxClock, MaxNest, MaxOther, MaxStream, MaxTick} \subseteq Nat

Queues == Maps \cup Streams

VARIABLES
    \* The kernel side of the ring buffers.
    clock,     \* perf clock; every sample takes a new value
    inflight,  \* per map: times of the samples not yet output
    rb,        \* per map: all the records ever written
    klost,     \* per map: the samples lost and not yet announced
    others,    \* non-sample records written
    nticks,    \* ticks taken by the perf-clock service
    ticks,     \* those in its ring buffer
    \* struct perf_mmap
    tail,      \* data_tail, the space released by perf_mmap__consume()
    start, end,
    \* struct perf_mmap_event
    event_mono_time, maybe_lost_end, lost_pause,
    \* struct heap_event and the heap
    htime,     \* heap_event->time
    heap,      \* the elements of heap->data
    \* struct stream_event and the block it reads from
    slog,      \* per stream: the times of the events received so far
    sbatch,    \* per stream: the end of the batch being read
    spos,      \* per stream: the events read
    unconsumed,
    \* struct order_ctx
    heap_popped_time, prev_lost_time, break_reason,
    unordered_events, fixed_events,   \* nr_..._events # 0
    overrun,   \* the latest time popped by a call that had no limit (history)
    \* one call of order_process()
    pc, todo, cur, target_map, target_end, target_time, lost, need_break,
    \* the callers: perf_clock_sample() and prof_dev_disable()
    order_time, phase, toflush,
    \* what the profiler has seen
    delivered, \* per map: positions given to perf_event_process_record()
    reports    \* calls of prof->lost()

ringKernelVars == <<clock, inflight, rb, klost, others>>
kernelVars == <<ringKernelVars, nticks, ticks>>
ringVars   == <<tail, start, end>>
mmapVars   == <<event_mono_time, maybe_lost_end, lost_pause>>
heapVars   == <<htime, heap>>
streamVars == <<slog, sbatch, spos, unconsumed>>
sortVars   == <<heap_popped_time, prev_lost_time, unordered_events, overrun>>
targetVars == <<target_map, target_end, target_time>>
callVars   == <<pc, todo, cur, lost, need_break, targetVars>>
callerVars == <<order_time, phase, toflush>>
seenVars   == <<delivered, reports>>
userVars   == <<ringVars, mmapVars, heapVars, sortVars, break_reason,
                fixed_events, callVars, callerVars, seenVars>>
vars       == <<kernelVars, streamVars, userVars>>

NoTime  == -1       \* target_time = -1UL
Reasons == {"NONE", "EMPTY", "LOST_WAIT", "TARGET_MAP", "TARGET_TIME",
            "STREAM_STOP"}

Sample(t) == [type |-> "SAMPLE", time |-> t, lost |-> {}]
Lost(ls)  == [type |-> "LOST", time |-> 0, lost |-> ls]
Other     == [type |-> "OTHER", time |-> 0, lost |-> {}]

CIRC_SPACE(h, t, size) == (t - (h + 1)) % size

Max2(a, b) == IF a >= b THEN a ELSE b

head(m) == Len(rb[m])

Init ==
    /\ clock = 0
    /\ inflight = [m \in Maps |-> <<>>]
    /\ rb = [m \in Maps |-> <<>>]
    /\ klost = [m \in Maps |-> {}]
    /\ others = 0
    /\ nticks = 0
    /\ ticks = <<>>
    /\ tail = [m \in Maps |-> 0]
    /\ start = [m \in Maps |-> 0]
    /\ end = [m \in Maps |-> 0]
    /\ event_mono_time = [m \in Maps |-> 0]
    /\ maybe_lost_end = [m \in Maps |-> 0]
    /\ lost_pause = [m \in Maps |-> FALSE]
    /\ htime = [q \in Queues |-> 0]
    /\ heap = {}
    /\ slog = [s \in Streams |-> <<>>]
    /\ sbatch = [s \in Streams |-> 0]
    /\ spos = [s \in Streams |-> 0]
    /\ unconsumed = [s \in Streams |-> FALSE]
    /\ heap_popped_time = 0
    /\ prev_lost_time = 0
    /\ break_reason = "NONE"
    /\ unordered_events = FALSE
    /\ fixed_events = FALSE
    /\ overrun = 0
    /\ pc = "idle"
    /\ todo = {}
    /\ cur = NoMap
    /\ target_map = NoMap
    /\ target_end = 0
    /\ target_time = NoTime
    /\ lost = {}
    /\ need_break = FALSE
    /\ order_time = 0
    /\ phase = "run"
    /\ toflush = {}
    /\ delivered = [m \in Maps |-> <<>>]
    /\ reports = {}
-----------------------------------------------------------------------------
(* The kernel: the sampling path and __perf_output_begin().                *)

\* `rec' is output to m at time t.  A LOST record in front of it announces
\* what was lost before; without room for both, `rec' is lost as well.
Output(m, rec, t) ==
    LET recs == IF klost[m] = {} THEN <<rec>> ELSE <<Lost(klost[m]), rec>>
    IN  IF CIRC_SPACE(head(m), tail[m], RingSize) >= Len(recs)
        THEN /\ rb' = [rb EXCEPT ![m] = @ \o recs]
             /\ klost' = [klost EXCEPT ![m] = {}]
        ELSE /\ klost' = [klost EXCEPT ![m] = @ \cup {<<m, t>>}]
             /\ UNCHANGED rb

\* A sample takes its time and is output.
KernelSample(m) ==
    /\ phase = "run"
    /\ clock < MaxClock
    /\ clock' = clock + 1
    /\ Output(m, Sample(clock + 1), clock + 1)
    /\ UNCHANGED <<inflight, others, nticks, ticks, streamVars, userVars>>

\* A sample takes its time, and an interrupt delays its output.
KernelSampleBegin(m) ==
    /\ phase = "run"
    /\ clock < MaxClock
    /\ Len(inflight[m]) < MaxNest
    /\ clock' = clock + 1
    /\ inflight' = [inflight EXCEPT ![m] = Append(@, clock + 1)]
    /\ UNCHANGED <<rb, klost, others, nticks, ticks, streamVars, userVars>>

\* The interrupt is over: the innermost delayed sample is output.
KernelSampleEnd(m) ==
    /\ inflight[m] # <<>>
    /\ LET n == Len(inflight[m])
       IN  /\ Output(m, Sample(inflight[m][n]), inflight[m][n])
           /\ inflight' = [inflight EXCEPT ![m] = SubSeq(@, 1, n - 1)]
    /\ UNCHANGED <<clock, others, nticks, ticks, streamVars, userVars>>

\* A record without a time: throttle, fork, comm, ...
KernelOther(m) ==
    /\ phase = "run"
    /\ others < MaxOther
    /\ others' = others + 1
    /\ Output(m, Other, clock)
    /\ UNCHANGED <<clock, inflight, nticks, ticks, streamVars, userVars>>

\* The perf-clock service has a timer event and a ring buffer of its own.
KernelTick ==
    /\ phase = "run"
    /\ clock < MaxClock
    /\ nticks < MaxTick
    /\ nticks' = nticks + 1
    /\ clock' = clock + 1
    /\ ticks' = Append(ticks, clock + 1)
    /\ UNCHANGED <<inflight, rb, klost, others, streamVars, userVars>>

LastOf(s) == IF slog[s] = <<>> THEN 0 ELSE slog[s][Len(slog[s])]

\* An event of a stream arrives.  Its sender has sorted it.
StreamArrive(s, t) ==
    /\ Len(slog[s]) < MaxStream
    /\ LastOf(s) <= t
    /\ slog' = [slog EXCEPT ![s] = Append(@, t)]
    /\ UNCHANGED <<kernelVars, sbatch, spos, unconsumed, userVars>>
-----------------------------------------------------------------------------
(* order_process(): entry.                                                 *)

\* order_process() goes on to order_heap_init().
Begin(map, tend, time) ==
    /\ pc' = "init"
    /\ todo' = Queues
    /\ cur' = NoMap
    /\ target_map' = map
    /\ target_end' = tend
    /\ target_time' = time
    /\ lost' = {}
    /\ need_break' = FALSE
    /\ heap' = {}
    /\ UNCHANGED <<ringKernelVars, nticks, tail, start, mmapVars, htime,
                   streamVars, sortVars, break_reason, fixed_events,
                   order_time, seenVars>>

\* perf_mmap__read_init() on m.  `if (main_dev->order.inprocess) return' is the
\* guard pc = "idle".
Enter(m) ==
    /\ pc = "idle"
    /\ pc' = "entry"
    /\ cur' = m
    /\ end' = [end EXCEPT ![m] = head(m)]
    /\ UNCHANGED <<kernelVars, streamVars, tail, start, mmapVars, heapVars,
                   sortVars, break_reason, fixed_events, todo, lost,
                   need_break, targetVars, order_time, seenVars>>

\* order_mmap(): poll() reports the ring buffer, or the interval timer is due.
OrderMmap(m) ==
    /\ phase = "run"
    /\ Enter(m)
    /\ UNCHANGED <<phase, toflush>>

\* perf_mmap__empty() reads the head pointer again, after read_init.
HasDataWatermark(m) == head(m) - start[m] >= Watermark
HasData(m) == head(m) # start[m]

\* There is data: target_end is the end that read_init has seen.
BeginMmap(m) ==
    /\ pc = "entry"
    /\ cur = m
    /\ HasData(m)
    /\ Begin(m, end[m], NoTime)
    /\ UNCHANGED <<end, ticks, phase, toflush>>

EmptyMmap(m) ==
    /\ pc = "entry"
    /\ cur = m
    /\ ~HasData(m)
    /\ pc' = "idle"
    /\ cur' = NoMap
    /\ UNCHANGED <<kernelVars, streamVars, ringVars, mmapVars, heapVars,
                   sortVars, break_reason, fixed_events, todo, lost,
                   need_break, targetVars, callerVars, seenVars>>

\* order_stream(): a stream has data.
OrderStream ==
    /\ phase = "run"
    /\ pc = "idle"
    /\ \E s \in Streams : Len(slog[s]) > sbatch[s]
    /\ Begin(NoMap, 0, NoTime)
    /\ UNCHANGED <<end, ticks, phase, toflush>>

\* perf_clock_sample(), up to the end of its call of order_to().
OrderTo ==
    /\ phase = "run"
    /\ pc = "idle"
    /\ ticks # <<>>
    /\ ticks' = Tail(ticks)
    /\ heap_popped_time < Head(ticks)
    /\ Begin(NoMap, 0, Head(ticks))
    /\ UNCHANGED <<end, phase, toflush>>

\* perf_clock_sample() announces t to the pull side, by the reason the last
\* order_process() has stored.  last_event_time, of the events of one
\* tracepoint, is not later than heap_popped_time.
Announce(t) ==
    order_time' \in IF break_reason \in {"LOST_WAIT", "STREAM_STOP"}
                    THEN {order_time}
                    ELSE IF heap_popped_time < t THEN {t} ELSE {t, order_time}

\* An event later than the tick has been processed: order_to() is not called.
StaleTick ==
    /\ phase = "run"
    /\ pc = "idle"
    /\ ticks # <<>>
    /\ ticks' = Tail(ticks)
    /\ heap_popped_time >= Head(ticks)
    /\ Announce(Head(ticks))
    /\ UNCHANGED <<ringKernelVars, nticks, streamVars, ringVars, mmapVars,
                   heapVars, sortVars, break_reason, fixed_events, callVars,
                   phase, toflush, seenVars>>

\* prof_dev_disable(): the kernel stops, then prof_dev_flush() runs
\* order_mmap() once on each ring buffer.
Disable ==
    /\ MayDisable
    /\ pc = "idle"
    /\ phase = "run"
    /\ \A m \in Maps : inflight[m] = <<>>
    /\ phase' = "flush"
    /\ toflush' = Maps
    /\ UNCHANGED <<kernelVars, streamVars, ringVars, mmapVars, heapVars,
                   sortVars, break_reason, fixed_events, callVars,
                   order_time, seenVars>>

FlushMap(m) ==
    /\ phase = "flush"
    /\ m \in toflush
    /\ toflush' = toflush \ {m}
    /\ Enter(m)
    /\ UNCHANGED phase
-----------------------------------------------------------------------------
(* order_heap_init(): the streams first, then the ring buffers.            *)

\* The initialisation of q is complete.
InitDone(q) ==
    /\ todo' = todo \ {q}
    /\ cur' = NoMap
    /\ pc' = IF todo = {q} THEN "sort" ELSE "init"

\* read_event(init): only init reads a new batch.
BatchEndAnyTime(s, init) == Len(slog[s])
BatchEnd(s, init) ==
    IF init /\ spos[s] = sbatch[s] THEN Len(slog[s]) ELSE sbatch[s]

\* The next event of s becomes its heap element.
StreamNext(s, init) ==
    /\ spos[s] < BatchEnd(s, init)
    /\ sbatch' = [sbatch EXCEPT ![s] = BatchEnd(s, init)]
    /\ spos' = [spos EXCEPT ![s] = @ + 1]
    /\ htime' = [htime EXCEPT ![s] = slog[s][spos[s] + 1]]

InitStream(s) ==
    /\ pc = "init"
    /\ s \in todo
    /\ heap' = heap \cup {s}
    /\ InitDone(s)
    /\ \/ /\ unconsumed[s]
          /\ unconsumed' = [unconsumed EXCEPT ![s] = FALSE]
          /\ UNCHANGED <<sbatch, spos, htime>>
       \/ /\ ~unconsumed[s]
          /\ StreamNext(s, TRUE)
          /\ UNCHANGED unconsumed
    /\ UNCHANGED <<kernelVars, slog, ringVars, mmapVars, sortVars,
                   break_reason, fixed_events, lost, need_break, targetVars,
                   callerVars, seenVars>>

\* A stream without an event: order_heap_init() returns 1.
InitStreamStop(s) ==
    /\ pc = "init"
    /\ s \in todo
    /\ ~unconsumed[s]
    /\ spos[s] = BatchEnd(s, TRUE)
    /\ break_reason' = "STREAM_STOP"
    /\ pc' = "unwind"
    /\ UNCHANGED <<kernelVars, streamVars, ringVars, mmapVars, heapVars,
                   sortVars, fixed_events, todo, cur, lost, need_break,
                   targetVars, callerVars, seenVars>>

\* perf_mmap_event_init() runs on m: the streams are ready, and it is not in
\* the retry loop of another map.
InitOn(m) ==
    /\ pc = "init"
    /\ todo \cap Streams = {}
    /\ m \in todo
    /\ cur \in {m, NoMap}
    /\ end' = [end EXCEPT ![m] = head(m)]
    /\ UNCHANGED <<kernelVars, streamVars, mmapVars, sortVars, break_reason,
                   need_break, targetVars, callerVars>>

\* The record at start[m].
Next1(m) == rb[m][start[m] + 1]

InitEmpty(m) ==
    /\ InitOn(m)
    /\ start[m] = head(m)
    /\ InitDone(m)
    /\ lost' = {}
    /\ UNCHANGED <<start, tail, heapVars, fixed_events, seenVars>>

\* A record without a time is processed or, if LOST, remembered, and consumed.
InitRecord(m) ==
    /\ InitOn(m)
    /\ start[m] < head(m)
    /\ Next1(m).type # "SAMPLE"
    /\ cur' = m
    /\ start' = [start EXCEPT ![m] = @ + 1]
    /\ tail' = [tail EXCEPT ![m] = start[m] + 1]
    /\ \/ /\ Next1(m).type = "LOST"
          /\ lost' = Next1(m).lost
          /\ UNCHANGED delivered
       \/ /\ Next1(m).type = "OTHER"
          /\ delivered' = [delivered EXCEPT ![m] = Append(@, start[m] + 1)]
          /\ UNCHANGED lost
    /\ UNCHANGED <<heapVars, fixed_events, pc, todo, reports>>

\* prof->lost() is told of the loss that is remembered.
Reported(m, to) ==
    IF lost = {} THEN reports
    ELSE reports \cup {[map |-> m, lost |-> lost,
                        from |-> event_mono_time[m], to |-> to]}

ReportNoReset(m, to) ==
    /\ reports' = Reported(m, to)
    /\ UNCHANGED lost
Report(m, to) ==
    /\ reports' = Reported(m, to)
    /\ lost' = {}

\* The first sample of m joins the heap.  "Keep order at init": its time is
\* raised to heap_popped_time.
InitTimeRaw(t) == t
InitTime(t) == Max2(t, heap_popped_time)

InitSample(m) ==
    /\ InitOn(m)
    /\ start[m] < head(m)
    /\ Next1(m).type = "SAMPLE"
    /\ InitDone(m)
    /\ start' = [start EXCEPT ![m] = @ + 1]
    /\ heap' = heap \cup {m}
    /\ htime' = [htime EXCEPT ![m] = InitTime(Next1(m).time)]
    /\ fixed_events' = (fixed_events \/ Next1(m).time < heap_popped_time)
    /\ Report(m, InitTime(Next1(m).time))
    /\ UNCHANGED <<tail, delivered>>
-----------------------------------------------------------------------------
(* The loop of order_process().                                            *)

\* q is the root of the heap.
Peek(q) ==
    /\ pc = "sort"
    /\ q \in heap
    /\ \A r \in heap : htime[q] <= htime[r]

\* The loop is left for one of the order_break_reasons.
Break(reason) ==
    /\ pc' = "unwind"
    /\ break_reason' = reason
    /\ UNCHANGED <<kernelVars, streamVars, ringVars, event_mono_time,
                   maybe_lost_end, heapVars, sortVars, fixed_events, todo, cur,
                   lost, need_break, targetVars, callerVars, seenVars>>

SortEmpty ==
    /\ pc = "sort"
    /\ heap = {}
    /\ Break("EMPTY")
    /\ UNCHANGED lost_pause

\* The call cannot run on to events that are still to be written: it has a
\* stream, a target_time, or a target_map whose target_end is ahead.
Limited ==
    \/ Streams # {}
    \/ target_map = NoMap
    \/ target_map \in heap /\ start[target_map] <= target_end

\* "out of order"
Pop(time) ==
    /\ unordered_events' = (unordered_events \/ time < heap_popped_time)
    /\ heap_popped_time' = Max2(heap_popped_time, time)
    /\ overrun' = IF Limited THEN overrun ELSE heap_popped_time'

\* stream_event_process().  The end of the batch stops the sort.
SortStream(s) ==
    /\ Peek(s)
    /\ Pop(htime[s])
    /\ \/ /\ StreamNext(s, FALSE)
          /\ UNCHANGED <<heap, pc, break_reason>>
       \/ /\ spos[s] = BatchEnd(s, FALSE)
          /\ heap' = heap \ {s}
          /\ pc' = "unwind"
          /\ break_reason' = "STREAM_STOP"
          /\ UNCHANGED <<sbatch, spos, htime>>
    /\ UNCHANGED <<kernelVars, slog, unconsumed, ringVars, mmapVars,
                   prev_lost_time, fixed_events, todo, cur, lost, need_break,
                   targetVars, callerVars, seenVars>>

SortTargetTime(m) ==
    /\ Peek(m)
    /\ target_time # NoTime /\ htime[m] > target_time
    /\ Break("TARGET_TIME")
    /\ UNCHANGED lost_pause

\* perf_mmap_has_space()
HasSpace(m, size) == CIRC_SPACE(end[m], start[m], RingSize) >= size

\* The root is the last event before a possible loss.
KeepLostStart(m) ==
    /\ end[m] = maybe_lost_end[m]
    /\ head(m) = start[m]

\* The lost_start event stays in the ring buffer.  Only the first pause
\* records the reason.
SortLostWait(m) ==
    /\ Peek(m)
    /\ target_time = NoTime \/ htime[m] <= target_time
    /\ KeepLostStart(m)
    /\ lost_pause' = [lost_pause EXCEPT ![m] = TRUE]
    /\ Break(IF lost_pause[m] THEN break_reason ELSE "LOST_WAIT")

\* The prediction of a loss is renewed whenever the ring buffer has grown.
PredictNoWatermark(m) ==
    IF end[m] = maybe_lost_end[m] THEN maybe_lost_end[m]
    ELSE IF HasSpace(m, 1) THEN end[m] - 1 ELSE end[m]
Predict(m) ==
    IF end[m] = maybe_lost_end[m] THEN maybe_lost_end[m]
    ELSE IF HasSpace(m, Watermark + 1) THEN end[m] - 1 ELSE end[m]

\* "Keep order in perf_mmap": the time is raised to that of the event before.
MonoTime(m) == Max2(htime[m], event_mono_time[m])

\* The root is processed.
SortMap(m) ==
    /\ Peek(m)
    /\ target_time = NoTime \/ htime[m] <= target_time
    /\ ~KeepLostStart(m)
    /\ maybe_lost_end' = [maybe_lost_end EXCEPT ![m] = Predict(m)]
    /\ lost_pause' = [lost_pause EXCEPT ![m] = FALSE]
    /\ event_mono_time' = [event_mono_time EXCEPT ![m] = MonoTime(m)]
    /\ htime' = [htime EXCEPT ![m] = MonoTime(m)]
    /\ Pop(MonoTime(m))
    /\ fixed_events' = (fixed_events \/ htime[m] < event_mono_time[m])
    /\ delivered' = [delivered EXCEPT ![m] = Append(@, start[m])]
    /\ cur' = m
    /\ pc' = "consume"
    /\ UNCHANGED <<kernelVars, streamVars, ringVars, heap, prev_lost_time,
                   break_reason, todo, lost, need_break, targetVars,
                   callerVars, reports>>

\* "Not lost. Or lost, fast consuming will result in more losses."
Release(m) ==
    IF end[m] # maybe_lost_end[m] \/ HasSpace(m, Watermark \div 2)
    THEN start[m] ELSE tail[m]

\* The latest event target_map had when the call began is processed.
AtTargetAnyMap(m) == start[m] = target_end
AtTarget(m) == m = target_map /\ start[m] = target_end

ConsumeMap(m) ==
    /\ pc = "consume"
    /\ cur = m
    /\ tail' = [tail EXCEPT ![m] = Release(m)]
    /\ IF AtTarget(m)
       THEN need_break' = TRUE /\ break_reason' = "TARGET_MAP"
       ELSE UNCHANGED <<need_break, break_reason>>
    /\ pc' = "read"
    /\ UNCHANGED <<kernelVars, streamVars, start, end, mmapVars, heapVars,
                   sortVars, fixed_events, todo, cur, lost, targetVars,
                   callerVars, seenVars>>

\* perf_mmap__read_event() on the map just consumed.
ReadOn(m) ==
    /\ pc = "read"
    /\ cur = m
    /\ end' = [end EXCEPT ![m] = head(m)]
    /\ UNCHANGED <<kernelVars, streamVars, tail, mmapVars, heap_popped_time,
                   unordered_events, overrun, break_reason, fixed_events, todo,
                   need_break, targetVars, callerVars>>

\* The end of one turn of the loop.
TurnDone ==
    /\ pc' = IF need_break THEN "unwind" ELSE "sort"
    /\ cur' = NoMap

ReadEmpty(m) ==
    /\ ReadOn(m)
    /\ start[m] = head(m)
    /\ heap' = heap \ {m}
    /\ TurnDone
    /\ UNCHANGED <<start, htime, prev_lost_time, lost, seenVars>>

\* `goto consume' for a LOST record, `goto process' for any other.
ReadRecord(m) ==
    /\ ReadOn(m)
    /\ start[m] < head(m)
    /\ Next1(m).type # "SAMPLE"
    /\ start' = [start EXCEPT ![m] = @ + 1]
    /\ \/ /\ Next1(m).type = "LOST"
          /\ lost' = Next1(m).lost
          /\ UNCHANGED delivered
       \/ /\ Next1(m).type = "OTHER"
          /\ delivered' = [delivered EXCEPT ![m] = Append(@, start[m] + 1)]
          /\ UNCHANGED lost
    /\ pc' = "consume"
    /\ UNCHANGED <<heapVars, cur, prev_lost_time, reports>>

ReadSample(m) ==
    /\ ReadOn(m)
    /\ start[m] < head(m)
    /\ Next1(m).type = "SAMPLE"
    /\ start' = [start EXCEPT ![m] = @ + 1]
    /\ htime' = [htime EXCEPT ![m] = Next1(m).time]
    /\ prev_lost_time' = IF lost = {} THEN prev_lost_time
                         ELSE Max2(prev_lost_time, event_mono_time[m])
    /\ Report(m, Next1(m).time)
    /\ TurnDone
    /\ UNCHANGED <<heap, delivered>>

\* perf_mmap__unread_event(), then perf_mmap__consume().
UnreadNone(m) == start[m]
Unread(m) == IF m \in heap THEN start[m] - 1 ELSE start[m]
UnwindTailFirst(m) == IF m \in heap THEN start[m] ELSE tail[m]
UnwindTail(m) == IF m \in heap THEN Unread(m) ELSE tail[m]

\* stream_stop: what is left in the heap goes back.  A call made by
\* perf_clock_sample() then announces its time to the pull side.
Unwind ==
    /\ pc = "unwind"
    /\ start' = [m \in Maps |-> Unread(m)]
    /\ tail' = [m \in Maps |-> UnwindTail(m)]
    /\ unconsumed' = [s \in Streams |-> unconsumed[s] \/ s \in heap]
    /\ heap' = {}
    /\ todo' = {}
    /\ pc' = "idle"
    /\ IF target_time # NoTime THEN Announce(target_time)
       ELSE UNCHANGED order_time
    /\ UNCHANGED <<kernelVars, slog, sbatch, spos, end, mmapVars, htime,
                   sortVars, break_reason, fixed_events, cur, lost,
                   need_break, targetVars, phase, toflush, seenVars>>
-----------------------------------------------------------------------------
Kernel ==
    \/ \E m \in Maps : \/ KernelSample(m)
                       \/ KernelSampleBegin(m)
                       \/ KernelSampleEnd(m)
                       \/ KernelOther(m)
    \/ KernelTick
    \/ \E s \in Streams, t \in 0 .. clock : StreamArrive(s, t)

Call ==
    \/ \E m \in Maps : \/ OrderMmap(m) \/ FlushMap(m)
                       \/ BeginMmap(m) \/ EmptyMmap(m)
    \/ OrderStream
    \/ OrderTo
    \/ StaleTick
    \/ Disable

\* A step of the running order_process().
Step ==
    \/ \E s \in Streams : InitStream(s) \/ InitStreamStop(s) \/ SortStream(s)
    \/ \E m \in Maps : \/ InitEmpty(m) \/ InitRecord(m) \/ InitSample(m)
                       \/ SortTargetTime(m) \/ SortLostWait(m) \/ SortMap(m)
                       \/ ConsumeMap(m)
                       \/ ReadEmpty(m) \/ ReadRecord(m) \/ ReadSample(m)
    \/ SortEmpty
    \/ Unwind

Next == Kernel \/ Call \/ Step

Spec == Init /\ [][Next]_vars

\* order_process() runs to its end, an interrupt returns, prof_dev_flush() goes
\* through the ring buffers, and so does interval_handle() whenever the interval
\* timer is due, whatever else calls order_process() in between.
Fairness ==
    /\ WF_vars(Step)
    /\ \A m \in Maps : /\ SF_vars(OrderMmap(m))
                       /\ WF_vars(FlushMap(m))
                       /\ WF_vars(BeginMmap(m) \/ EmptyMmap(m))
                       /\ WF_vars(KernelSampleEnd(m))

FairSpec == Spec /\ Fairness
-----------------------------------------------------------------------------
Record == [type : {"SAMPLE", "LOST", "OTHER"}, time : Nat,
           lost : SUBSET (Maps \X Nat)]

KernelTypeOK ==
    /\ clock \in Nat /\ others \in Nat
    /\ nticks \in Nat /\ ticks \in Seq(Nat)
    /\ inflight \in [Maps -> Seq(Nat)]
    /\ rb \in [Maps -> Seq(Record)]
    /\ klost \in [Maps -> SUBSET (Maps \X Nat)]

RingTypeOK ==
    /\ tail \in [Maps -> Nat] /\ start \in [Maps -> Nat] /\ end \in [Maps -> Nat]

MmapTypeOK ==
    /\ event_mono_time \in [Maps -> Nat]
    /\ maybe_lost_end \in [Maps -> Int]
    /\ lost_pause \in [Maps -> BOOLEAN]

HeapTypeOK == htime \in [Queues -> Nat] /\ heap \subseteq Queues

StreamTypeOK ==
    /\ slog \in [Streams -> Seq(Nat)]
    /\ sbatch \in [Streams -> Nat] /\ spos \in [Streams -> Nat]
    /\ unconsumed \in [Streams -> BOOLEAN]

SortTypeOK ==
    /\ heap_popped_time \in Nat /\ prev_lost_time \in Nat
    /\ break_reason \in Reasons
    /\ unordered_events \in BOOLEAN /\ fixed_events \in BOOLEAN
    /\ overrun \in Nat

CallTypeOK ==
    /\ pc \in {"idle", "entry", "init", "sort", "consume", "read", "unwind"}
    /\ todo \subseteq Queues
    /\ cur \in Maps \cup {NoMap} /\ target_map \in Maps \cup {NoMap}
    /\ target_end \in Nat /\ target_time \in Nat \cup {NoTime}
    /\ lost \in SUBSET (Maps \X Nat)
    /\ need_break \in BOOLEAN
    /\ order_time \in Nat
    /\ phase \in {"run", "flush"} /\ toflush \subseteq Maps

SeenTypeOK ==
    /\ delivered \in [Maps -> Seq(Nat)]
    /\ reports \subseteq [map : Maps, lost : SUBSET (Maps \X Nat),
                          from : Nat, to : Nat]

\* Every variable keeps the type its C declaration gives it: positions and
\* times are unsigned, queues are the ones order_init() and order_register()
\* have created.
TypeOK == /\ KernelTypeOK /\ RingTypeOK /\ MmapTypeOK /\ HeapTypeOK
          /\ StreamTypeOK /\ SortTypeOK /\ CallTypeOK /\ SeenTypeOK

\* Neither "out-of-order event" nor "out-of-order stream event" is ever
\* printed: whatever the kernel and the streams do between two steps of
\* order_process(), the profiler sees its events in time order.
NeverUnordered == ~unordered_events

\* "BUG: unorder lost event" is never printed: the losses reported by the loop
\* start at increasing times, over all ring buffers.
LostInOrder == pc = "read" => event_mono_time[cur] >= prev_lost_time

\* The records of m the sort has finished with.
Processed(m) == IF m \in heap /\ cur # m THEN start[m] - 1 ELSE start[m]

\* The kernel is never given the space of a record that is not processed, so
\* that no record is overwritten under the reader, even though an event waits
\* in the heap while others are processed and goes back when the loop ends.
SpaceSafe ==
    \A m \in Maps : /\ tail[m] <= Processed(m)
                    /\ start[m] <= head(m)
                    /\ head(m) - tail[m] < RingSize

\* Every sample and every other record is processed once, in the order of its
\* ring buffer, over all the calls of order_process() and the events each of
\* them puts back.
ExactlyOnce ==
    \A m \in Maps :
        /\ \A i, j \in DOMAIN delivered[m] :
              i < j => delivered[m][i] < delivered[m][j]
        /\ {delivered[m][i] : i \in DOMAIN delivered[m]} =
              {p \in 1 .. Processed(m) : rb[m][p].type # "LOST"}

\* What the kernel has lost and prof->lost() has not been told.
Unreported ==
    UNION ({klost[m] : m \in Maps} \cup {lost} \cup
           UNION {{rb[m][i].lost : i \in (start[m] + 1) .. head(m)} : m \in Maps})

\* "Heap sorting needs to continuously predict possible lost events and keep
\* the lost_start event in the ringbuffer": no event that is later than a lost
\* one is processed before the loss is reported, except by a call that had lost
\* its limit.
LossSensedInTime ==
    \A l \in Unreported : heap_popped_time <= Max2(l[2], overrun)

\* "This range will be larger, but covers true_lost_end": a report names the
\* ring buffer that lost the events and its range covers all of them, but for
\* what a call without a limit has overrun.
LossCovered ==
    \A r \in reports : \A l \in r.lost :
        l[1] = r.map /\ r.from <= Max2(l[2], overrun) /\ l[2] <= r.to

\* "when I see the latest event, events that occurred before the latest on
\* other ringbuffers must have been written": with no output delayed, the
\* limits target_end, target_time and the end of a stream's batch keep the sort
\* from running ahead of a ring buffer.  What is not processed is not earlier
\* than what is, and no time has to be fixed, before some call has lost its
\* limit, and again once an event later than all that call has processed is.
CausalOrder ==
    /\ fixed_events => overrun > 0
    /\ \A m \in Maps : \A i \in (Processed(m) + 1) .. head(m) :
          rb[m][i].type = "SAMPLE" =>
              heap_popped_time <= Max2(rb[m][i].time, overrun)

\* "order_process() will only process to a known time [...] future events will
\* not be touched": an event is only found to be out of order when its output
\* was delayed.
OnlyDelayedFixed == MaxNest = 0 => ~fixed_events

\* "If the order_to() ends early due to lost, there may be events that have not
\* been flushed": perf_clock_sample() announces a time to the pull side only
\* when no sample before it is left in a ring buffer, but for what a call
\* without a limit has overrun.
OrderTimeKept ==
    pc = "idle" => \A m \in Maps : \A i \in (start[m] + 1) .. head(m) :
        rb[m][i].type = "SAMPLE" => order_time <= Max2(rb[m][i].time, overrun)

\* After prof_dev_disable() every record has been submitted, unless some ring
\* buffer is kept waiting for the end of a loss.
Flushed == phase = "flush" /\ toflush = {} /\ pc = "idle"
AllSubmitted == \A m \in Maps : start[m] = head(m)
FinalFlush ==
    Flushed => AllSubmitted \/ \E m \in Maps : lost_pause[m]

\* The interval timer alone gets every record processed, unless some ring
\* buffer is kept waiting for the end of a loss.
Drained == <>[](AllSubmitted \/ \E m \in Maps : lost_pause[m])
=============================================================================
