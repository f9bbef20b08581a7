------------------------------ MODULE MultiTrace ------------------------------
(***************************************************************************)
(* multi-trace.c: the profiler that pairs events.  An event of level i     *)
(* waits in the backup tree until one of level i + 1 with the same key     *)
(* arrives, and two(event1, event2) reports the pair.  With --detail all   *)
(* events are kept on a timeline, so that what happened around a pair can  *)
(* be printed: before event1 (--detail=-N), in between, and after event2   *)
(* (--detail=+M, for which events wait in the pending list).  Lost events  *)
(* make waiting events unsafe.                                             *)
(*                                                                         *)
(* Events are known by their position in `hist', which is what the kernel  *)
(* saw; a lost event is in `hist' and is never given to the profiler.      *)
(***************************************************************************)
EXTENDS Integers, Sequences, FiniteSets, SequencesExt, TLC

CONSTANTS
    Envs,       \* the command lines: see EnvType
    Ins,        \* ring buffers (instances)
    StartTime,  \* the time of the first event
    MaxEvents   \* bound on the events of a behaviour

VARIABLES
    env,        \* the options, fixed at start
    node,       \* timeline_node in memory: all of the timeline with --detail,
                \* else the events that are backed up
    backup,     \* the events in ctx->backup
    needed,     \* ctx->needed_list (0) with --detail, else ctx->perins_list
    pending_list,
    lost_list,  \* ctx->timeline_lost_list (0), or ctx->perins_lost_list
    tl_stat,
    recent_time,
    pc,         \* where multi_trace_sample() is; "exit" after the final flush
    need_free,
    hist,       \* what happened, in the order of arrival
    losing,     \* per instance: the end of the loss in progress, or 0
    pairs,      \* the calls of two(), with the events of the timeline it walks
    losses,     \* the calls of lost()
    bug         \* a "BUG:" message was printed

ctx == <<node, backup, needed, pending_list, lost_list, tl_stat>>
kernel == <<hist, losing>>
vars == <<env, ctx, recent_time, pc, need_free, kernel, pairs, losses, bug>>

\* The options of a command line, and the events that its tracepoints yield.
\* An event is [ins, key, level, untraced, as1, as2]; level = nr_list is
\* sched:sched_process_free, the extra event of `perf-prof syscalls'.
EnvType(e) ==
    /\ {e.detail, e.order, e.cycle, e.perins, e.late} \subseteq BOOLEAN
    /\ {e.before_event1, e.after_event2} \subseteq Nat /\ e.nr_list \in Nat \ {0}
    /\ \A a \in e.events : a.ins \in Ins /\ a.level \in 0 .. e.nr_list
    \* monitor_ctx_init: the instance is the key, or all events have one
    /\ e.perins => \A a \in e.events : a.key = a.ins
    \* "Enable --key or pull= attr, also need to enable --order."
    /\ (e.detail \/ ~e.perins) /\ Cardinality({a.ins : a \in e.events}) > 1 => e.order
    /\ ~e.detail => e.before_event1 = 0 /\ e.after_event2 = 0
    /\ e.late => ~e.order
    \* bound: the losses of a behaviour
    /\ e.max_losses \in Nat

ASSUME MultiTraceAssumption ==
    /\ Ins \subseteq Nat \ {0} /\ MaxEvents \in Nat
    /\ \A e \in Envs : EnvType(e) /\ StartTime > e.before_event1 + e.after_event2

Time(n) == hist[n].time
Delivered == {n \in DOMAIN hist : ~hist[n].lost}

Lists == Ins \cup {0}
LostList(ins) == IF env.perins THEN ins ELSE 0
NeededList(ins) == IF env.detail THEN 0 ELSE ins
-------------------------------------------------------------------------------
\* The trees and lists of struct multi_trace_ctx, as a record that a handler
\* passes from one helper to the next.
Ctx == [node |-> node, backup |-> backup, needed |-> needed, pending |-> pending_list,
        lost |-> lost_list, stat |-> tl_stat, bug |-> bug]
SetCtx(ct) ==
    \E c \in {ct} :
        /\ node' = c.node /\ backup' = c.backup /\ needed' = c.needed
        /\ pending_list' = c.pending /\ lost_list' = c.lost /\ tl_stat' = c.stat /\ bug' = c.bug

Without(list, S) == SelectSeq(list, LAMBDA n : n \notin S)
Restricted(f, S) == [n \in S |-> f[n]]
\* Mutant: the list is filled from the head.
AddHead(c, list, n) == [c EXCEPT !.needed[list] = <<n>> \o @]
AddTail(c, list, n) == [c EXCEPT !.needed[list] = Append(@, n)]

\* An event stops being needed; tl_stat follows.
SetUnneeded(c, S) ==
    [c EXCEPT !.node = [n \in DOMAIN @ |-> IF n \in S THEN [@[n] EXCEPT !.unneeded = TRUE] ELSE @[n]],
              !.stat.unneeded = @ + Cardinality(S)]

perf_event_backup_node_delete(c, S) ==
    LET d == [c EXCEPT !.backup = @ \ S,
                       !.needed = [l \in Lists |-> Without(@[l], S)]]
    IN  IF env.detail THEN SetUnneeded(d, S)
        ELSE [d EXCEPT !.node = Restricted(@, DOMAIN @ \ S)]

timeline_node_delete(c, S) ==
    [c EXCEPT !.node = Restricted(@, DOMAIN @ \ S),
              !.pending = Without(@, S),
              !.bug = @ \/ S \cap ToSet(c.pending) # {},
              !.stat.unneeded = @ - Cardinality({n \in S : c.node[n].unneeded}),
              !.stat.delete = @ + Cardinality(S)]

\* timeline_node_cmp: by time, then by key, then in the order of arrival.
timeline_node_cmp(t, key, n, m) ==
    \/ t < Time(m)
    \/ t = Time(m) /\ key < hist[m].key
    \/ t = Time(m) /\ key = hist[m].key /\ n <= m
TimelineLE(n, m) == timeline_node_cmp(Time(n), hist[n].key, n, m)
rb_first(S) == CHOOSE n \in S : \A m \in S : TimelineLE(n, m)
rb_last(S) == CHOOSE n \in S : \A m \in S : TimelineLE(m, n)

\* Mutant: the needed list is not looked at.
PendingFirst(c) == IF c.pending # <<>> THEN Head(c.pending) ELSE rb_last(DOMAIN c.node)
NeededFirst(c) ==
    IF c.needed[0] # <<>> THEN Head(c.needed[0])
    ELSE IF c.pending # <<>> THEN Head(c.pending)
    ELSE rb_last(DOMAIN c.node)

UnneededBefore(c) ==
    IF env.before_event1 > 0 /\ DOMAIN c.node # {} /\ Time(NeededFirst(c)) > env.before_event1
    THEN Time(NeededFirst(c)) - env.before_event1
    ELSE 0

\* The loop frees from the front of the timeline and stops at the first event
\* that has to stay.
timeline_free_unneeded(c) ==
    LET ub == UnneededBefore(c)
        Free(n) == (ub = 0 /\ c.node[n].unneeded) \/ Time(n) < ub
        S == {n \in DOMAIN c.node : \A m \in DOMAIN c.node : TimelineLE(m, n) => Free(m)}
        unsafe == {n \in S : ~c.node[n].unneeded}
        d == perf_event_backup_node_delete(c, unsafe \cap c.backup)
    IN  timeline_node_delete([d EXCEPT !.bug = @ \/ ~(unsafe \subseteq c.backup)], S)

\* multi_trace_call_remaining() prints what waits for its second event; it
\* changes nothing here.
reclaim(c, key) ==
    perf_event_backup_node_delete(c, {n \in c.backup : c.node[n].key = key})

\* Mutant: a loss always concerns one instance.
LostReclaimInstance(c, ins) == reclaim(c, ins)
lost_reclaim(c, ins) ==
    IF env.perins THEN reclaim(c, ins) ELSE perf_event_backup_node_delete(c, c.backup)
-------------------------------------------------------------------------------
\* multi_trace_lost
LostNow(c, ins) ==
    LET d == lost_reclaim(c, ins)
    IN  IF env.detail THEN timeline_free_unneeded(d) ELSE d

LostLater(c, ins, start, end) ==
    LET l == LostList(ins)
        lost == [start |-> start, end |-> end, reclaim |-> FALSE]
        at == IF env.perins THEN Len(c.lost[l]) + 1
              ELSE Cardinality({i \in DOMAIN c.lost[l] :
                                  \A j \in 1 .. i : c.lost[l][j].start <= start}) + 1
    IN  [c EXCEPT !.lost[l] = InsertAt(@, at, lost)]

multi_trace_lost(c, ins, start, end) ==
    IF ~env.order /\ env.after_event2 = 0 THEN LostNow(c, ins)
    ELSE LostLater(c, ins, start, end)

\* multi_trace_event_lost: losses that ended are dropped, the first that has
\* not ended decides.  A loss that began before the event reclaims once.
\* Mutant: the event at the end of a loss is still in it.
PassedLater(lost, t) == t > lost.start /\ t > lost.end
Passed(lost, t) == t > lost.start /\ t >= lost.end

NotBackedUp(c, n) ==
    IF c.node[n].need_backup
    THEN SetUnneeded([c EXCEPT !.node[n].need_backup = FALSE], {n})
    ELSE c

multi_trace_event_lost(c, n) ==
    LET t == Time(n)
        l == LostList(hist[n].ins)
        list == c.lost[l]
        k == Cardinality({i \in DOMAIN list : \A j \in 1 .. i : Passed(list[j], t)})
        cur == list[k + 1]
        inside == k < Len(list) /\ t > cur.start
        rest == SubSeq(list, k + 1, Len(list))
        reclaims == \/ \E i \in 1 .. k : ~list[i].reclaim
                    \/ inside /\ ~cur.reclaim
        c1 == IF reclaims THEN lost_reclaim(c, hist[n].ins) ELSE c
        c2 == [c1 EXCEPT !.lost[l] = IF inside THEN [rest EXCEPT ![1].reclaim = TRUE] ELSE rest]
    IN  CASE inside -> NotBackedUp([c2 EXCEPT !.node[n].need_find_prev = FALSE], n)
          [] k < Len(list) /\ t = cur.start -> NotBackedUp(c2, n)
          [] OTHER -> c2
-------------------------------------------------------------------------------
\* two_event objects exist for neighbouring levels (multi_trace_init).
object_find(level1, level2) ==
    level2 = (level1 + 1) % env.nr_list /\ (env.cycle \/ level1 + 1 < env.nr_list)

multi_trace_find_prev(c, key) == {p \in c.backup : c.node[p].key = key}

\* What delay_two() walks: from `start' to event2, and on until after_event2.
Walk(c, p, n) ==
    {m \in DOMAIN c.node :
        /\ IF env.before_event1 > 0
           THEN timeline_node_cmp(Time(p) - env.before_event1, hist[n].key, 0, m)
           ELSE TimelineLE(p, m)
        /\ TimelineLE(m, n) \/ (env.after_event2 > 0 /\ Time(m) - Time(n) <= env.after_event2)}

\* The pairs multi_trace_tryto_call_two() reports, and what it removes.
CallTwo(c, n) ==
    {[e1 |-> p, e2 |-> n, walk |-> IF env.detail THEN Walk(c, p, n) ELSE {}] :
        p \in {q \in multi_trace_find_prev(c, hist[n].key) :
                  /\ c.node[n].need_find_prev
                  /\ object_find(hist[q].level, hist[n].level)
                  /\ Time(q) < Time(n)}}

RemovedPrev(c, n) ==
    IF c.node[n].need_find_prev THEN multi_trace_find_prev(c, hist[n].key) ELSE {}

\* multi_trace_tryto_backup: only the last event of a key is backed up.
multi_trace_tryto_backup(c, n) ==
    LET exist == multi_trace_find_prev(c, hist[n].key)
        late == \E p \in exist : Time(n) < Time(p)
        d == perf_event_backup_node_delete(c, exist)
    IN  CASE ~c.node[n].need_backup -> c
          [] c.node[n].need_backup /\ late -> SetUnneeded(c, {n})
          [] OTHER -> AddTail([d EXCEPT !.backup = @ \cup {n}], NeededList(hist[n].ins), n)

\* One event, from multi_trace_event_lost() to multi_trace_tryto_backup().
Handled(c, n) ==
    multi_trace_tryto_backup(perf_event_backup_node_delete(c, RemovedPrev(c, n)), n)
HandleFrees(c, n) == ~(c.node[n].need_backup /\ multi_trace_find_prev(c, hist[n].key) = {})

first_pending(c) == Head(c.pending)
Ripe(c, n) ==
    /\ c.pending # <<>>
    /\ env.after_event2 = 0 \/ Time(first_pending(c)) <= Time(n) - env.after_event2
\* Mutant: an event that is not backed up stays needed.
FirstPendingNeeded(c) == [c EXCEPT !.pending = Tail(@), !.stat.pending = @ - 1]
multi_trace_first_pending(c) ==
    LET n == first_pending(c)
        d == [c EXCEPT !.pending = Tail(@), !.stat.pending = @ - 1]
    IN  IF c.node[n].need_backup THEN d ELSE SetUnneeded(d, {n})
-------------------------------------------------------------------------------
Extra(e) == e.level = env.nr_list

NeedFindPrev(e) == (e.level # 0 \/ env.cycle) /\ e.as2
NeedBackup(e) == (e.level # env.nr_list - 1 \/ env.cycle) /\ e.as1

NewNode(e) == [key |-> e.key, unneeded |-> ~NeedBackup(e) \/ e.untraced,
               need_find_prev |-> NeedFindPrev(e), need_backup |-> NeedBackup(e)]

\* timeline_node_new: a traced event is pending, whatever it will be.
timeline_node_new(c, n, e) ==
    LET b == IF e.untraced THEN NewNode(e) ELSE [NewNode(e) EXCEPT !.unneeded = FALSE]
    IN  [c EXCEPT !.node = [m \in DOMAIN @ \cup {n} |-> IF m = n THEN b ELSE @[m]],
                  !.pending = IF e.untraced THEN @ ELSE Append(@, n),
                  !.stat.new = @ + 1,
                  !.stat.pending = IF e.untraced THEN @ ELSE @ + 1,
                  !.stat.unneeded = IF b.unneeded THEN @ + 1 ELSE @]
-------------------------------------------------------------------------------
Init ==
    /\ env \in Envs
    /\ node = <<>> /\ backup = {} /\ pending_list = <<>>
    /\ needed = [l \in Lists |-> <<>>] /\ lost_list = [l \in Lists |-> <<>>]
    /\ tl_stat = [new |-> 0, delete |-> 0, unneeded |-> 0, pending |-> 0]
    /\ recent_time = 0 /\ pc = "idle" /\ need_free = FALSE
    /\ hist = <<>> /\ losing = [i \in Ins |-> 0]
    /\ pairs = {} /\ losses = {} /\ bug = FALSE

\* The ring buffers.  With --order events come in time order over all ring
\* buffers, and a loss is known, with the times of the events on either side
\* of it, before anything later than the first lost event is processed.
\* Without it each ring buffer has an order of its own, in which an event that
\* an interrupt delayed may be late.  The clock of one ring buffer never gives
\* the same time twice; those of two may.
Latest(S) == IF S = {} THEN StartTime
             ELSE LET n == CHOOSE n \in S : \A m \in S : Time(m) <= Time(n) IN Time(n)
Now(ins) == Latest({n \in DOMAIN hist : env.order \/ hist[n].ins = ins})
Times(ins) ==
    LET now == Now(ins)
    IN  IF hist # <<>> /\ env.late THEN {now - 1, now + 1}
        ELSE {t \in now .. now + 1 : \A n \in DOMAIN hist : hist[n].ins = ins => Time(n) < t}

Happens(e, t, lost) ==
    /\ pc = "idle" /\ Len(hist) < MaxEvents
    /\ env.order => \A i \in Ins : losing[i] # 0 => t <= losing[i]
    /\ hist' = Append(hist, [time |-> t, lost |-> lost] @@ e)

Delivers(e, t) ==
    /\ Happens(e, t, FALSE)
    /\ losing[e.ins] = 0 \/ (env.order /\ t = losing[e.ins])
    /\ losing' = [losing EXCEPT ![e.ins] = 0]
    /\ recent_time' = IF t > recent_time THEN t ELSE recent_time
    /\ UNCHANGED <<env, pairs, losses>>

\* multi_trace_sample, until the event is on the timeline.
Skipped(e) ==
    \/ ~env.detail /\ e.untraced
    \/ /\ env.detail /\ DOMAIN node = {} /\ NewNode(e).unneeded
       /\ env.before_event1 = 0 /\ env.after_event2 = 0

SampleSkipped(e, t) ==
    /\ Delivers(e, t) /\ ~Extra(e) /\ Skipped(e)
    /\ UNCHANGED <<ctx, pc, need_free, bug>>

SampleTimeline(e, t) ==
    /\ Delivers(e, t) /\ ~Extra(e) /\ ~Skipped(e) /\ env.detail
    /\ SetCtx(timeline_node_new(Ctx, Len(hist) + 1, e))
    /\ need_free' = NewNode(e).unneeded
    /\ pc' = "pending"

\* Without a timeline the event is `current', on the stack.
SampleCurrent(e, t) ==
    /\ Delivers(e, t) /\ ~Extra(e) /\ ~Skipped(e) /\ ~env.detail
    /\ node' = node @@ (Len(hist) + 1 :> [NewNode(e) EXCEPT !.unneeded = FALSE])
    /\ pc' = "current"
    /\ UNCHANGED <<backup, needed, pending_list, lost_list, tl_stat, need_free, bug>>

syscalls_extra_sample(e, t) ==
    /\ Delivers(e, t) /\ Extra(e)
    /\ SetCtx(reclaim(Ctx, e.key))
    /\ UNCHANGED <<pc, need_free>>

\* One turn of the loop over the pending list.
HandlePending ==
    /\ pc = "pending" /\ Ripe(Ctx, Len(hist))
    /\ \E n \in {first_pending(Ctx)} :
       \E c \in {multi_trace_event_lost(multi_trace_first_pending(Ctx), n)} :
           /\ pairs' = pairs \cup CallTwo(c, n)
           /\ SetCtx(Handled(c, n))
           /\ need_free' = (need_free \/ HandleFrees(c, n))
    /\ UNCHANGED <<env, recent_time, pc, kernel, losses>>

HandleDone ==
    /\ pc = "pending" /\ ~Ripe(Ctx, Len(hist))
    /\ SetCtx(IF need_free THEN timeline_free_unneeded(Ctx) ELSE Ctx)
    /\ pc' = "idle"
    /\ UNCHANGED <<env, recent_time, need_free, kernel, pairs, losses>>

HandleCurrent ==
    /\ pc = "current"
    /\ \E n \in {Len(hist)} :
       \E c \in {multi_trace_event_lost(Ctx, n)} :
       \E d \in {Handled(c, n)} :
           /\ pairs' = pairs \cup CallTwo(c, n)
           /\ SetCtx([d EXCEPT !.node = Restricted(@, d.backup)])
    /\ pc' = "idle"
    /\ UNCHANGED <<env, recent_time, need_free, kernel, losses>>

\* prof->lost() of order_process(), in advance.
LostAhead(ins, end) ==
    /\ pc = "idle" /\ env.order /\ losing[ins] = 0
    /\ Len(hist) < MaxEvents /\ Cardinality(losses) < env.max_losses
    /\ \E n \in Delivered : hist[n].ins = ins
    /\ LET start == Latest({n \in Delivered : hist[n].ins = ins})
       IN  /\ SetCtx(multi_trace_lost(Ctx, ins, start, end))
           /\ losses' = losses \cup {[ins |-> ins, start |-> start, end |-> end, at |-> 0]}
    /\ losing' = [losing EXCEPT ![ins] = end]
    /\ UNCHANGED <<env, recent_time, pc, need_free, hist, pairs>>

\* An event nobody will see.
LostEvent(e, t) ==
    /\ Happens(e, t, TRUE) /\ ~e.untraced
    /\ \E n \in Delivered : hist[n].ins = e.ins
    /\ IF env.order THEN t < losing[e.ins] /\ UNCHANGED losing
       ELSE Cardinality(losses) < env.max_losses /\ losing' = [losing EXCEPT ![e.ins] = 1]
    /\ UNCHANGED <<env, ctx, recent_time, pc, need_free, pairs, losses, bug>>

\* perf_event_process_record() without --order: the LOST record is read where
\* it stands in the ring buffer, and its times are not known.
ReadLost(ins) ==
    /\ pc = "idle" /\ ~env.order /\ losing[ins] # 0
    /\ SetCtx(multi_trace_lost(Ctx, ins, 0, 0))
    /\ losses' = losses \cup {[ins |-> ins, start |-> 0, end |-> 0, at |-> Len(hist)]}
    /\ losing' = [losing EXCEPT ![ins] = 0]
    /\ UNCHANGED <<env, recent_time, pc, need_free, hist, pairs>>

\* multi_trace_flush: pending events are dropped, then everything is freed.
multi_trace_flush ==
    /\ pc = "idle"
    /\ LET dropped == ToSet(pending_list)
           c == [Ctx EXCEPT !.pending = <<>>, !.stat.pending = @ - Len(pending_list)]
           d == SetUnneeded(c, {n \in dropped : ~node[n].need_backup})
           e == perf_event_backup_node_delete(d, backup)
       IN  SetCtx(IF env.detail THEN timeline_node_delete(e, DOMAIN e.node) ELSE e)
    /\ pc' = "exit"
    /\ UNCHANGED <<env, recent_time, need_free, kernel, pairs, losses>>

Exited == pc = "exit" /\ UNCHANGED vars

Next ==
    \/ \E e \in env.events : \E t \in Times(e.ins) :
          \/ SampleSkipped(e, t)
          \/ SampleTimeline(e, t)
          \/ SampleCurrent(e, t)
          \/ syscalls_extra_sample(e, t)
          \/ LostEvent(e, t)
    \/ \E i \in Ins : \E end \in Now(i) + 1 .. Now(i) + 2 : LostAhead(i, end)
    \/ \E i \in Ins : ReadLost(i)
    \/ HandlePending \/ HandleDone \/ HandleCurrent
    \/ multi_trace_flush \/ Exited

Spec == Init /\ [][Next]_vars
-------------------------------------------------------------------------------
\* A pair of what really happened, lost events included: no event with the key
\* in between takes the first or replaces it.
TruePair(i, j) ==
    LET a == hist[i]
        b == hist[j]
        Passive(e) == e.untraced \/ ~(Extra(e) \/ NeedBackup(e) \/ NeedFindPrev(e))
    IN  /\ i < j /\ a.key = b.key /\ a.time < b.time
        /\ ~a.untraced /\ ~b.untraced /\ ~Extra(a) /\ ~Extra(b)
        /\ NeedBackup(a) /\ NeedFindPrev(b) /\ object_find(a.level, b.level)
        /\ \A m \in i + 1 .. j - 1 : hist[m].key = a.key => Passive(hist[m])

\* "two(A, B) is unsafe": a reported pair is one that really happened, whatever
\* was lost and although events wait in the backup tree and the pending list.
\* (An event at the very start_time of a loss is not backed up and does not
\* replace the event it supersedes, which a third event of that instant may
\* still be paired with.)
OnlyTruePairs ==
    ~env.late => \A p \in pairs : \/ TruePair(p.e1, p.e2)
                                  \/ \E l \in losses : l.start = Time(p.e2)

\* A loss only hides what it may have touched: a real pair outside of every
\* loss is reported as soon as its second event leaves the pending list.
Touches(l, i, j) ==
    /\ env.perins => hist[i].ins = l.ins
    /\ IF env.order THEN Time(i) < l.end /\ Time(j) > l.start
       ELSE i <= l.at /\ l.at < j
SafePairsReported ==
    ~env.late /\ pc = "idle" =>
        \A i, j \in Delivered :
            TruePair(i, j) /\ j \notin ToSet(pending_list) =>
                \/ \E p \in pairs : p.e1 = i /\ p.e2 = j
                \/ \E l \in losses : Touches(l, i, j)

\* --detail=-N,+M: when a pair is printed, every event from N before the first
\* to M after the second is on the timeline, although the timeline is freed as
\* early as possible.
DetailComplete ==
    env.detail /\ ~env.late =>
        \A p \in pairs : \A m \in Delivered :
            /\ ~Extra(hist[m])
            /\ \/ m >= p.e1 /\ TimelineLE(p.e1, m)
               \/ Time(m) > Time(p.e1) - env.before_event1
            /\ \/ m <= p.e2 /\ TimelineLE(m, p.e2)
               \/ Time(m) < Time(p.e2) + env.after_event2
            => m \in p.walk

\* SIGUSR1 prints what is there: tl_stat counts the events on the timeline,
\* the unneeded ones and the pending ones, through losses and reclaims.
StatExact ==
    env.detail =>
        /\ tl_stat.new - tl_stat.delete = Cardinality(DOMAIN node)
        /\ tl_stat.unneeded = Cardinality({n \in DOMAIN node : node[n].unneeded})
        /\ tl_stat.pending = Len(pending_list)

\* "BUG: rb key_node is empty", "BUG: event is still in the pending list":
\* never printed, because what waits for its second event or for the events
\* after it is in memory and in one list; and the counters agree.
NoBug ==
    /\ ~bug
    /\ StatExact
    /\ backup \subseteq DOMAIN node
    /\ backup = UNION {ToSet(needed[l]) : l \in Lists}
    /\ \A l \in Lists : IsInjective(needed[l])
    /\ ToSet(pending_list) \subseteq DOMAIN node \ backup /\ IsInjective(pending_list)

\* multi_trace_minevtime: nothing that may still be printed is older than the
\* time before which comm.c forgets names.
MinEvTime ==
    IF env.detail THEN Time(rb_first(DOMAIN node))
    ELSE LET heads == {Head(needed[i]) : i \in {j \in Ins : needed[j] # <<>>}}
         IN  Time(CHOOSE n \in heads : \A m \in heads : Time(n) <= Time(m))
MinEvTimeSafe ==
    pc = "idle" /\ DOMAIN node # {} => \A n \in DOMAIN node : MinEvTime <= Time(n)
===============================================================================
