------------------------------ MODULE TaskState ------------------------------
(***************************************************************************)
(* The task-state profiler: how long threads run, wait for a CPU and       *)
(* sleep, measured between the events sched_switch, sched_wakeup and       *)
(* sched_wakeup_new.  It keeps one node per thread (its state and the time *)
(* it entered it) and reports the time spent when the thread leaves the    *)
(* state.  Events arrive in time order, and a loss is announced before any *)
(* event behind its start: that is what module Order establishes.          *)
(*                                                                         *)
(* The kernel's scheduler is the environment; `st' and `since' are what    *)
(* really happens, to be compared with what is reported.                   *)
(***************************************************************************)
EXTENDS LostRanges, FiniteSets

CONSTANTS
  Pids,         \* threads
  Cpus,         \* ring buffers, one per CPU
  FilterPids,   \* the threads of -p
  Configs,      \* the options a run may be started with
  MaxTime,      \* bound: events of the kernel
  MaxLost       \* bound: losses

VARIABLES
  config,       \* what task_state_init() takes from the options
  tasks,        \* ctx->task_states
  lost_list,    \* ctx->lost_list
  clock,        \* time of the last event
  window,       \* per CPU: the events inside this range do not arrive
  losses,       \* number of losses so far
  curr,         \* per CPU: the running thread
  st, since,    \* per thread: its state and when it was entered
  matches,      \* per thread: its name matches --filter
  freed,        \* per thread: time of a sched_process_free not notified yet
  known,        \* the event that led to the present state was processed
  report,       \* intervals reported by the last event, with the truth
  due           \* intervals the last event had to report

kernel == <<curr, st, since, matches, freed>>
vars   == <<config, tasks, lost_list, clock, window, losses, kernel, known, report, due>>

Idle  == 0
Sleep == {"S", "D"}
None  == [p \in {} |-> "none"]

(* ctx->SD: only sleeps are observed; ctx->task_report. *)
SD         == config.S \/ config.D
TaskReport == IF config.noS THEN Sleep \ {"S"} ELSE Sleep

(* The modes that ask to be told about freed threads. *)
Notified == IF SD THEN config.filter # "none" ELSE config.filter = "comm"

(* The kernel filters task_state_filter() sets. *)
Matches(p) == CASE config.filter = "none" -> TRUE
                [] config.filter = "pid"  -> p \in FilterPids
                [] OTHER                  -> matches[p]

(* Which part of an event arrives: sched_switch for the thread that leaves *)
(* the CPU and for the one that gets it, and the two wake-ups.             *)
Visible(s) ==
  /\ Matches(s.pid)
  /\ CASE s.ev = "out"    -> SD => \/ config.S /\ s.state = "S"
                                   \/ config.D /\ s.state = "D"
       [] s.ev = "in"     -> ~SD
       [] s.ev = "wakeup" -> TRUE
       [] s.ev = "new"    -> ~SD /\ config.filter # "pid"
-----------------------------------------------------------------------------
(* ctx->task_states as a function from the pids that have a node.          *)
With(ts, p, state, t) ==
  [q \in DOMAIN ts \cup {p} |-> IF q = p THEN [state |-> state, time |-> t] ELSE ts[q]]
Without(ts, p) == [q \in DOMAIN ts \ {p} |-> ts[q]]

(* latency_dist_input() of the time since task->time, for a node in one of *)
(* the states.                                                             *)
Latency(ts, p, t, states, key) ==
  IF p \in DOMAIN ts /\ t > ts[p].time /\ ts[p].state \in states
  THEN {[pid |-> p, key |-> key, from |-> ts[p].time]}
  ELSE {}

(* The previous thread of a switch. *)
SwitchPrev(acc, t, s) ==
  [tasks  |-> IF s.state = "X" THEN Without(acc.tasks, s.pid)
              ELSE With(acc.tasks, s.pid, s.state, t),
   report |-> acc.report \cup Latency(acc.tasks, s.pid, t, {"R"}, "R")]

(* The next thread of a switch. *)
SwitchNext(acc, t, s) ==
  [tasks  |-> With(acc.tasks, s.pid, "R", t),
   report |-> acc.report \cup Latency(acc.tasks, s.pid, t, {"R"}, "RD")]

(* mutation: every wake-up starts the time again *)
WakeupRestarts(acc, t, s) ==
  LET ts  == acc.tasks
      has == s.pid \in DOMAIN ts
  IN  [tasks  |-> IF SD THEN Without(ts, s.pid) ELSE With(ts, s.pid, "R", t),
       report |-> acc.report \cup (IF has THEN Latency(ts, s.pid, t, TaskReport, ts[s.pid].state)
                                   ELSE {})]

(* A wake-up of a thread that is not asleep leaves the time alone. *)
Wakeup(acc, t, s) ==
  LET ts    == acc.tasks
      has   == s.pid \in DOMAIN ts
      awake == has /\ ts[s.pid].state = "R" /\ s.ev = "wakeup"
  IN  [tasks  |-> IF SD THEN Without(ts, s.pid)
                  ELSE With(ts, s.pid, "R", IF awake THEN ts[s.pid].time ELSE t),
       report |-> acc.report \cup (IF has THEN Latency(ts, s.pid, t, TaskReport, ts[s.pid].state)
                                   ELSE {})]

Sample(acc, t, s) == CASE s.ev = "out" -> SwitchPrev(acc, t, s)
                       [] s.ev = "in"  -> SwitchNext(acc, t, s)
                       [] OTHER        -> Wakeup(acc, t, s)

(* What the thread of a sample leaves, if the profiler is to report it. *)
LeavesKey(s) == CASE s.ev = "out" -> IF SD THEN "-" ELSE "R"
                  [] s.ev = "in"  -> IF st[s.pid] = "RD" THEN "RD" ELSE "-"
                  [] OTHER        -> IF st[s.pid] \in TaskReport THEN st[s.pid] ELSE "-"

(***************************************************************************)
(* One event of the kernel on CPU c: `moved' gives the threads that change *)
(* state, `out' and `in' the samples the event would deliver.              *)
(* task_state_sample() is called once for what arrives of them.            *)
(***************************************************************************)
Lost(c, t) == window[c].start < t /\ t < window[c].end

NoSample == [ev |-> "none", pid |-> Idle, state |-> "R"]
Arriving(c, samples) == {s \in samples \ {NoSample} : ~Lost(c, clock + 1) /\ Visible(s)}

SampleBoth(used, t, ts, out, in) ==
  LET acc == [tasks |-> ts, report |-> {}]
      mid == IF out \in used THEN Sample(acc, t, out) ELSE acc
  IN  IF in \in used THEN Sample(mid, t, in) ELSE mid

KernelEvent(c, out, in, moved) ==
  /\ clock < MaxTime
  /\ \E t \in {clock + 1}, el \in {EventLost(lost_list, clock + 1)}, arriving \in {Arriving(c, {out, in})} :
    LET called == arriving # {}
        clean  == called /\ el.reclaim
        used   == IF el.drop THEN {} ELSE arriving
    IN  /\ clock' = t
        /\ lost_list' = IF called THEN el.list ELSE lost_list
        /\ \E acc \in {SampleBoth(used, t, IF clean THEN None ELSE tasks, out, in)} :
              /\ tasks' = acc.tasks
              /\ report' = {[pid |-> r.pid, key |-> r.key, from |-> r.from,
                             was |-> st[r.pid], since |-> since[r.pid]] : r \in acc.report}
        /\ due' = {[pid |-> s.pid, key |-> LeavesKey(s), from |-> since[s.pid]] :
                     s \in {u \in used : known[u.pid] /\ ~clean /\ LeavesKey(u) # "-"}}
        /\ st'    = [p \in Pids |-> IF p \in DOMAIN moved THEN moved[p] ELSE st[p]]
        /\ since' = [p \in Pids |-> IF p \in DOMAIN moved THEN t ELSE since[p]]
        /\ known' = [p \in Pids |-> IF p \in DOMAIN moved THEN \E s \in used : s.pid = p
                                    ELSE known[p] /\ ~clean]
        /\ UNCHANGED <<config, window, losses>>
-----------------------------------------------------------------------------
Open(cfg) ==
  /\ config.filter = "closed"
  /\ config' = cfg
  /\ UNCHANGED <<tasks, lost_list, clock, window, losses, kernel, known, report, due>>

(* The thread on a CPU is replaced: it is preempted ("R"), sleeps or has   *)
(* exited ("X").  A thread may also run again without a wake-up; with      *)
(* -S/-D the code's own comment gives this case up.                        *)
SchedSwitch(c, state, next) ==
  LET prev == curr[c]
      out  == IF prev = Idle THEN NoSample ELSE [ev |-> "out", pid |-> prev, state |-> state]
      in   == IF next = Idle THEN NoSample ELSE [ev |-> "in", pid |-> next, state |-> "R"]
      to   == CASE state = "R" -> "RD" [] state = "X" -> "none" [] OTHER -> state
  IN  /\ config.filter # "closed"
      /\ prev # next
      /\ prev = Idle => state = "R"
      /\ next # Idle => st[next] = "RD" \/ (st[next] \in Sleep /\ ~SD)
      /\ KernelEvent(c, out, in,
                     [p \in {prev, next} \ {Idle} |-> IF p = prev THEN to ELSE "R"])
      /\ curr' = [curr EXCEPT ![c] = next]
      /\ freed' = IF state = "X" /\ Notified THEN [freed EXCEPT ![prev] = clock + 1] ELSE freed
      /\ matches' = IF state = "X" THEN [matches EXCEPT ![prev] = TRUE] ELSE matches

(* A sleeping thread is woken, or one that was about to sleep. *)
SchedWakeup(c, p) ==
  /\ config.filter # "closed"
  /\ st[p] # "none"
  /\ KernelEvent(c, NoSample, [ev |-> "wakeup", pid |-> p, state |-> "R"],
                 [q \in {p} \cap {r \in Pids : st[r] \in Sleep} |-> "RD"])
  /\ UNCHANGED <<curr, matches, freed>>

(* A new thread; the pid may have been used before, the name is that of a  *)
(* parent that --filter matches.                                           *)
SchedWakeupNew(c, p) ==
  /\ config.filter # "closed"
  /\ st[p] = "none"
  /\ KernelEvent(c, NoSample, [ev |-> "new", pid |-> p, state |-> "R"], [q \in {p} |-> "RD"])
  /\ UNCHANGED <<curr, matches, freed>>

(* task_rename: the thread leaves the names of --filter. *)
TaskRename(p) ==
  /\ config.filter = "comm" /\ st[p] = "R" /\ matches[p]
  /\ matches' = [matches EXCEPT ![p] = FALSE]
  /\ report' = {} /\ due' = {}
  /\ UNCHANGED <<config, tasks, lost_list, clock, window, losses, curr, st, since, freed, known>>

(* The comm service notifies, some time later, of a freed thread. *)
Notify(p) ==
  /\ freed[p] # 0
  /\ freed' = [freed EXCEPT ![p] = 0]
  /\ tasks' = IF p \in DOMAIN tasks /\ tasks[p].time < freed[p] THEN Without(tasks, p) ELSE tasks
  /\ report' = {} /\ due' = {}
  /\ UNCHANGED <<config, lost_list, clock, window, losses, curr, st, since, matches, known>>

(* task_state_lost(): the loss of events inside (start, end) on CPU c is   *)
(* announced before any event later than start is processed.               *)
LostEvents(c, start, end) ==
  /\ config.filter # "closed"
  /\ losses < MaxLost
  /\ start \in clock .. MaxTime - 1 /\ end \in start + 2 .. MaxTime + 1
  /\ start >= window[c].end
  /\ window' = [window EXCEPT ![c] = [start |-> start, end |-> end]]
  /\ lost_list' = LostInsert(lost_list, start, end)
  /\ losses' = losses + 1
  /\ report' = {} /\ due' = {}
  /\ UNCHANGED <<config, tasks, clock, kernel, known>>
-----------------------------------------------------------------------------
Init ==
  /\ config = [filter |-> "closed", S |-> FALSE, D |-> FALSE, noS |-> FALSE]
  /\ tasks = None /\ lost_list = << >>
  /\ clock = 0 /\ losses = 0
  /\ window = [c \in Cpus |-> [start |-> 0, end |-> 0]]
  /\ curr = [c \in Cpus |-> IF c \in Pids THEN c ELSE Idle]
  /\ st = [p \in Pids |-> IF p \in Cpus THEN "R" ELSE "S"]
  /\ since = [p \in Pids |-> 0]
  /\ matches = [p \in Pids |-> TRUE]
  /\ freed = [p \in Pids |-> 0]
  /\ known = [p \in Pids |-> FALSE]
  /\ report = {} /\ due = {}

Next ==
  \/ \E cfg \in Configs : Open(cfg)
  \/ \E c \in Cpus, state \in Sleep \cup {"R", "X"}, next \in Pids \cup {Idle} :
        SchedSwitch(c, state, next)
  \/ \E c \in Cpus, p \in Pids : SchedWakeup(c, p) \/ SchedWakeupNew(c, p)
  \/ \E p \in Pids : TaskRename(p) \/ Notify(p)
  \/ \E c \in Cpus, start, end \in 0 .. MaxTime + 1 : LostEvents(c, start, end)
-----------------------------------------------------------------------------
(* What is reported is what happened, although events are lost, threads    *)
(* exit and their pids are used again, and wake-ups hit threads that are   *)
(* awake: during a reported interval the thread was in the reported state, *)
(* and a thread that leaves a state which it entered with an event the     *)
(* profiler could use has the whole interval reported.                     *)
IntervalsExact ==
  /\ \A r \in report : r.key = r.was /\ r.from >= r.since
  /\ \A d \in due : \E r \in report : r.pid = d.pid /\ r.key = d.key /\ r.from = d.from
=============================================================================
