--------------------------------- MODULE OnCpu ---------------------------------
(***************************************************************************)
(* oncpu (oncpu.c): which threads ran on which CPUs, and how long.         *)
(* Attached to CPUs, it takes the time between two sched_switch events of  *)
(* a CPU for the runtime of the thread that is switched out; attached to   *)
(* threads, it adds up what sched_stat_runtime accounts to them, per CPU.  *)
(* An instance is a CPU in the first case and a thread in the second.      *)
(***************************************************************************)
EXTENDS Integers, Sequences, FiniteSetsExt

CONSTANTS Cpus, Tids,    \* thread 0 is the idle thread
          Comm(_),       \* the name of a thread
          Allowed(_),    \* the threads a CPU may run
          MaxTime

VARIABLES
  mode, only_comm, ordered,   \* attached to "cpu" or "thread", --only-comm, --order
  last_time, runtimes,        \* oncpu_ctx
  clock, curr, since, lost,   \* the scheduler of each CPU; a loss the next record tells of
  runs,                       \* what was to be measured since the last report
  report, due                 \* the lines printed last, and what they ought to be

codeVars == <<last_time, runtimes>>
optVars == <<mode, only_comm, ordered>>
schedVars == <<clock, curr, since, lost>>
vars == <<optVars, codeVars, schedVars, runs, report, due>>

-----------------------------------------------------------------------------
(* runtime_node_cmp(), runtime_node_cmp_comm(): nodes of an instance are   *)
(* told apart by the CPU, by the thread, or by the name alone.             *)
Another(ins, cpu, tid) ==
  CASE mode = "thread" -> <<ins, cpu>>
    [] mode = "cpu" /\ only_comm -> <<ins, Comm(tid)>>
    [] mode = "cpu" /\ ~only_comm -> <<ins, tid>>

\* rblist__findnew() and the additions to the node.
Account(nodes, k, time) ==
  LET old == IF k \in DOMAIN nodes THEN nodes[k] ELSE [runtime |-> 0, nr_run |-> 0, max |-> 0]
  IN  [j \in DOMAIN nodes \cup {k} |->
         IF j # k THEN nodes[j]
         ELSE [runtime |-> old.runtime + time, nr_run |-> old.nr_run + 1,
               max |-> Max({old.max, time})]]
-----------------------------------------------------------------------------
(* oncpu_lost(): without --order the interrupted measurement is dropped.   *)
AfterLostKept(cpu) == last_time
AfterLost(cpu) == [last_time EXCEPT ![cpu] = IF lost[cpu] /\ ~ordered THEN 0 ELSE @]

\* A CPU switches to a thread of its own that runs nowhere, at most once in a nanosecond.
CanSwitch(cpu, next) ==
  /\ next \in Allowed(cpu) \ {curr[cpu]} /\ clock > since[cpu].time
  /\ next # 0 => \A c \in Cpus : curr[c] # next

(* sched_switch on a CPU.  The event is delivered, after a record of a     *)
(* loss if there was one, and oncpu_sample() measures; or it is lost.      *)
SwitchDelivered(cpu, next) ==
  LET last == AfterLost(cpu)[cpu]
      prev == curr[cpu]
  IN
  /\ mode = "cpu" /\ CanSwitch(cpu, next)
  /\ last_time' = [last_time EXCEPT ![cpu] = clock]
  /\ runtimes' = IF last = 0 \/ prev = 0 THEN runtimes
                 ELSE Account(runtimes, Another(cpu, cpu, prev), clock - last)
  /\ runs' = IF since[cpu].seen /\ prev # 0
             THEN runs \cup {[key |-> Another(cpu, cpu, prev), start |-> since[cpu].time, stop |-> clock]}
             ELSE runs
  /\ curr' = [curr EXCEPT ![cpu] = next]
  /\ since' = [since EXCEPT ![cpu] = [time |-> clock, seen |-> TRUE]]
  /\ lost' = [lost EXCEPT ![cpu] = FALSE]
  /\ UNCHANGED <<optVars, clock, report, due>>

SwitchLost(cpu, next) ==
  /\ mode = "cpu" /\ ~ordered /\ CanSwitch(cpu, next)
  /\ curr' = [curr EXCEPT ![cpu] = next]
  /\ since' = [since EXCEPT ![cpu] = [time |-> clock, seen |-> FALSE]]
  /\ lost' = [lost EXCEPT ![cpu] = TRUE]
  /\ UNCHANGED <<optVars, codeVars, clock, runs, report, due>>

(* sched_stat_runtime while a thread runs on a CPU: the time is accounted  *)
(* to that thread, or to one that is being woken up on another CPU.        *)
StatRuntime(cpu, pid) ==
  LET tid == curr[cpu] IN
  /\ mode = "thread" /\ tid # 0 /\ clock > since[cpu].time
  /\ runtimes' = IF tid # pid THEN runtimes
                 ELSE Account(runtimes, Another(tid, cpu, tid), clock - since[cpu].time)
  /\ runs' = IF tid # pid THEN runs
             ELSE runs \cup {[key |-> Another(tid, cpu, tid), start |-> since[cpu].time, stop |-> clock]}
  /\ since' = IF tid # pid THEN since ELSE [since EXCEPT ![cpu].time = clock]
  /\ UNCHANGED <<optVars, last_time, clock, curr, lost, report, due>>

\* Threads move between CPUs; only what was accounted before is measured.
Reschedule(cpu, next) ==
  /\ mode = "thread" /\ CanSwitch(cpu, next)
  /\ curr' = [curr EXCEPT ![cpu] = next]
  /\ since' = [since EXCEPT ![cpu].time = clock]
  /\ UNCHANGED <<optVars, codeVars, clock, lost, runs, report, due>>

Tick == mode # "none" /\ clock < MaxTime /\ clock' = clock + 1 /\ UNCHANGED <<optVars, codeVars, curr, since, lost, runs, report, due>>

-----------------------------------------------------------------------------
(* oncpu_interval().  Attached to CPUs the nodes are moved to a list that  *)
(* is sorted by instance, runtime and thread; --only-comm leaves every     *)
(* thread 0, so of two names with the same runtime on a CPU the second is  *)
(* not inserted.                                                           *)
SameNode(j, k) == j[1] = k[1] /\ runtimes[j].runtime = runtimes[k].runtime
Moved == IF mode = "cpu" /\ only_comm
         THEN {k \in DOMAIN runtimes : ~\E j \in DOMAIN runtimes : SameNode(j, k) /\ j[2] < k[2]}
         ELSE DOMAIN runtimes
Before(j, k) ==
  \/ j[1] < k[1]
  \/ /\ j[1] = k[1]
     /\ IF mode = "thread" THEN j[2] < k[2]
        ELSE \/ runtimes[j].runtime > runtimes[k].runtime
             \/ runtimes[j].runtime = runtimes[k].runtime /\ j[2] < k[2]
Line(k) == [key |-> k, stat |-> runtimes[k], place |-> Cardinality({j \in Moved : Before(j, k)}) + 1,
            sum |-> MapThenSumSet(LAMBDA j : runtimes[j].runtime, {j \in Moved : j[1] = k[1]})]

\* What the measured runs add up to.
Length(r) == r.stop - r.start
Of(k) == {r \in runs : r.key = k}
MeasuredKeys == {r.key : r \in runs}
Total(S) == MapThenSumSet(Length, S)
Due == [lines |-> [k \in MeasuredKeys |-> [runtime |-> Total(Of(k)), nr_run |-> Cardinality(Of(k)),
                                   max |-> Max({Length(r) : r \in Of(k)})]],
        sums |-> [i \in {k[1] : k \in MeasuredKeys} |-> Total({r \in runs : r.key[1] = i})],
        tie |-> /\ mode = "cpu" /\ only_comm
                /\ \E j, k \in MeasuredKeys : j # k /\ j[1] = k[1] /\ Total(Of(j)) = Total(Of(k))]

oncpu_interval ==
  /\ runtimes # <<>>
  /\ report' = {Line(k) : k \in Moved}
  /\ runtimes' = <<>>
  /\ due' = Due
  /\ runs' = {}
  /\ UNCHANGED <<optVars, last_time, schedVars>>

-----------------------------------------------------------------------------
(* oncpu_init(): what it is attached to decides which event is opened. *)
oncpu_init(m, comm, order) ==
  /\ mode = "none"
  /\ mode' = m /\ only_comm' = comm /\ ordered' = order
  /\ m = "thread" => ~comm /\ ~order
  /\ UNCHANGED <<codeVars, schedVars, runs, report, due>>

Init ==
  /\ mode = "none" /\ only_comm = FALSE /\ ordered = FALSE
  /\ last_time = [c \in Cpus |-> 0] /\ runtimes = <<>>
  /\ clock = 1 /\ curr = [c \in Cpus |-> 0] /\ since = [c \in Cpus |-> [time |-> 0, seen |-> FALSE]]
  /\ lost = [c \in Cpus |-> FALSE]
  /\ runs = {} /\ report = {} /\ due = [lines |-> <<>>, sums |-> <<>>, tie |-> FALSE]

Next ==
  \/ \E m \in {"cpu", "thread"}, comm, order \in BOOLEAN : oncpu_init(m, comm, order)
  \/ \E cpu \in Cpus, next \in Tids \cup {0} :
        SwitchDelivered(cpu, next) \/ SwitchLost(cpu, next) \/ Reschedule(cpu, next)
  \/ \E cpu \in Cpus, pid \in Tids : StatRuntime(cpu, pid)
  \/ Tick \/ oncpu_interval

Spec == Init /\ [][Next]_vars

-----------------------------------------------------------------------------
(* A report has one line for every thread, name or CPU with a measured     *)
(* run since the report before, with the exact total, number and longest   *)
(* of these runs, under the exact sum of its instance and sorted; a run    *)
(* whose begin or end was lost is in no line.  Excluded is the tie above.  *)
TimesExact ==
  due.tie \/
  /\ {l.key : l \in report} = DOMAIN due.lines /\ Cardinality(report) = Cardinality(DOMAIN due.lines)
  /\ \A l \in report : l.stat = due.lines[l.key] /\ l.sum = due.sums[l.key[1]]
  /\ {l.place : l \in report} = 1..Cardinality(report)
  /\ mode = "cpu" => \A l, m \in report :
        l.key[1] = m.key[1] /\ l.place < m.place => l.stat.runtime >= m.stat.runtime
================================================================================
