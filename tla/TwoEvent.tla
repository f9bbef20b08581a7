------------------------------- MODULE TwoEvent -------------------------------
(***************************************************************************)
(* What multi-trace and its relatives make of a pair of events             *)
(* (two-event.c): the classes delay, syscalls, pair and kmemprof, with     *)
(* the distribution of latency_helpers.c and the byte counts per call      *)
(* stack of stack_helpers.c.  The class "call" is CallTree.                *)
(* A call is two(), or remaining() for an event without a second one (rr   *)
(* tells why there is none).  Its times count from event1.                 *)
(***************************************************************************)
EXTENDS Integers, Sequences, FiniteSetsExt, SequencesExt

CONSTANTS Configs   \* a sequence of [impl, opts, calls, max]: options, calls to enumerate, bound on their number

VARIABLES
  config,         \* the index in Configs, 0 before the class is made
  lat,            \* latency_dist: a node per instance and key
  profile,        \* per object: the byte counts of kmemprof, or the count of pair
  walk,           \* the events printed for the last call that prints some
  history,        \* the calls since the last report
  report, due,    \* the lines printed last, and what they ought to be
  n_calls

vars == <<config, lat, profile, walk, history, report, due, n_calls>>

impl == Configs[config].impl
opts == Configs[config].opts
paired(c) == c.rr = "NOT_REMAINING"

\* multi_trace_init() makes an object per pair of events, and one with tp2 NULL for remaining().
Objects(i) == {c.id : c \in Configs[i].calls} \X {"tp2", "NULL"}
Object(c) == <<c.id, IF paired(c) THEN "tp2" ELSE "NULL">>

-----------------------------------------------------------------------------
(* latency_dist_input() *)
ULONG_MAX == 1000
Node(c) == <<IF opts.perins THEN c.key ELSE 0, c.id>>
NewNode == [n |-> 0, sum |-> 0, min |-> ULONG_MAX, max |-> 0, than |-> 0, err |-> 0]
Exceeds(delta) == opts.greater_than > 0 /\ delta > opts.greater_than
latency_dist_input(node, delta, err) ==
  LET o == IF node \in DOMAIN lat THEN lat[node] ELSE NewNode
      new == [n |-> o.n + 1, sum |-> o.sum + delta, min |-> Min({o.min, delta}),
              max |-> Max({o.max, delta}), than |-> o.than + (IF Exceeds(delta) THEN 1 ELSE 0),
              err |-> o.err + err]
  IN  [k \in DOMAIN lat \cup {node} |-> IF k = node THEN new ELSE lat[k]]

-----------------------------------------------------------------------------
(* delay_two() prints the events around a long delay.  An event is         *)
(* [time, need], need being event_need_to_print(); a line is what is       *)
(* printed for it, or how many were hidden.  With hide_than an event that  *)
(* follows the one before too closely is hidden, but the last of a run of  *)
(* hidden ones is printed when a long gap follows it.                      *)
Shown(e) == [shown |-> e.time]
Hidden(n) == [hidden |-> n]
WalkStep(w, e) ==
  IF ~e.need THEN w
  ELSE IF w.first THEN [first |-> FALSE, hide |-> 0, prev |-> e, out |-> Append(w.out, Shown(e))]
  ELSE IF opts.hide_than > 0 /\ e.time - w.prev.time < opts.hide_than
       THEN [w EXCEPT !.hide = @ + 1, !.prev = e]
  ELSE [first |-> FALSE, hide |-> 0, prev |-> e,
        out |-> w.out \o (IF w.hide > 1 THEN <<Hidden(w.hide - 1)>> ELSE <<>>)
                      \o (IF w.hide > 0 THEN <<Shown(w.prev)>> ELSE <<>>) \o <<Shown(e)>>]
Between(events) ==
  LET w == FoldLeft(WalkStep, [first |-> TRUE, hide |-> 0, prev |-> [time |-> 0, need |-> FALSE], out |-> <<>>], events)
  IN  w.out \o IF w.hide > 0 THEN <<Hidden(w.hide)>> ELSE <<>>

Needed(events) == SelectSeq(events, LAMBDA e : e.need)
Times(events) == [i \in DOMAIN events |-> Shown(events[i])]
\* The line "-Previous" comes before the first one printed and tells how far back the list goes.
Previous(events) == IF Needed(events) = <<>> THEN <<>>
                    ELSE <<[previous |-> Head(events).time]>> \o Times(Needed(events))
\* Events after event2, up to a time; "`After" tells how far, from the first one printed on.
After(events, delta) ==
  LET near == SelectSeq(events, LAMBDA e : e.time - delta <= opts.after_event2)
  IN  IF opts.after_event2 = 0 \/ Needed(near) = <<>> THEN <<>>
      ELSE Times(Needed(near)) \o <<[after |-> Last(near).time - delta]>>

Long(c) == paired(c) /\ (Exceeds(c.delta) \/ (opts.lower_than > 0 /\ c.delta < opts.lower_than))
NoDetail == [before |-> <<>>, between |-> <<>>, after |-> <<>>]
Detail(c) == [before |-> Previous(c.before), between |-> Between(c.between), after |-> After(c.after, c.delta)]
\* delay_remaining(), when events were lost: all events up to the last, none hidden.
LostDetail(c) == [NoDetail EXCEPT !.before = Previous(c.before), !.between = Times(Needed(c.between))]

-----------------------------------------------------------------------------
(* delay_two() and delay_remaining(), which counts nothing. *)
delay(c) ==
  /\ impl = "delay"
  /\ lat' = IF paired(c) /\ c.delta > 0 THEN latency_dist_input(Node(c), c.delta, 0) ELSE lat
  /\ walk' = IF ~opts.timeline THEN walk
             ELSE IF c.delta > 0 /\ Long(c) THEN Detail(c)
             ELSE IF c.rr = "REMAINING_LOST" /\ Exceeds(c.delta) THEN LostDetail(c)
             ELSE walk
  /\ UNCHANGED profile

(* syscalls_two(): the events are of one thread and system call, or        *)
(* nothing is counted; syscalls_remaining(): a system call of a thread     *)
(* that ended, which cannot fail.                                          *)
syscalls(c) ==
  /\ impl = "syscalls"
  /\ lat' = IF c.delta > 0 /\ (IF paired(c) THEN c.same ELSE c.rr = "REMAINING_SYSCALLS")
            THEN latency_dist_input(Node(c), c.delta, IF paired(c) /\ c.failed THEN 1 ELSE 0)
            ELSE lat
  /\ UNCHANGED <<profile, walk>>

(* pair_two(), pair_remaining() *)
pair(c) ==
  /\ impl = "pair"
  /\ profile' = [profile EXCEPT ![Object(c)] = @ + 1]
  /\ UNCHANGED <<lat, walk>>

(* keyvalue_pairs_add_key(), and the bytes added to its value *)
keyvalue_pairs_add_key(kv, key, bytes) ==
  [k \in DOMAIN kv \cup {key} |->
     LET o == IF k \in DOMAIN kv THEN kv[k] ELSE [bytes |-> 0, n |-> 0]
     IN  IF k = key THEN [bytes |-> o.bytes + bytes, n |-> o.n + 1] ELSE o]

(* mem_profile_two(), with event2 NULL from mem_profile_remaining().       *)
(* delta is the size of the allocation.                                    *)
NoPairs == [k \in {} |-> 0]
NoProfile == [nr_alloc |-> 0, alloc_bytes |-> 0, alloc |-> NoPairs, nr_free |-> 0, free_bytes |-> 0, free |-> NoPairs]
mem_profile(c) ==
  LET Added(kv, tp, key) == IF tp \in opts.stack THEN keyvalue_pairs_add_key(kv, key, c.delta) ELSE kv
      p == profile[Object(c)]
      q == [p EXCEPT !.nr_alloc = @ + 1, !.alloc_bytes = @ + c.delta, !.alloc = Added(@, "tp1", c.key)]
      r == [q EXCEPT !.nr_free = @ + 1, !.free_bytes = @ + c.delta, !.free = Added(@, "tp2", c.stack2)]
  IN
  /\ impl = "kmemprof"
  /\ profile' = [profile EXCEPT ![Object(c)] = IF paired(c) THEN r ELSE q]
  /\ UNCHANGED <<lat, walk>>

Call(c) ==
  /\ n_calls < Configs[config].max
  /\ delay(c) \/ syscalls(c) \/ pair(c) \/ mem_profile(c)
  /\ history' = Append(history, c) /\ n_calls' = n_calls + 1
  /\ UNCHANGED <<config, report, due>>

-----------------------------------------------------------------------------
(* latency_dist_print() and latency_dist_print_sorted(): the place of each *)
(* node in the report, per instance by total or else by key.               *)
Before(j, k) ==
  \/ j[1] < k[1]
  \/ j[1] = k[1] /\ IF opts.sort_print /\ lat[j].sum # lat[k].sum THEN lat[j].sum > lat[k].sum ELSE j[2] < k[2]
Printed == [k \in DOMAIN lat |->
              [stat |-> lat[k], place |-> Cardinality({j \in DOMAIN lat : Before(j, k)}) + 1]]

\* delay_print_header(): nothing to print, or nothing that exceeds the threshold.
Silent == \/ lat = <<>>
          \/ impl = "delay" /\ opts.only_than /\ \A k \in DOMAIN lat : lat[k].max <= opts.greater_than

(* keyvalue_pairs_sorted_firstn(): the first_n heaviest stacks, all when   *)
(* it is 0 (qsort() leaves equal ones in the order of the keys), and the   *)
(* number of those mem_profile_print() says it skips.                      *)
Heavier(kv, j, k) == kv[j].bytes > kv[k].bytes \/ (kv[j].bytes = kv[k].bytes /\ j < k)
sorted_firstn(kv) ==
  LET n     == opts.first_n
      nr    == Cardinality(DOMAIN kv)
      first == {k \in DOMAIN kv : n = 0 \/ Cardinality({j \in DOMAIN kv : Heavier(kv, j, k)}) < n}
  IN  [list |-> [k \in first |-> kv[k]], skipped |-> IF nr > n THEN nr - n ELSE 0]
\* mem_profile_print(): no line for allocations not freed when there are none.
Lines == IF impl = "pair" THEN profile
         ELSE [o \in {x \in Objects(config) : x[2] = "tp2" \/ profile[x].nr_alloc > 0} |->
                 [profile[o] EXCEPT !.alloc = sorted_firstn(@), !.free = sorted_firstn(@)]]

-----------------------------------------------------------------------------
(* What the calls since the last report add up to. *)
Calls == DOMAIN history
SumOver(f(_), S) == MapThenSumSet(f, S)
Bytes(S) == SumOver(LAMBDA i : history[i].delta, S)
Measured == {i \in Calls : LET c == history[i] IN
               /\ c.delta > 0
               /\ IF paired(c) THEN impl = "delay" \/ c.same ELSE impl = "syscalls" /\ c.rr = "REMAINING_SYSCALLS"}
DueLat ==
  [k \in {Node(history[i]) : i \in Measured} |->
     LET S == {i \in Measured : Node(history[i]) = k}
         D == {history[i].delta : i \in S}
     IN  [n |-> Cardinality(S), sum |-> Bytes(S), min |-> Min(D), max |-> Max(D),
          than |-> Cardinality({i \in S : Exceeds(history[i].delta)}),
          err |-> Cardinality({i \in S : impl = "syscalls" /\ paired(history[i]) /\ history[i].failed})]]
ByStack(S, stack(_)) ==
  [k \in {stack(i) : i \in S} |-> LET T == {i \in S : stack(i) = k} IN [bytes |-> Bytes(T), n |-> Cardinality(T)]]
DueProfile ==
  [o \in Objects(config) |->
     LET S == {i \in Calls : Object(history[i]) = o}
         F == IF o[2] = "NULL" THEN {} ELSE S
     IN  IF impl = "pair" THEN Cardinality(S)
         ELSE [nr_alloc |-> Cardinality(S), alloc_bytes |-> Bytes(S), nr_free |-> Cardinality(F), free_bytes |-> Bytes(F),
               alloc |-> IF "tp1" \in opts.stack THEN ByStack(S, LAMBDA i : history[i].key) ELSE NoPairs,
               free |-> IF "tp2" \in opts.stack THEN ByStack(F, LAMBDA i : history[i].stack2) ELSE NoPairs]]

-----------------------------------------------------------------------------
(* The report of multi_trace_interval(), by delay_print_header() or        *)
(* syscalls_print_header(), which removes every node it prints ...         *)
print_lat_cleared ==
  /\ impl \in {"delay", "syscalls"}
  /\ history' = (IF Silent THEN history ELSE <<>>)
  /\ IF Silent THEN UNCHANGED <<report, due>> ELSE report' = Printed /\ due' = DueLat
  /\ lat' = <<>>
  /\ UNCHANGED <<config, profile, walk, n_calls>>
print_lat ==
  /\ impl \in {"delay", "syscalls"}
  /\ IF Silent THEN UNCHANGED <<lat, history, report, due>>
     ELSE /\ report' = Printed /\ due' = DueLat
          /\ lat' = <<>> /\ history' = <<>>
  /\ UNCHANGED <<config, profile, walk, n_calls>>

(* ... or by pair_print() or mem_profile_print() of every object, which    *)
(* reset it.                                                               *)
Zero(i) == [o \in Objects(i) |-> IF Configs[i].impl = "pair" THEN 0 ELSE NoProfile]
print_profile ==
  /\ impl \in {"pair", "kmemprof"}
  /\ report' = Lines /\ due' = DueProfile
  /\ profile' = Zero(config) /\ history' = <<>>
  /\ UNCHANGED <<config, lat, walk, n_calls>>

(* impl->class_new(), and object_new() of every pair of events. *)
class_new(i) ==
  /\ config = 0 /\ config' = i
  /\ profile' = Zero(i)
  /\ UNCHANGED <<lat, walk, history, report, due, n_calls>>

Init ==
  /\ config = 0
  /\ lat = <<>> /\ profile = <<>> /\ walk = NoDetail
  /\ history = <<>> /\ report = <<>> /\ due = <<>> /\ n_calls = 0

Next ==
  \/ \E i \in DOMAIN Configs : class_new(i)
  \/ config # 0 /\ ((\E c \in Configs[config].calls : Call(c)) \/ print_lat \/ print_profile)
Spec == Init /\ [][Next]_vars

-----------------------------------------------------------------------------
(* A report of multi_trace_interval() tells exactly what the calls since   *)
(* the report before add up to, per instance and key, per pair of events   *)
(* or per call stack: a report that delay_print_header() suppresses loses  *)
(* nothing, lines come in order of the total where that is asked for, and  *)
(* of the call stacks the heaviest are listed and the others counted.      *)
Heaviest(l, kv) ==
  /\ DOMAIN l.list \subseteq DOMAIN kv
  /\ Cardinality(DOMAIN l.list) = Min({opts.first_n, Cardinality(DOMAIN kv)})
  /\ l.skipped = Cardinality(DOMAIN kv \ DOMAIN l.list)
  /\ \A k \in DOMAIN l.list : l.list[k] = kv[k] /\ \A j \in DOMAIN kv \ DOMAIN l.list : kv[j].bytes <= kv[k].bytes
ReportsExact ==
  CASE impl = "pair" -> report = due
    [] impl = "kmemprof" ->
         /\ \A o \in DOMAIN due \ DOMAIN report : due[o] = NoProfile
         /\ \A o \in DOMAIN report :
              /\ [report[o] EXCEPT !.alloc = 0, !.free = 0] = [due[o] EXCEPT !.alloc = 0, !.free = 0]
              /\ Heaviest(report[o].alloc, due[o].alloc) /\ Heaviest(report[o].free, due[o].free)
    [] OTHER ->
         /\ DOMAIN report = DOMAIN due
         /\ \A k \in DOMAIN due : report[k].stat = due[k]
         /\ {report[k].place : k \in DOMAIN report} = 1..Cardinality(DOMAIN report)
         /\ opts.sort_print => \A j, k \in DOMAIN report :
              j[1] = k[1] /\ report[j].place < report[k].place => due[j].sum >= due[k].sum

(* Of the events between event1 and event2, delay_two() prints the first   *)
(* and both ends of every gap that is long enough; each of the others is   *)
(* counted once, in the number of hidden events printed at its place.      *)
(* delay_remaining() hides none.                                           *)
Visible(s) ==
  {i \in DOMAIN s : \/ i = 1 \/ opts.hide_than = 0
                    \/ s[i].time - s[i - 1].time >= opts.hide_than
                    \/ i < Len(s) /\ s[i + 1].time - s[i].time >= opts.hide_than}
GapsShown ==
  (impl = "delay" /\ opts.timeline /\ history # <<>>) =>
    LET c == Last(history)
        s == Needed(c.between)
        out == walk.between
        isShown(l) == "shown" \in DOMAIN l
        at(j) == SumOver(LAMBDA i : IF isShown(out[i]) THEN 1 ELSE out[i].hidden, 1..j)
        visible == IF paired(c) THEN Visible(s) ELSE DOMAIN s
    IN  (c.delta > 0 /\ Long(c)) \/ (c.rr = "REMAINING_LOST" /\ Exceeds(c.delta)) =>
          /\ at(Len(out)) = Len(s)
          /\ {at(j) : j \in {i \in DOMAIN out : isShown(out[i])}} = visible
          /\ \A j \in DOMAIN out : isShown(out[j]) => out[j].shown = s[at(j)].time

(* What a two-event class prints is exact: the reports of the interval and *)
(* the events around a long delay.                                         *)
OutputExact == config # 0 => ReportsExact /\ GapsShown
================================================================================
