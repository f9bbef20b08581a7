------------------------------- MODULE MCParts -------------------------------
(***************************************************************************)
(* Parts of the program that do not interact with each other: the heap of  *)
(* order.c and the profilers and services that keep state of their own     *)
(* over ordered or unordered events.  A behaviour is one of one part.      *)
(***************************************************************************)
EXTENDS MinHeap

VARIABLES
  part,
  ts_config, tasks, ts_lost, ts_clock, ts_window, ts_losses,
  curr, st, since, matches, freed, ts_known, report, due,
  mode, kl_exited, alloc, gc_free, kl_lost, kl_clock, kl_window, kl_losses,
  queue, live, frees, seen, leaks, expect,
  rq_tracks, bt_lost, bt_clock, bt_window, bt_losses, rq, bt_known, iostat,
  parents, callees, caller_head, depth, recursive, calls, called, shown,
  pid_comm, exited, scanned, ring, now, comm, freedAt, kept,
  te_config, lat, profile, walk, history, te_report, te_due, n_calls,
  on_mode, only_comm, ordered, last_time, runtimes, on_clock, on_curr, on_since, on_lost, runs, on_report, on_due,
  hr_name, perins, counters, perins_pos, hist, sum, rounds, round_nr, need_reset, elapsed, reads, taken, lapped,
  hr_report, hr_due, hr_kept,
  program, given, ex_state, code, pc, stack, ax, mem

Option(filter, S, D, noS) == [filter |-> filter, S |-> S, D |-> D, noS |-> noS]

TS == INSTANCE TaskState WITH
        Pids <- {1, 2}, Cpus <- {1, 3}, FilterPids <- {1}, MaxTime <- 4, MaxLost <- 1,
        Configs <- {Option("none", FALSE, FALSE, FALSE), Option("pid", FALSE, FALSE, TRUE),
                    Option("comm", TRUE, TRUE, FALSE)},
        config <- ts_config, lost_list <- ts_lost, clock <- ts_clock, window <- ts_window,
        losses <- ts_losses, known <- ts_known

KL == INSTANCE Kmemleak WITH
        Ptrs <- {1, 2}, Cpus <- {1, 2}, Sec <- 2, MaxTime <- 5, MaxLost <- 2,
        exited <- kl_exited, lost_list <- kl_lost, clock <- kl_clock, window <- kl_window,
        losses <- kl_losses

BT == INSTANCE Blktrace WITH
        Sectors <- 0 .. 2, Reqs <- {1, 2}, MaxTime <- 6, MaxLost <- 1,
        lost_list <- bt_lost, clock <- bt_clock, window <- bt_window, losses <- bt_losses,
        known <- bt_known

CT == INSTANCE CallTree WITH Functions <- {"f", "g", "h"}

CM == INSTANCE Comm WITH Pids <- {1, 2}, Names <- {"x", "y"}, Cpus <- {1, 2}, MaxEvents <- 3

(* The calls of a two-event class: pairs and remaining events with their   *)
(* delays, and for --detail the events around a pair.                      *)
Opts == [greater_than |-> 2, lower_than |-> 0, hide_than |-> 0, after_event2 |-> 2, perins |-> FALSE,
         sort_print |-> FALSE, only_than |-> FALSE, timeline |-> FALSE, first_n |-> 1, stack |-> {"tp1", "tp2"}]
Pair(d, k, i) == [delta |-> d, key |-> k, id |-> i, rr |-> "NOT_REMAINING", same |-> TRUE, failed |-> d = 2,
                  stack2 |-> 3 - i, before |-> <<>>, between |-> <<>>, after |-> <<>>]
Plain == {Pair(0, 1, 1), Pair(1, 1, 1), Pair(2, 1, 1), Pair(2, 2, 1), Pair(2, 1, 2), Pair(3, 2, 1)}
Remaining == {[Pair(1, 2, 2) EXCEPT !.rr = r] : r \in {"REMAINING_LOST", "REMAINING_SYSCALLS", "REMAINING_EXIT"}}
AllCalls == Plain \cup Remaining \cup {[Pair(2, 1, 2) EXCEPT !.same = FALSE]}
EventsAt(T) == {[i \in 1..Len(t) |-> [time |-> t[i], need |-> n[i]]] : t \in T, n \in [1..4 -> BOOLEAN]}
Gaps == {<<>>, <<1>>, <<1, 2, 3, 4>>, <<1, 2, 4>>, <<1, 3, 4>>, <<2, 4>>}
Details == {[Pair(5, 1, 1) EXCEPT !.between = e, !.rr = r] :
              e \in EventsAt(Gaps), r \in {"NOT_REMAINING", "REMAINING_LOST"}}
      \cup {[Pair(5, 1, 1) EXCEPT !.before = e, !.after = f] :
              e \in EventsAt({<<>>, <<-2, -1>>}), f \in EventsAt({<<>>, <<6, 7, 8>>})}
Class(i, o, c, max) == [impl |-> i, opts |-> o, calls |-> c, max |-> max]
Timeline(h) == [Opts EXCEPT !.timeline = TRUE, !.hide_than = h]
TwoEventConfigs == <<
  Class("delay", [Opts EXCEPT !.perins = TRUE], Plain, 4),
  Class("delay", [Opts EXCEPT !.perins = TRUE, !.sort_print = TRUE, !.only_than = TRUE], Plain, 4),
  Class("syscalls", [Opts EXCEPT !.perins = TRUE], AllCalls, 3),
  Class("syscalls", [Opts EXCEPT !.sort_print = TRUE], AllCalls, 3),
  Class("pair", Opts, AllCalls, 3),
  Class("kmemprof", Opts, AllCalls, 3), Class("kmemprof", [Opts EXCEPT !.stack = {"tp2"}], AllCalls, 3),
  Class("delay", Timeline(0), Details, 1), Class("delay", Timeline(1), Details, 1),
  Class("delay", Timeline(2), Details, 1), Class("delay", Timeline(3), Details, 1),
  Class("delay", [Timeline(2) EXCEPT !.greater_than = 0, !.lower_than = 6], Details, 1)>>
TE == INSTANCE TwoEvent WITH
        Configs <- TwoEventConfigs, config <- te_config, report <- te_report, due <- te_due

CommOf(t) == IF t < 3 THEN 1 ELSE 2
AllowedOn(cpu) == IF cpu = 1 THEN {0, 1, 2, 3} ELSE {0, 1}
ON == INSTANCE OnCpu WITH
        Cpus <- {1, 2}, Tids <- {1, 2, 3}, Comm <- CommOf, Allowed <- AllowedOn, MaxTime <- 4,
        mode <- on_mode, clock <- on_clock, curr <- on_curr, since <- on_since, lost <- on_lost,
        report <- on_report, due <- on_due

EventsIn(i, p) == IF i = 1 THEN p ELSE 10 * p
HR == INSTANCE HrCount WITH
        Ins <- {1, 2}, HistSize <- 2, Events <- EventsIn, MaxPeriods <- 5,
        name <- hr_name, report <- hr_report, due <- hr_due, kept <- hr_kept

(* Expressions over a char, an array of two shorts and an int: every pair  *)
(* of binary operators in both nestings, and the rest of the grammar.      *)
T == INSTANCE ExprTree
Operators == {"Mul", "Div", "Mod", "Add", "Sub", "Shl", "Shr", "Lt", "Le", "Gt", "Ge", "Eq", "Ne",
              "And", "Xor", "Or", "Lan", "Lor"}
vc == T!Var("c")
vx == T!Var("x")
vh == T!Var("h")
zero == T!Num(0)
one == T!Num(1)
two == T!Num(2)
three == T!Num(3)
Places == {vc, vx, T!Index(vh, one), T!Unary("Mul", T!Bin("Add", vh, one)),
           T!Unary("Mul", T!Cast(10, vh)), T!Unary("Mul", T!Unary("And", vx))}
Nested == UNION {{T!Bin(o, T!Bin(q, vx, three), vc), T!Bin(o, vx, T!Bin(q, vc, two))} : o, q \in Operators}
Unaries == UNION {{T!Unary(u, T!Bin(o, vx, two)), T!Bin(o, T!Unary(u, vx), T!Unary(u, two)),
                   T!Bin(o, vx, T!Unary(u, vc)), T!Unary(u, T!Unary("Sub", vx))} :
                  u \in {"Add", "Sub", "!", "~"}, o \in Operators}
Steps == {T!Step(o, p, l) : o \in {"Inc", "Dec"}, p \in BOOLEAN, l \in Places}
Stores == UNION {{T!Assigned(l, T!Bin("Sub", vx, three)),
                  T!Comma(T!Assigned(l, T!Assigned(vc, two)), T!Bin("Add", l, vc)),
                  T!Bin("Lan", T!Bin("Gt", l, two), T!Assigned(l, zero))} : l \in Places}
Conds == UNION {{T!CondOf(T!Bin(o, vx, vc), T!Step("Inc", TRUE, vx), T!CondOf(vc, two, vx)),
                 T!Bin(o, T!CondOf(vx, vc, two), three),
                 T!CondOf(T!CondOf(vc, vx, two), T!Assigned(vx, two), T!Bin(o, vx, two))} : o \in Operators}
Others == {T!SizeOf(10), T!SizeOf(1), T!Call("ntohl", vx), T!Bin("Add", T!Call("ntohs", T!Index(vh, zero)), vx),
           T!Bin("Sub", T!Unary("And", T!Index(vh, one)), vh), T!Index(T!Bin("Sub", T!Bin("Add", vh, two), one), zero),
           T!Step("Inc", TRUE, T!Index(vh, T!Unary("!", vc)))}
(* The smallest long divided by a number.                                  *)
Smallest == UNION {{T!Bin(o, T!Bin("Shl", one, T!Num(15)), T!Unary("Sub", n)) : n \in {one, two, vc}} :
                   o \in {"Div", "Mod"}}
ExprPrograms == Nested \cup Unaries \cup Steps \cup Stores \cup Conds \cup Others \cup Smallest
Bytes(v) == [p \in 100..109 |-> v[p - 99]]
ExprMemories == {Bytes(<<1, 0, 3, 2, 1, 0, 1, 3, 0, 0>>), Bytes(<<2, 0, 0, 0, 3, 3, 2, 0, 0, 3>>),
                 Bytes(<<0, 0, 0, 0, 0, 0, 0, 0, 0, 0>>)}
EX == INSTANCE Expr WITH
        ByteBits <- 2, Programs <- ExprPrograms, Memories <- ExprMemories, state <- ex_state, a <- ax

heapVars == <<data, key>>
tsVars == <<ts_config, tasks, ts_lost, ts_clock, ts_window, ts_losses, curr, st, since, matches,
            freed, ts_known, report, due>>
klVars == <<mode, kl_exited, alloc, gc_free, kl_lost, kl_clock, kl_window, kl_losses, queue, live,
            frees, seen, leaks, expect>>
btVars == <<rq_tracks, bt_lost, bt_clock, bt_window, bt_losses, rq, bt_known, iostat>>
ctVars == <<parents, callees, caller_head, depth, recursive, calls, called, shown>>
cmVars == <<pid_comm, exited, scanned, ring, now, comm, freedAt, kept>>

teVars == <<te_config, lat, profile, walk, history, te_report, te_due, n_calls>>
onVars == <<on_mode, only_comm, ordered, last_time, runtimes, on_clock, on_curr, on_since, on_lost, runs,
            on_report, on_due>>
hrVars == <<hr_name, perins, counters, perins_pos, hist, sum, rounds, round_nr, need_reset, elapsed, reads, taken,
            lapped, hr_report, hr_due, hr_kept>>
exVars == <<program, given, ex_state, code, pc, stack, ax, mem>>

Parts == {"heap", "task-state", "kmemleak", "blktrace", "call", "comm", "two-event", "oncpu", "hrcount", "expr"}

PartsInit ==
  /\ part \in Parts
  /\ Init /\ (part # "heap" => \A e \in Elems : key[e] = 1)
  /\ TS!Init /\ KL!Init /\ BT!Init /\ CT!Init /\ CM!Init /\ TE!Init /\ ON!Init /\ HR!Init /\ EX!Init

HeapStep ==
  /\ part = "heap" /\ Next
  /\ UNCHANGED <<part, tsVars, klVars, btVars, ctVars, cmVars, teVars, onVars, hrVars, exVars>>
TaskStateStep ==
  /\ part = "task-state" /\ TS!Next
  /\ UNCHANGED <<part, heapVars, klVars, btVars, ctVars, cmVars, teVars, onVars, hrVars, exVars>>
KmemleakStep ==
  /\ part = "kmemleak" /\ KL!Next
  /\ UNCHANGED <<part, heapVars, tsVars, btVars, ctVars, cmVars, teVars, onVars, hrVars, exVars>>
BlktraceStep ==
  /\ part = "blktrace" /\ BT!Next
  /\ UNCHANGED <<part, heapVars, tsVars, klVars, ctVars, cmVars, teVars, onVars, hrVars, exVars>>
CallStep ==
  /\ part = "call" /\ CT!Next
  /\ UNCHANGED <<part, heapVars, tsVars, klVars, btVars, cmVars, teVars, onVars, hrVars, exVars>>
CommServiceStep ==
  /\ part = "comm" /\ CM!Next
  /\ UNCHANGED <<part, heapVars, tsVars, klVars, btVars, ctVars, teVars, onVars, hrVars, exVars>>
TwoEventStep ==
  /\ part = "two-event" /\ TE!Next
  /\ UNCHANGED <<part, heapVars, tsVars, klVars, btVars, ctVars, cmVars, onVars, hrVars, exVars>>
OnCpuStep ==
  /\ part = "oncpu" /\ ON!Next
  /\ UNCHANGED <<part, heapVars, tsVars, klVars, btVars, ctVars, cmVars, teVars, hrVars, exVars>>
HrCountStep ==
  /\ part = "hrcount" /\ HR!Next
  /\ UNCHANGED <<part, heapVars, tsVars, klVars, btVars, ctVars, cmVars, teVars, onVars, exVars>>
ExprStep ==
  /\ part = "expr" /\ EX!Next
  /\ UNCHANGED <<part, heapVars, tsVars, klVars, btVars, ctVars, cmVars, teVars, onVars, hrVars>>

PartsNext == HeapStep \/ TaskStateStep \/ KmemleakStep \/ BlktraceStep \/ CallStep
          \/ CommServiceStep \/ TwoEventStep \/ OnCpuStep \/ HrCountStep \/ ExprStep

PartsVars == <<part, heapVars, tsVars, klVars, btVars, ctVars, cmVars, teVars, onVars, hrVars, exVars>>
PartsSpec == PartsInit /\ [][PartsNext]_PartsVars

(* The properties of the parts, each stated in the part's own module:      *)
(* reported task intervals, leak reports, request latencies, the printed   *)
(* call tree, the thread names that are kept, the output of the two-event  *)
(* classes, measured runs, counted rounds and the values of expressions.   *)
(* The variables of the other parts do not move.                           *)
IntervalsExact == part = "task-state" => TS!IntervalsExact
ReportExact    == part = "kmemleak" => KL!ReportExact
RequestLatency == part = "blktrace" => BT!RequestLatency
TreePrinted    == part = "call" => CT!TreePrinted
NamesKept      == part = "comm" => CM!NamesKept
OutputExact    == part = "two-event" => TE!OutputExact
TimesExact     == part = "oncpu" => ON!TimesExact
RoundsExact    == part = "hrcount" => HR!RoundsExact
RunsAsWritten  == part = "expr" => EX!RunsAsWritten
=============================================================================
