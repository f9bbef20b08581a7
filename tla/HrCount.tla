-------------------------------- MODULE HrCount --------------------------------
(***************************************************************************)
(* hrcount and stat (hrcount.c) over the histograms of count_helpers.c: an *)
(* event is counted on every instance, the counts of HistSize periods make *)
(* a round, and a round is printed when every instance has completed it.   *)
(* hrcount takes a sample every period; the instances are read one after   *)
(* the other, so one may be ahead, and a throttled instance skips periods. *)
(* stat reads all instances at an interval; its period is a whole round.   *)
(***************************************************************************)
EXTENDS Integers, Sequences, FiniteSetsExt

CONSTANTS Ins, HistSize,             \* instances, columns of a round
          Events(_, _),              \* events of an instance in a period
          MaxPeriods                 \* bound on the periods of an instance

Slots == 2

VARIABLES
  name, perins,                         \* "hrcount" or "stat"; --perins
  counters, perins_pos,                 \* hrcount_ctx: last clock and count, position
  hist, sum,                            \* count_dist: the nodes' columns and totals
  rounds, round_nr, need_reset,
  elapsed,                              \* kernel: periods of an instance
  reads,                                \* history: [base, last: the clock of the last reset and
                                        \* of the last read, nr: reads since the reset]
  taken,                                \* history: the events of each period that was read since
  lapped,                               \* an instance went past the rounds that are kept
  report, due,                          \* the round printed last, and what it ought to be
  kept                                  \* counted since the last reset and not printed

optVars == <<name, perins>>
roundVars == <<rounds, round_nr, need_reset>>
vars == <<optVars, counters, perins_pos, hist, sum, roundVars, elapsed, reads, taken, lapped, report, due, kept>>

Node(i) == IF perins THEN i ELSE 0
Columns == 0..(HistSize * Slots - 1)
Sum(f, S) == MapThenSumSet(LAMBDA k : f[k], S)
Empty == [i \in Ins |-> <<>>]

(* count_dist_insert(): the node is made when it is not there, and the     *)
(* position taken modulo the size.                                         *)
count_dist_insert(h, i, pos, count) ==
  LET n == Node(i)
      old == IF n \in DOMAIN h THEN h[n] ELSE [c \in Columns |-> 0]
  IN  [m \in DOMAIN h \cup {n} |->
         IF m = n THEN [old EXCEPT ![pos % (HistSize * Slots)] = @ + count] ELSE h[m]]

(* __hrcount_interval() on a state s: if every instance has completed the  *)
(* round, its columns are printed and cleared.  direct_print() also prints *)
(* and clears the totals, packed_print() does not use them.                *)
PrintPos(s) == (s.rounds + 1) * HistSize
Complete(s) == \A i \in Ins : s.pos[i] >= PrintPos(s)
OfRound(s) == {(s.rounds % Slots) * HistSize + c : c \in 0..(HistSize - 1)}
__hrcount_interval(s) ==
  IF ~Complete(s) THEN s
  ELSE [s EXCEPT
    !.need_reset = @ \/ /\ Cardinality(Ins) >= 2 /\ HistSize >= 2
                        /\ Max({s.pos[i] : i \in Ins}) - PrintPos(s) >= HistSize \div 2,
    !.report = [n \in DOMAIN s.hist |->
                  [columns |-> [c \in 0..(HistSize - 1) |-> s.hist[n][(s.rounds % Slots) * HistSize + c]],
                   total |-> s.sum[n]]],
    !.due = [n \in DOMAIN s.hist |->
               [columns |-> [c \in 0..(HistSize - 1) |->
                  LET p == s.rounds * HistSize + c
                      at == {i \in Ins : Node(i) = n /\ p \in DOMAIN s.taken[i]}
                  IN  MapThenSumSet(LAMBDA i : s.taken[i][p], at)],
                lapped |-> s.lapped]],
    !.kept = @ - MapThenSumSet(LAMBDA n : Sum(s.hist[n], OfRound(s)), DOMAIN s.hist),
    !.hist = [n \in DOMAIN s.hist |-> [c \in Columns |-> IF c \in OfRound(s) THEN 0 ELSE s.hist[n][c]]],
    !.sum = [n \in DOMAIN s.hist |-> 0],
    !.rounds = @ + 1]

Restarted(rs) == [i \in Ins |-> [base |-> rs[i].last, last |-> rs[i].last, nr |-> 0]]

(* hrcount_interval(): the timer; instances that drifted apart start anew. *)
hrcount_reset_slots(s) ==
  [s EXCEPT !.need_reset = FALSE, !.pos = [i \in Ins |-> 0], !.rounds = 0, !.round_nr = 0,
            !.reads = Restarted(@), !.taken = Empty, !.lapped = FALSE, !.kept = 0]
hrcount_reset(s) ==
  [s EXCEPT !.need_reset = FALSE, !.hist = <<>>, !.sum = <<>>, !.pos = [i \in Ins |-> 0],
            !.rounds = 0, !.round_nr = 0,
            !.reads = Restarted(@), !.taken = Empty, !.lapped = FALSE, !.kept = 0]
Interval(s) == LET t == __hrcount_interval(s) IN IF t.need_reset THEN hrcount_reset(t) ELSE t

\* The kernel's counter of an instance after t periods.
Total(i, t) == MapThenSumSet(LAMBDA p : Events(i, p), 1..t)

(* ctx->period in units of one column: monitor_ctx_init() gives stat the   *)
(* time of a whole round.                                                  *)
PeriodLen == IF name = "stat" THEN HistSize ELSE 1

(* The column a read belongs to: for hrcount the period it ends, for stat  *)
(* the number of the read.  stat loses count when a read is two rounds     *)
(* late.                                                                   *)
Place(r, clock) == IF name = "hrcount" THEN clock - r.base - 1 ELSE r.nr
TooLate(r, clock) == name = "stat" /\ clock - r.last >= 2 * HistSize

(* What a read of instance i ought to be counted as. *)
Noted(s, i, clock, value) ==
  LET r == s.reads[i]
      at == Place(r, clock)
      events == value - Total(i, r.last)
  IN  [s EXCEPT !.reads[i] = [r EXCEPT !.last = clock, !.nr = @ + 1],
                !.taken[i] = [p \in DOMAIN @ \cup {at} |-> IF p = at THEN events ELSE @[p]],
                !.lapped = @ \/ at >= (s.rounds + Slots) * HistSize \/ TooLate(r, clock),
                !.kept = @ + events]

(* The group read of an instance, by hrcount_sample() or stat_read(): the  *)
(* leader first, whose clock tells of skipped periods, then the event.     *)
Count(s, i, clock, value) ==
  LET cpu_clock == clock - s.counters[i].clock
      pos == s.pos[i] + IF cpu_clock >= 2 * PeriodLen THEN (cpu_clock \div PeriodLen) - 1 ELSE 0
      counter == value - s.counters[i].count
      n == Node(i)
  IN  [Noted(s, i, clock, value) EXCEPT
                !.counters[i] = [clock |-> clock, count |-> value],
                !.hist = count_dist_insert(@, i, pos, counter),
                !.sum = [m \in DOMAIN @ \cup {n} |->
                           (IF m \in DOMAIN @ THEN @[m] ELSE 0) + IF m = n THEN counter ELSE 0],
                !.pos[i] = pos + 1]

\* The end of hrcount_sample(): the last instance to complete a round prints it.
RoundNr(s, i) ==
  IF s.pos[i] < PrintPos(s) THEN s
  ELSE IF s.round_nr + 1 >= Cardinality(Ins) THEN __hrcount_interval([s EXCEPT !.round_nr = 0])
  ELSE [s EXCEPT !.round_nr = @ + 1]

State == [counters |-> counters, pos |-> perins_pos, hist |-> hist, sum |-> sum, rounds |-> rounds,
          round_nr |-> round_nr, need_reset |-> need_reset, reads |-> reads, taken |-> taken, lapped |-> lapped,
          report |-> report, due |-> due, kept |-> kept]
Becomes(state) ==
  \E s \in {state} :
    /\ counters' = s.counters /\ perins_pos' = s.pos /\ hist' = s.hist /\ sum' = s.sum
    /\ rounds' = s.rounds /\ round_nr' = s.round_nr /\ need_reset' = s.need_reset
    /\ reads' = s.reads /\ taken' = s.taken /\ lapped' = s.lapped /\ report' = s.report /\ due' = s.due /\ kept' = s.kept

-----------------------------------------------------------------------------
\* A period passes.
Passes(i) == elapsed[i] < MaxPeriods /\ elapsed' = [elapsed EXCEPT ![i] = @ + 1]

\* Nothing is read: the sample is throttled, or stat waits for its interval.
Period(i) ==
  /\ name # "none"
  /\ name = "stat" => \A j \in Ins : elapsed[i] <= elapsed[j]
  /\ Passes(i)
  /\ UNCHANGED <<optVars, counters, perins_pos, hist, sum, roundVars, reads, taken, lapped, report, due, kept>>

hrcount_sample(i) ==
  /\ name = "hrcount" /\ Passes(i)
  /\ Becomes(RoundNr(Count(State, i, elapsed'[i], Total(i, elapsed'[i])), i))
  /\ UNCHANGED optVars

hrcount_interval ==
  /\ name = "hrcount" /\ Becomes(Interval(State))
  /\ UNCHANGED <<optVars, elapsed>>

\* interval_handle(): stat_read() of one instance after the other, then the interval.
ReadAll(s) == FoldSet(LAMBDA i, t : Count(t, i, elapsed[i], Total(i, elapsed[i])), s, Ins)
stat_interval ==
  /\ name = "stat" /\ \A i, j \in Ins : elapsed[i] = elapsed[j]
  /\ \A i \in Ins : elapsed[i] > counters[i].clock
  /\ Becomes(Interval(ReadAll(State)))
  /\ UNCHANGED <<optVars, elapsed>>

\* monitor_ctx_init()
monitor_ctx_init(n, p) ==
  /\ name = "none" /\ name' = n /\ perins' = p
  /\ UNCHANGED <<counters, perins_pos, hist, sum, roundVars, elapsed, reads, taken, lapped, report, due, kept>>

Init ==
  /\ name = "none" /\ perins = FALSE
  /\ counters = [i \in Ins |-> [clock |-> 0, count |-> 0]] /\ perins_pos = [i \in Ins |-> 0]
  /\ hist = <<>> /\ sum = <<>> /\ rounds = 0 /\ round_nr = 0 /\ need_reset = FALSE
  /\ elapsed = [i \in Ins |-> 0]
  /\ reads = [i \in Ins |-> [base |-> 0, last |-> 0, nr |-> 0]]
  /\ taken = Empty /\ lapped = FALSE /\ report = <<>> /\ due = <<>> /\ kept = 0

Next ==
  \/ \E n \in {"hrcount", "stat"}, p \in BOOLEAN : monitor_ctx_init(n, p)
  \/ \E i \in Ins : Period(i) \/ hrcount_sample(i)
  \/ hrcount_interval \/ stat_interval
Spec == Init /\ [][Next]_vars

-----------------------------------------------------------------------------
(* A printed column is what the instances counted in that period (stat: by *)
(* that read), all of them and nothing of another one, while no instance   *)
(* is more than the kept rounds ahead and no read of stat two rounds late. *)
(* Ahead, late or not, what was counted since the last reset is printed    *)
(* once: what is not printed yet is in the columns.                        *)
RoundsExact ==
  /\ DOMAIN report = DOMAIN due
  /\ \A n \in DOMAIN due : due[n].lapped \/ report[n].columns = due[n].columns
  /\ kept = MapThenSumSet(LAMBDA n : Sum(hist[n], Columns), DOMAIN hist)
================================================================================
