---------------------------- MODULE OrderCausality ----------------------------
(***************************************************************************)
(* The limits of a call keep the sort from running ahead of a ring buffer  *)
(* when every sample is output at the time it is taken, but for the calls  *)
(* that have lost their limit.                                             *)
(***************************************************************************)
EXTENDS OrderDelivery

\* No output is delayed, and every record but LOST has a time.
Prompt == MaxNest = 0 /\ MaxOther = 0

IsSample(m, i) == i \in 1 .. head(m) /\ rb[m][i].type = "SAMPLE"

NoDelay == others = 0 /\ \A m \in Maps : inflight[m] = <<>>

\* The samples of a ring buffer are in time order, and a sample follows every
\* LOST record.
RingTimes ==
    \A m \in Maps :
        /\ \A i \in 1 .. head(m) : /\ rb[m][i].time <= clock
                                   /\ \/ IsSample(m, i)
                                      \/ rb[m][i].type = "LOST" /\ IsSample(m, i + 1)
        /\ \A i, j \in 1 .. head(m) :
              i < j /\ IsSample(m, i) /\ IsSample(m, j) => rb[m][i].time < rb[m][j].time

\* What a step adds to a ring buffer: a sample taken now, and a LOST record in
\* front of it when there were losses.
AddsNothing(m) == head(m)' = head(m)
AddsSample(m) ==
    /\ KernelSample(m) /\ klost[m] = {} /\ head(m)' = head(m) + 1
    /\ rb'[m][head(m) + 1] = Sample(clock + 1)
AddsLost(m) ==
    /\ KernelSample(m) /\ klost[m] # {} /\ head(m)' = head(m) + 2
    /\ rb'[m][head(m) + 1] = Lost(klost[m]) /\ rb'[m][head(m) + 2] = Sample(clock + 1)

LEMMA Appended ==
  ASSUME NEW s \in Seq(Record), NEW a \in Record, NEW b \in Record
  PROVE  /\ Len(s \o <<a>>) = Len(s) + 1 /\ (s \o <<a>>)[Len(s) + 1] = a
         /\ Len(s \o <<a, b>>) = Len(s) + 2 /\ (s \o <<a, b>>)[Len(s) + 1] = a
         /\ (s \o <<a, b>>)[Len(s) + 2] = b
OBVIOUS

LEMMA RecordAt ==
  ASSUME TypeOK, NEW m \in Maps, NEW i \in 1 .. head(m)
  PROVE  /\ rb[m][i].type \in {"SAMPLE", "LOST", "OTHER"} /\ rb[m][i].time \in Nat
         /\ rb[m][i].lost \in SUBSET (Maps \X Nat)
<1>1. rb[m] \in Seq(Record) /\ i \in 1 .. Len(rb[m])
  BY Zenon DEF TypeOK, KernelTypeOK, head
<1>2. rb[m][i] \in Record
  BY <1>1
<1> QED
  BY <1>2, Zenon DEF Record

LEMMA Adds ==
  ASSUME Prompt, TypeOK, NoDelay, Next, NEW k \in Maps
  PROVE  /\ NoDelay' /\ clock <= clock' /\ clock \in Nat /\ clock' \in Nat
         /\ head(k) \in Nat
         /\ \A i \in 1 .. head(k) : rb'[k][i] = rb[k][i]
         /\ AddsNothing(k) \/ AddsSample(k) \/ AddsLost(k)
         /\ KernelSample(k) => clock' = clock + 1
<1> USE DEF TypeOK, KernelTypeOK
<1>1. head(k) \in Nat /\ \A i \in 1 .. head(k) : rb'[k][i] = rb[k][i]
  BY Grows DEF head
<1>2. ASSUME NEW m \in Maps PROVE ~KernelSampleBegin(m) /\ ~KernelSampleEnd(m) /\ ~KernelOther(m)
  BY DEF KernelSampleBegin, KernelSampleEnd, KernelOther, NoDelay, Prompt
<1>3. NoDelay' /\ clock' \in Nat /\ clock <= clock'
  BY <1>2, UserOnly, SMTT(60) DEF Next, Kernel, KernelSample, KernelTick, StreamArrive, kernelVars, ringKernelVars, NoDelay
<1>4. ASSUME NEW m \in Maps, KernelSample(m)
      PROVE  AddsNothing(k) \/ AddsSample(k) \/ AddsLost(k)
  <2> DEFINE r == Sample(clock + 1)
  <2>1. r \in Record /\ Lost(klost[m]) \in Record
    BY DEF Sample, Lost, Record
  <2>2. \/ rb' = rb
        \/ klost[m] = {} /\ rb' = [rb EXCEPT ![m] = rb[m] \o <<r>>]
        \/ klost[m] # {} /\ rb' = [rb EXCEPT ![m] = rb[m] \o <<Lost(klost[m]), r>>]
    BY <1>4, Zenon DEF KernelSample, Output
  <2>3. CASE rb' = rb \/ k # m
    BY <2>2, <2>3, Zenon DEF AddsNothing, head
  <2>4. CASE rb' # rb /\ k = m
    <3>1. \/ klost[m] = {} /\ rb'[m] = rb[m] \o <<r>>
          \/ klost[m] # {} /\ rb'[m] = rb[m] \o <<Lost(klost[m]), r>>
      BY <2>2, <2>4, Zenon
    <3> HIDE DEF r
    <3>2. rb[m] \in Seq(Record)
      OBVIOUS
    <3> QED
      BY <1>4, <2>1, <2>4, <3>1, <3>2, Appended, SMTT(60) DEF AddsSample, AddsLost, head, r
  <2> QED
    BY <2>3, <2>4, Zenon
<1>5. (\A m \in Maps : ~KernelSample(m)) => AddsNothing(k)
  BY <1>2, UserOnly, Zenon DEF Next, Kernel, KernelTick, StreamArrive, kernelVars, ringKernelVars, AddsNothing, head
<1>6. KernelSample(k) => clock' = clock + 1
  BY Zenon DEF KernelSample
<1> QED
  BY <1>1, <1>3, <1>4, <1>5, <1>6, Zenon

LEMMA ClockMoves ==
  ASSUME Prompt, TypeOK, NoDelay, Next
  PROVE  clock \in Nat /\ clock' \in Nat /\ clock <= clock' /\ NoDelay'
<1>0. clock \in Nat
  BY Zenon DEF TypeOK, KernelTypeOK
<1>1. CASE Maps = {}
  <2>1. (clock' = clock \/ clock' = clock + 1) /\ others' = others
    BY <1>1, UserOnly, Zenon DEF Next, Kernel, KernelTick, StreamArrive, kernelVars, ringKernelVars
  <2>2. NoDelay'
    BY <1>1, <2>1, Zenon DEF NoDelay
  <2> QED
    BY <1>0, <2>1, <2>2
<1>2. CASE Maps # {}
  BY <1>2, Adds, Zenon
<1> QED
  BY <1>1, <1>2, Zenon

\* A record of a ring buffer after a step was there before it, or is new.
LEMMA RecordOf ==
  ASSUME Prompt, TypeOK, NoDelay, Next, NEW k \in Maps, NEW i \in 1 .. head(k)'
  PROVE  \/ i \in 1 .. head(k) /\ rb'[k][i] = rb[k][i]
         \/ /\ KernelSample(k) /\ clock' = clock + 1
            /\ rb'[k][i].type = "SAMPLE" => rb'[k][i].time = clock + 1
            /\ rb'[k][i].lost \subseteq klost[k]
<1>1. /\ head(k) \in Nat /\ (KernelSample(k) => clock' = clock + 1)
      /\ \A j \in 1 .. head(k) : rb'[k][j] = rb[k][j]
      /\ AddsNothing(k) \/ AddsSample(k) \/ AddsLost(k)
  BY Adds, Zenon
<1>2. CASE AddsNothing(k)
  BY <1>1, <1>2, Zenon DEF AddsNothing
<1>3. CASE AddsSample(k)
  <2>1. i \in 1 .. head(k) \/ i = head(k) + 1
    BY <1>1, <1>3 DEF AddsSample
  <2> QED
    BY <1>1, <1>3, <2>1 DEF AddsSample, Sample
<1>4. CASE AddsLost(k)
  <2>1. i \in 1 .. head(k) \/ i = head(k) + 1 \/ i = head(k) + 2
    BY <1>1, <1>4 DEF AddsLost
  <2> QED
    BY <1>1, <1>4, <2>1 DEF AddsLost, Sample, Lost
<1> QED
  BY <1>1, <1>2, <1>3, <1>4, Zenon

LEMMA RingTimesStep ==
  ASSUME Prompt, TypeOK, NoDelay, RingTimes, Next
  PROVE  RingTimes'
<1> SUFFICES ASSUME NEW m \in Maps
             PROVE  /\ \A i \in 1 .. head(m)' : /\ rb'[m][i].time <= clock'
                                                /\ \/ IsSample(m, i)'
                                                   \/ rb'[m][i].type = "LOST" /\ IsSample(m, i + 1)'
                    /\ \A i, j \in 1 .. head(m)' :
                          i < j /\ IsSample(m, i)' /\ IsSample(m, j)' => rb'[m][i].time < rb'[m][j].time
  BY Zenon DEF RingTimes
<1> DEFINE h == head(m)
<1>1. /\ clock <= clock' /\ clock \in Nat /\ clock' \in Nat /\ h \in Nat
      /\ \A i \in 1 .. h : rb'[m][i] = rb[m][i]
      /\ AddsNothing(m) \/ AddsSample(m) \/ AddsLost(m)
      /\ KernelSample(m) => clock' = clock + 1
  BY Adds, Zenon
<1>2. /\ \A i \in 1 .. h : rb[m][i].time \in Nat /\ rb[m][i].time <= clock
      /\ \A i \in 1 .. h : \/ rb[m][i].type = "SAMPLE"
                           \/ rb[m][i].type = "LOST" /\ i + 1 \in 1 .. h /\ rb[m][i + 1].type = "SAMPLE"
      /\ \A i, j \in 1 .. h : i < j /\ rb[m][i].type = "SAMPLE" /\ rb[m][j].type = "SAMPLE"
                                => rb[m][i].time < rb[m][j].time
  BY RecordAt, Zenon DEF RingTimes, IsSample
<1>3. h' \in Nat /\ h <= h'
  BY <1>1 DEF AddsNothing, AddsSample, AddsLost
<1>4. /\ \A i \in 1 .. h' : rb'[m][i].time \in Nat /\ rb'[m][i].time <= clock'
      /\ \A i \in 1 .. h' : \/ rb'[m][i].type = "SAMPLE"
                            \/ rb'[m][i].type = "LOST" /\ i + 1 \in 1 .. h' /\ rb'[m][i + 1].type = "SAMPLE"
      /\ \A i, j \in 1 .. h' : i < j /\ rb'[m][i].type = "SAMPLE" /\ rb'[m][j].type = "SAMPLE"
                                 => rb'[m][i].time < rb'[m][j].time
  <2> HIDE DEF h
  <2>1. CASE h' = h
    BY <1>1, <1>2, <2>1, SMTT(60)
  <2>2. CASE KernelSample(m) /\ h' = h + 1 /\ rb'[m][h + 1] = Sample(clock + 1)
    <3>1. clock' = clock + 1 /\ \A i \in 1 .. h' : i \in 1 .. h \/ i = h + 1
      BY <1>1, <2>2
    <3> QED
      BY <1>1, <1>2, <2>2, <3>1, SMTT(60) DEF Sample
  <2>3. CASE KernelSample(m) /\ h' = h + 2 /\ rb'[m][h + 1] = Lost(klost[m])
             /\ rb'[m][h + 2] = Sample(clock + 1)
    <3>1. clock' = clock + 1 /\ \A i \in 1 .. h' : i \in 1 .. h \/ i = h + 1 \/ i = h + 2
      BY <1>1, <2>3
    <3>2. rb'[m][h + 1].time = 0 /\ rb'[m][h + 1].type = "LOST"
          /\ rb'[m][h + 2].time = clock + 1 /\ rb'[m][h + 2].type = "SAMPLE"
      BY <2>3 DEF Sample, Lost
    <3> QED
      BY <1>1, <1>2, <2>3, <3>1, <3>2, SMTT(60)
  <2> QED
    BY <1>1, <2>1, <2>2, <2>3, Zenon DEF AddsNothing, AddsSample, AddsLost, h
<1> QED
  BY <1>4, Zenon DEF IsSample, h
-----------------------------------------------------------------------------
(* The limits of a call.                                                   *)

\* A call begins with one of its three limits.
Begins ==
    /\ pc \in {"idle", "entry"} /\ pc' = "init" /\ todo' = Queues /\ heap' = {} /\ ~need_break' /\ cur' = NoMap
    /\ UNCHANGED <<rb, start, clock>>
    /\ \/ \E m \in Maps : /\ pc = "entry" /\ cur = m /\ target_map' = m /\ target_end' = end[m]
                          /\ target_time' = NoTime
       \/ Streams # {} /\ target_map' = NoMap /\ target_time' = NoTime
       \/ ticks # <<>> /\ target_map' = NoMap /\ target_time' = Head(ticks)

LEMMA Targets ==
  ASSUME Next
  PROVE  Begins \/ (UNCHANGED targetVars /\ (Running' => Running) /\ (Running' => todo' \subseteq todo))
<1>1. CASE Kernel
  BY <1>1, KernelOnly, Zenon DEF userVars, callVars, Running
<1>2. ASSUME NEW m \in Maps, BeginMmap(m) PROVE Begins
  BY <1>2, UserOnly, Zenon DEF BeginMmap, Begin, Begins, Call, ringKernelVars
<1>3. ASSUME NEW m \in Maps, OrderMmap(m) \/ FlushMap(m) \/ EmptyMmap(m)
      PROVE  UNCHANGED targetVars /\ ~Running'
  BY <1>3, Zenon DEF OrderMmap, FlushMap, EmptyMmap, Enter, Running
<1>4. OrderStream \/ OrderTo => Begins
  BY Zenon DEF OrderStream, OrderTo, Begin, Begins, ringKernelVars
<1>5. StaleTick \/ Disable => UNCHANGED targetVars /\ Running' = Running /\ todo' = todo
  BY Zenon DEF StaleTick, Disable, callVars, Running
<1>6. CASE Step
  <2>1. SortEmpty \/ Unwind => UNCHANGED targetVars /\ ~Running'
    BY Zenon DEF SortEmpty, Unwind, Break, Running
  <2>2. ASSUME NEW m \in Maps, InitEmpty(m) \/ InitRecord(m) \/ InitSample(m)
        PROVE  UNCHANGED targetVars /\ Running /\ todo' \subseteq todo
    BY <2>2, Zenon DEF InitEmpty, InitRecord, InitSample, InitOn, InitDone, Running
  <2>3. ASSUME NEW m \in Maps, SortTargetTime(m) \/ SortLostWait(m) \/ SortMap(m) \/ ConsumeMap(m)
        PROVE  UNCHANGED targetVars /\ Running /\ todo' = todo
    BY <2>3, Zenon DEF SortTargetTime, SortLostWait, SortMap, ConsumeMap, Peek, Break, Running
  <2>4. ASSUME NEW m \in Maps, ReadEmpty(m) \/ ReadRecord(m) \/ ReadSample(m)
        PROVE  UNCHANGED targetVars /\ Running /\ todo' = todo
    BY <2>4, Zenon DEF ReadEmpty, ReadRecord, ReadSample, ReadOn, Running
  <2>5. ASSUME NEW s \in Streams, InitStream(s) \/ InitStreamStop(s) \/ SortStream(s)
        PROVE  UNCHANGED targetVars /\ Running /\ todo' \subseteq todo
    BY <2>5, Zenon DEF InitStream, InitStreamStop, SortStream, InitDone, Peek, Running
  <2> QED
    BY <1>6, <2>1, <2>2, <2>3, <2>4, <2>5, Zenon DEF Step
<1> QED
  BY <1>1, <1>2, <1>3, <1>4, <1>5, <1>6, Zenon DEF Next, Call

\* No element of s is later than d.
Until(s, d) == \A i \in 1 .. Len(s) : s[i] <= d

\* A limit is a time or a position the kernel has passed.
LimitsPast ==
    /\ Until(ticks, clock)
    /\ \A s \in Streams : Until(slog[s], clock)
    /\ target_time <= clock
    /\ target_map # NoMap => target_end = 0 \/ IsSample(target_map, target_end)
    /\ pc = "entry" => end[cur] = 0 \/ IsSample(cur, end[cur])

\* The streams join the heap before the ring buffers, and the loop starts when
\* all have joined.
Joining ==
    /\ pc \in {"sort", "consume", "read"} => todo = {}
    /\ pc = "init" /\ todo \cap Streams # {} => Maps \subseteq todo
    /\ pc \in {"init", "sort"} => ~need_break

HasLimit == Running => target_map # NoMap \/ target_time # NoTime \/ Streams # {}

LEMMA UntilNext ==
  ASSUME NEW s \in Seq(Nat), NEW c \in Nat, NEW d \in Nat, c <= d, NEW t \in Nat, t <= d, Until(s, c)
  PROVE  Until(s, d) /\ Until(Append(s, t), d) /\ (s # <<>> => Until(Tail(s), d))
<1>1. \A i \in 1 .. Len(s) : s[i] \in Nat /\ s[i] <= d
  BY DEF Until
<1>2. \A i \in 1 .. Len(Append(s, t)) : Append(s, t)[i] <= d
  BY <1>1
<1>3. ASSUME s # <<>>, NEW i \in 1 .. Len(Tail(s)) PROVE Tail(s)[i] <= d
  <2>1. i + 1 \in 1 .. Len(s) /\ Tail(s)[i] = s[i + 1]
    BY <1>3
  <2> QED
    BY <1>1, <2>1, Zenon
<1> QED
  BY <1>1, <1>2, <1>3, Zenon DEF Until

LEMMA LimitsPastStep ==
  ASSUME Prompt, TypeOK, Control, NoDelay, SpaceSafe, RingTimes, LimitsPast, Next
  PROVE  LimitsPast'
<1> USE OrderAssumption
<1>0. clock \in Nat /\ clock' \in Nat /\ clock <= clock'
  BY ClockMoves, Zenon
<1>1. Until(ticks', clock')
  <2>1. ticks \in Seq(Nat) /\ Until(ticks, clock)
    BY Zenon DEF LimitsPast, TypeOK, KernelTypeOK
  <2>2. \/ ticks' = ticks
        \/ ticks' = Append(ticks, clock + 1) /\ clock' = clock + 1
        \/ ticks # <<>> /\ ticks' = Tail(ticks)
    <3>1. CASE Kernel
      BY <3>1, Zenon DEF Kernel, KernelSample, KernelSampleBegin, KernelSampleEnd, KernelOther, KernelTick,
         StreamArrive, kernelVars
    <3>2. CASE Call
      BY <3>2, Zenon DEF Call, OrderMmap, FlushMap, Enter, BeginMmap, EmptyMmap, OrderStream, OrderTo, StaleTick,
         Disable, kernelVars
    <3>3. CASE Step
      BY <3>3, ZenonT(60) DEF Step, InitStream, InitStreamStop, SortStream, InitEmpty, InitRecord, InitSample, InitOn,
         SortTargetTime, SortLostWait, SortMap, ConsumeMap, ReadEmpty, ReadRecord, ReadSample,
         ReadOn, SortEmpty, Break, Unwind, kernelVars
    <3> QED
      BY <3>1, <3>2, <3>3, Zenon DEF Next
  <2> QED
    <3>1. ASSUME NEW c \in Nat, c = clock'
          PROVE  Until(ticks, c) /\ Until(Append(ticks, c), c) /\ (ticks # <<>> => Until(Tail(ticks), c))
      BY <1>0, <2>1, <3>1, UntilNext, SMTT(60)
    <3> QED
      BY <1>0, <2>2, <3>1, Zenon
<1>2. ASSUME NEW s \in Streams PROVE Until(slog'[s], clock')
  <2>1. slog \in [Streams -> Seq(Nat)] /\ slog[s] \in Seq(Nat) /\ Until(slog[s], clock)
    BY Zenon DEF LimitsPast, TypeOK, StreamTypeOK
  <2>2. slog' = slog \/ \E r \in Streams, t \in 0 .. clock : slog' = [slog EXCEPT ![r] = Append(slog[r], t)]
    BY UserOnly, Zenon DEF Next, Kernel, KernelSample, KernelSampleBegin, KernelSampleEnd, KernelOther, KernelTick,
       StreamArrive, streamVars
  <2>3. slog'[s] = slog[s] \/ \E t \in 0 .. clock : slog'[s] = Append(slog[s], t)
    BY <2>1, <2>2, Zenon
  <2> QED
    <3>1. ASSUME NEW c \in Nat, c = clock', NEW t \in 0 .. clock
          PROVE  Until(slog[s], c) /\ Until(Append(slog[s], t), c)
      BY <1>0, <2>1, <3>1, UntilNext
    <3>2. 0 \in 0 .. clock
      BY <1>0
    <3> QED
      BY <1>0, <2>3, <3>1, <3>2, Zenon
<1>3. CASE Begins
  <2>1. target_time' <= clock'
    <3>1. target_time' = NoTime \/ (ticks # <<>> /\ target_time' = Head(ticks))
      BY <1>3, Zenon DEF Begins
    <3>2. ticks # <<>> => Head(ticks) <= clock /\ Head(ticks) \in Nat
      <4>1. ticks # <<>> => 1 \in 1 .. Len(ticks) /\ Head(ticks) = ticks[1] /\ ticks[1] \in Nat
        BY DEF TypeOK, KernelTypeOK
      <4> QED
        BY <4>1, Zenon DEF LimitsPast, Until
    <3> QED
      BY <1>0, <3>1, <3>2 DEF NoTime
  <2>2. ASSUME target_map' # NoMap PROVE target_end' = 0 \/ IsSample(target_map, target_end)'
    <3>1. PICK m \in Maps : pc = "entry" /\ cur = m /\ target_map' = m /\ target_end' = end[m] /\ rb' = rb
      BY <1>3, <2>2, Zenon DEF Begins
    <3> QED
      BY <3>1, Zenon DEF LimitsPast, IsSample, head
  <2>3. pc' # "entry"
    BY <1>3, Zenon DEF Begins
  <2> QED
    BY <1>1, <1>2, <2>1, <2>2, <2>3, Zenon DEF LimitsPast
<1>4. CASE UNCHANGED targetVars
  <2>1. target_time' <= clock'
    BY <1>0, <1>4 DEF LimitsPast, targetVars, TypeOK, CallTypeOK, NoTime
  <2>a. ASSUME NEW m \in Maps, NEW i, IsSample(m, i) PROVE IsSample(m, i)'
    BY <2>a, Grows, SMTT(60) DEF IsSample, head
  <2>2. ASSUME target_map' # NoMap PROVE target_end' = 0 \/ IsSample(target_map, target_end)'
    <3>1. target_map \in Maps /\ target_map' = target_map /\ target_end' = target_end
          /\ (target_end = 0 \/ IsSample(target_map, target_end))
      BY <1>4, <2>2, Zenon DEF LimitsPast, targetVars, TypeOK, CallTypeOK
    <3> QED
      BY <2>a, <3>1, Zenon DEF IsSample, head
  <2>3. ASSUME pc' = "entry" PROVE end'[cur'] = 0 \/ IsSample(cur, end[cur])'
    <3>1. ASSUME NEW m \in Maps, Enter(m) PROVE end'[cur'] = 0 \/ IsSample(cur, end[cur])'
      <4>1. cur' = m /\ end'[m] = head(m) /\ rb' = rb
        BY <3>1, Zenon DEF Enter, kernelVars, ringKernelVars, TypeOK, RingTypeOK
      <4>2. head(m) = 0 \/ head(m) \in 1 .. head(m)
        BY DEF TypeOK, KernelTypeOK, head
      <4>3. head(m) \in 1 .. head(m) => rb[m][head(m)].type = "SAMPLE"
        BY <4>2, SMTT(60) DEF RingTimes, IsSample, TypeOK, KernelTypeOK, head
      <4> QED
        BY <4>1, <4>2, <4>3, Zenon DEF IsSample, head
    <3>2. ASSUME pc = "entry", UNCHANGED <<cur, end>> PROVE end'[cur'] = 0 \/ IsSample(cur, end[cur])'
      <4>1. cur \in Maps /\ (end[cur] = 0 \/ IsSample(cur, end[cur]))
        BY <3>2, Zenon DEF Control, Phases, LimitsPast
      <4> QED
        BY <2>a, <3>2, <4>1, Zenon DEF IsSample, head
    <3>3. CASE Kernel
      <4>1. pc = "entry" /\ UNCHANGED <<cur, end>>
        BY <2>3, <3>3, KernelOnly, Zenon DEF userVars, callVars, ringVars
      <4> QED
        BY <3>2, <4>1, Zenon
    <3>4. CASE Call
      <4>1. \A m \in Maps : ~BeginMmap(m) /\ ~EmptyMmap(m)
        BY <2>3, Zenon DEF BeginMmap, EmptyMmap, Begin
      <4>2. ~OrderStream /\ ~OrderTo /\ ~StaleTick /\ ~Disable
        BY <2>3, Zenon DEF OrderStream, OrderTo, Begin, StaleTick, Disable, callVars
      <4> QED
        BY <3>1, <3>4, <4>1, <4>2, Zenon DEF Call, OrderMmap, FlushMap
    <3>5. ~Step
      BY <2>3, ZenonT(60) DEF Step, InitStream, InitStreamStop, SortStream, InitEmpty, InitRecord, InitSample,
         SortTargetTime, SortLostWait, SortMap, ConsumeMap, ReadEmpty, ReadRecord, ReadSample, SortEmpty,
         Unwind, Break, InitOn, InitDone, TurnDone, Peek
    <3> QED
      BY <3>3, <3>4, <3>5, Zenon DEF Next
  <2> QED
    BY <1>1, <1>2, <2>1, <2>2, <2>3, Zenon DEF LimitsPast
<1> QED
  BY <1>3, <1>4, Targets, Zenon

LEMMA JoiningStep ==
  ASSUME TypeOK, Joining, Next
  PROVE  Joining'
<1> USE OrderAssumption
<1>0. ASSUME UNCHANGED <<pc, todo, need_break>> PROVE Joining'
  BY <1>0, Zenon DEF Joining
<1>1. CASE Kernel
  BY <1>0, <1>1, KernelOnly, Zenon DEF userVars, callVars
<1>2. CASE Begins
  BY <1>2, Zenon DEF Begins, Joining, Queues
<1>3. ASSUME NEW m \in Maps, OrderMmap(m) \/ FlushMap(m) \/ EmptyMmap(m) PROVE Joining'
  BY <1>3, Zenon DEF OrderMmap, FlushMap, EmptyMmap, Enter, Joining
<1>4. CASE StaleTick \/ Disable
  BY <1>0, <1>4, Zenon DEF StaleTick, Disable, callVars
<1>5. ASSUME NEW m \in Maps, BeginMmap(m) PROVE Begins
  BY <1>5, Zenon DEF BeginMmap, Begin, Begins, ringKernelVars
<1>6. CASE SortEmpty \/ Unwind
  BY <1>6, Zenon DEF SortEmpty, Unwind, Break, Joining
<1>7. ASSUME NEW m \in Maps, InitEmpty(m) \/ InitRecord(m) \/ InitSample(m) PROVE Joining'
  BY <1>7, SMTT(60) DEF InitEmpty, InitRecord, InitSample, InitOn, InitDone, Joining
<1>8. ASSUME NEW m \in Maps, SortTargetTime(m) \/ SortLostWait(m) \/ SortMap(m) \/ ConsumeMap(m)
      PROVE  Joining'
  BY <1>8, Zenon DEF SortTargetTime, SortLostWait, SortMap, ConsumeMap, Peek, Break, Joining
<1>9. ASSUME NEW m \in Maps, ReadEmpty(m) \/ ReadRecord(m) \/ ReadSample(m) PROVE Joining'
  BY <1>9, SMTT(60) DEF ReadEmpty, ReadRecord, ReadSample, ReadOn, TurnDone, Joining, TypeOK, CallTypeOK
<1>10. ASSUME NEW s \in Streams, InitStream(s) \/ InitStreamStop(s) \/ SortStream(s) PROVE Joining'
  <2>1. CASE InitStream(s)
    <3>1. Maps \subseteq todo /\ s \notin Maps /\ todo' = todo \ {s} /\ need_break' = need_break /\ ~need_break
          /\ pc' = IF todo = {s} THEN "sort" ELSE "init"
      BY <2>1, Zenon DEF InitStream, InitDone, Joining
    <3> QED
      BY <3>1, Zenon DEF Joining
  <2>2. CASE InitStreamStop(s)
    BY <2>2, Zenon DEF InitStreamStop, Joining
  <2>3. CASE SortStream(s)
    BY <2>3, Zenon DEF SortStream, Peek, Joining
  <2> QED
    BY <1>10, <2>1, <2>2, <2>3, Zenon
<1>11. OrderStream \/ OrderTo => Begins
  BY Zenon DEF OrderStream, OrderTo, Begin, Begins, ringKernelVars
<1> QED
  BY <1>1, <1>2, <1>3, <1>4, <1>5, <1>6, <1>7, <1>8, <1>9, <1>10, <1>11, Zenon DEF Next, Call, Step

LEMMA HasLimitStep ==
  ASSUME TypeOK, HasLimit, Next
  PROVE  HasLimit'
<1>1. CASE Begins
  <2>1. ticks # <<>> => Head(ticks) # NoTime
    BY DEF TypeOK, KernelTypeOK, NoTime
  <2> QED
    BY <1>1, <2>1, OrderAssumption, Zenon DEF Begins, HasLimit
<1> QED
  BY <1>1, Targets, Zenon DEF HasLimit, targetVars

-----------------------------------------------------------------------------
(* Nothing is processed that is later than every limit of the call.        *)

Limit(x) ==
    \/ \E s \in Streams : \E i \in 1 .. sbatch[s] : x = slog[s][i]
    \/ target_time # NoTime /\ x = target_time
    \/ target_map # NoMap /\ IsSample(target_map, target_end) /\ x = rb[target_map][target_end].time

\* A ring buffer that is empty when the call looks at it gets nothing but
\* samples later than the limits.
SeenEmpty ==
    Running => \A m \in Maps \ (heap \cup todo) : \A x \in Nat : Limit(x) =>
        \A i \in (start[m] + 1) .. head(m) : IsSample(m, i) => x < rb[m][i].time

\* What is not processed is not earlier than what is, unless a call without a
\* limit has processed that.
NothingEarlier ==
    /\ heap_popped_time <= clock /\ overrun <= heap_popped_time
    /\ \A m \in Maps : \A i \in (Processed(m) + 1) .. head(m) :
          IsSample(m, i) => heap_popped_time <= rb[m][i].time \/ heap_popped_time <= overrun

\* Only what a call without a limit has overrun is raised at init.
HeapTime ==
    \A m \in Maps : Queued(m) =>
        /\ rb[m][start[m]].time <= htime[m]
        /\ htime[m] = rb[m][start[m]].time \/ htime[m] <= overrun

FixedOverrun == fixed_events => overrun > 0

LEMMA LimitPast ==
  ASSUME TypeOK, Control, RingTimes, LimitsPast, NEW x \in Nat, Limit(x)
  PROVE  x <= clock
<1>1. ASSUME NEW s \in Streams, NEW i \in 1 .. sbatch[s] PROVE slog[s][i] <= clock
  BY DEF LimitsPast, Until, Control, BatchBound, TypeOK, StreamTypeOK
<1>2. target_map # NoMap /\ IsSample(target_map, target_end) => rb[target_map][target_end].time <= clock
  BY Zenon DEF IsSample, RingTimes, TypeOK, CallTypeOK
<1> QED
  BY <1>1, <1>2, Zenon DEF Limit, LimitsPast

\* Only while no ring buffer has joined does a call get a new limit.
LEMMA LimitKept ==
  ASSUME TypeOK, Control, Joining, LimitsPast, Next, ~Begins, Running', NEW x \in Nat, Limit(x)'
  PROVE  Limit(x) \/ Maps \subseteq todo'
<1> USE OrderAssumption
<1>1. UNCHANGED targetVars /\ Running
  BY Targets, Zenon
<1>2. target_map # NoMap /\ IsSample(target_map, target_end)'
        => IsSample(target_map, target_end) /\ rb'[target_map][target_end] = rb[target_map][target_end]
  <2>1. target_end' = target_end /\ target_map' = target_map
    BY <1>1, Zenon DEF targetVars
  <2>2. ASSUME NEW n PROVE 0 \notin 1 .. n
    OBVIOUS
  <2>3. target_map # NoMap => target_end = 0 \/ IsSample(target_map, target_end)
    BY Zenon DEF LimitsPast
  <2>4. IsSample(target_map, target_end)' => target_end # 0
    BY <2>1, <2>2, Zenon DEF IsSample
  <2>5. target_map # NoMap /\ IsSample(target_map, target_end)
          => rb'[target_map][target_end] = rb[target_map][target_end]
    BY Grows, Zenon DEF IsSample, head, TypeOK, CallTypeOK
  <2> QED
    BY <2>3, <2>4, <2>5, Zenon
<1>3. ASSUME NEW s \in Streams, NEW i \in 1 .. sbatch[s] PROVE slog'[s][i] = slog[s][i]
  <2>1. slog \in [Streams -> Seq(Nat)] /\ i \in 1 .. Len(slog[s])
    BY SMTT(60) DEF TypeOK, StreamTypeOK, Control, BatchBound
  <2>2. slog' = slog \/ \E r \in Streams, t \in 0 .. clock : slog' = [slog EXCEPT ![r] = Append(slog[r], t)]
    BY UserOnly, Zenon DEF Next, Kernel, KernelSample, KernelSampleBegin, KernelSampleEnd, KernelOther, KernelTick,
       StreamArrive, streamVars
  <2>3. slog'[s] = slog[s] \/ \E t \in 0 .. clock : slog'[s] = Append(slog[s], t)
    BY <2>1, <2>2, Zenon
  <2>4. slog[s] \in Seq(Nat) /\ \A t \in 0 .. clock : Append(slog[s], t)[i] = slog[s][i]
    BY <2>1, SMTT(60) DEF TypeOK, KernelTypeOK
  <2> QED
    BY <2>3, <2>4, Zenon
<1>4. sbatch' = sbatch \/ \E s \in Streams : InitStream(s)
  <2>1. CASE Kernel
    BY <2>1, Zenon DEF Kernel, KernelSample, KernelSampleBegin, KernelSampleEnd, KernelOther, KernelTick,
       StreamArrive, streamVars
  <2>2. CASE Call
    BY <2>2, Zenon DEF Call, OrderMmap, FlushMap, Enter, BeginMmap, EmptyMmap, OrderStream, OrderTo, StaleTick,
       Disable, Begin, streamVars
  <2>3. ASSUME NEW s \in Streams, InitStreamStop(s) \/ SortStream(s) PROVE sbatch' = sbatch
    <3>1. StreamNext(s, FALSE) => sbatch' = sbatch
      <4>1. BatchEnd(s, FALSE) = sbatch[s] /\ sbatch \in [Streams -> Nat]
        BY Zenon DEF BatchEnd, TypeOK, StreamTypeOK
      <4>2. [sbatch EXCEPT ![s] = sbatch[s]] = sbatch
        BY <4>1, Zenon
      <4> QED
        BY <4>1, <4>2, Zenon DEF StreamNext
    <3> QED
      BY <2>3, <3>1, Zenon DEF InitStreamStop, SortStream, streamVars
  <2>4. ASSUME SortEmpty \/ Unwind
               \/ \E m \in Maps : \/ InitEmpty(m) \/ InitRecord(m) \/ InitSample(m)
                                  \/ SortTargetTime(m) \/ SortLostWait(m) \/ SortMap(m) \/ ConsumeMap(m)
                                  \/ ReadEmpty(m) \/ ReadRecord(m) \/ ReadSample(m)
        PROVE  sbatch' = sbatch
    BY <2>4, ZenonT(60) DEF InitEmpty, InitRecord, InitSample, InitOn, SortTargetTime, SortLostWait, SortMap, ConsumeMap,
       ReadEmpty, ReadRecord, ReadSample, ReadOn, SortEmpty, Break, Unwind, streamVars
  <2> QED
    BY <2>1, <2>2, <2>3, <2>4, Zenon DEF Next, Step
<1>5. ASSUME NEW s \in Streams, InitStream(s) PROVE Maps \subseteq todo'
  BY <1>5, Zenon DEF InitStream, InitDone, Joining
<1>6. CASE sbatch' = sbatch
  BY <1>1, <1>2, <1>3, <1>6, SMTT(60) DEF Limit, targetVars
<1> QED
  BY <1>4, <1>5, <1>6, Zenon

\* The root of the heap is not later than every limit, as long as there is one.
LEMMA PopLimit ==
  ASSUME TypeOK, Control, SortInv, RingTimes, LimitsPast, Joining, HasLimit, Limited,
         HeapSample, HeapTime, NEW q \in heap, Peek(q),
         q \in Streams \/ (q \in Maps /\ (target_time = NoTime \/ htime[q] <= target_time))
  PROVE  htime[q] <= overrun \/ \E x \in Nat : Limit(x) /\ htime[q] <= x
<1> USE OrderAssumption
<1>0. /\ pc = "sort" /\ ~need_break /\ todo = {} /\ cur \notin heap /\ Streams \subseteq heap
      /\ \A r \in heap : htime[q] <= htime[r]
      /\ Running
  BY Zenon DEF Peek, Joining, Control, Phases, Running
<1>1. ASSUME NEW s \in Streams PROVE \E x \in Nat : Limit(x) /\ htime[q] <= x
  <2>1. s \in heap /\ spos[s] \in 1 .. sbatch[s] /\ htime[s] = slog[s][spos[s]] /\ htime[s] \in Nat
    BY <1>0, SMTT(60) DEF SortInv, QueuedLater, Control, BatchBound, TypeOK, StreamTypeOK, HeapTypeOK, Queues
  <2> QED
    BY <1>0, <2>1, Zenon DEF Limit
<1>2. ASSUME target_map \in heap, start[target_map] <= target_end, target_map # NoMap
      PROVE  htime[q] <= overrun \/ \E x \in Nat : Limit(x) /\ htime[q] <= x
  <2> DEFINE T == target_map
             e == target_end
             t == rb[T][e].time
  <2>1. T \in Maps /\ T \in heap /\ start[T] <= e /\ (e = 0 \/ IsSample(T, e))
    BY <1>2, Zenon DEF LimitsPast, TypeOK, CallTypeOK
  <2>2. Queued(T) /\ htime[T] \in Nat /\ htime[q] \in Nat /\ overrun \in Nat
    BY <1>0, <2>1, Zenon DEF Queued, TypeOK, HeapTypeOK, SortTypeOK, Queues
  <2>a. start[T] \in Nat /\ e \in Nat /\ start[T] >= 1 /\ head(T) \in Nat
    <3>1. start[T] \in Nat /\ e \in Nat /\ start[T] >= 1 /\ rb[T] \in Seq(Record)
      BY <2>1, Zenon DEF Control, HeapRead, TypeOK, RingTypeOK, CallTypeOK, KernelTypeOK
    <3> QED
      BY <3>1 DEF head
  <2>b. IsSample(T, e)
    BY <2>1, <2>a, SMTT(60)
  <2>c. t \in Nat
    BY <2>1, <2>b, RecordAt, Zenon DEF IsSample
  <2>3. e <= head(T)
    BY <2>a, <2>b, SMTT(60) DEF IsSample
  <2>4. htime[T] <= t \/ htime[T] <= overrun
    <3>0. htime[T] = rb[T][start[T]].time \/ htime[T] <= overrun
      BY <2>1, <2>2, Zenon DEF HeapTime
    <3>1. CASE start[T] = e
      BY <2>2, <2>c, <3>0, <3>1, SMTT(60)
    <3>2. CASE start[T] < e
      <4>1. start[T] \in 1 .. head(T) /\ e \in 1 .. head(T)
        BY <2>a, <2>3, <3>2, SMTT(60)
      <4>2. IsSample(T, start[T])
        BY <2>1, <2>2, <4>1, Zenon DEF HeapSample, IsSample
      <4>3. rb[T][start[T]].time < t
        BY <2>1, <2>b, <3>2, <4>1, <4>2, Zenon DEF RingTimes
      <4> QED
        BY <2>2, <2>c, <3>0, <4>3, SMTT(60)
    <3> QED
      BY <2>1, <2>a, <3>1, <3>2, SMTT(60)
  <2>5. Limit(t)
    BY <1>2, <2>b, Zenon DEF Limit
  <2> HIDE DEF t
  <2>6. htime[q] <= t \/ htime[q] <= overrun
    BY <1>0, <2>1, <2>2, <2>c, <2>4, SMTT(60)
  <2> QED
    BY <2>c, <2>5, <2>6, Zenon
<1>3. ASSUME target_time # NoTime, q \in Maps PROVE \E x \in Nat : Limit(x) /\ htime[q] <= x
  BY <1>3, Zenon DEF Limit, TypeOK, CallTypeOK
<1> QED
  <2>1. Streams # {} \/ (target_map = NoMap /\ target_time # NoTime /\ q \in Maps)
        \/ (target_map \in heap /\ start[target_map] <= target_end /\ target_map # NoMap)
    BY <1>0, Zenon DEF HasLimit, Limited, TypeOK, HeapTypeOK, Queues
  <2> QED
    BY <1>1, <1>2, <1>3, <2>1, Zenon

CausalInv ==
    /\ NoDelay /\ RingTimes /\ LimitsPast /\ Joining /\ HasLimit
    /\ HeapTime /\ SeenEmpty /\ NothingEarlier /\ FixedOverrun

\* The element of a queued ring buffer is not earlier than heap_popped_time, and
\* is followed by later ones, but for what has been overrun.
LEMMA QueuedSample ==
  ASSUME TypeOK, Control, SpaceSafe, HeapSample, RingTimes, HeapTime, NothingEarlier,
         NEW m \in Maps, Queued(m)
  PROVE  /\ start[m] \in 1 .. head(m) /\ IsSample(m, start[m])
         /\ htime[m] \in Nat /\ htime[m] <= clock
         /\ heap_popped_time <= htime[m] \/ heap_popped_time <= overrun
         /\ \A i \in start[m] .. head(m) :
               IsSample(m, i) => htime[m] <= rb[m][i].time \/ htime[m] <= overrun
<1> DEFINE t == rb[m][start[m]].time
<1>1. start[m] \in 1 .. head(m) /\ start[m] = Processed(m) + 1 /\ head(m) \in Nat
  BY ProcessedBound, SMTT(60)
<1>2. IsSample(m, start[m]) /\ htime[m] \in Nat /\ t \in Nat /\ t <= htime[m]
      /\ (htime[m] = t \/ htime[m] <= overrun)
  BY <1>1, RecordAt, Zenon DEF HeapSample, HeapTime, IsSample, TypeOK, HeapTypeOK, Queues
<1>a. /\ heap_popped_time \in Nat /\ overrun \in Nat /\ clock \in Nat
      /\ overrun <= heap_popped_time /\ heap_popped_time <= clock /\ t <= clock
  BY <1>1, Zenon DEF TypeOK, SortTypeOK, KernelTypeOK, NothingEarlier, RingTimes
<1>b. heap_popped_time <= t \/ heap_popped_time <= overrun
  <2>1. start[m] \in (Processed(m) + 1) .. head(m)
    BY <1>1, SMTT(60)
  <2> QED
    BY <1>2, <2>1, Zenon DEF NothingEarlier
<1>c. ASSUME NEW i \in start[m] .. head(m), IsSample(m, i) PROVE t <= rb[m][i].time /\ rb[m][i].time \in Nat
  <2>0. i \in 1 .. head(m) /\ (i = start[m] \/ start[m] < i)
    BY <1>1, <1>c, SMTT(60)
  <2>1. rb[m][i].time \in Nat
    BY <2>0, RecordAt, Zenon
  <2>2. CASE i = start[m]
    BY <1>2, <2>2, SMTT(60)
  <2>3. CASE start[m] < i
    <3>1. t < rb[m][i].time
      BY <1>1, <1>2, <1>c, <2>0, <2>3, Zenon DEF RingTimes
    <3> QED
      BY <1>2, <2>1, <3>1, SMTT(60)
  <2> QED
    BY <2>0, <2>1, <2>2, <2>3, Zenon
<1> HIDE DEF t
<1>3. heap_popped_time <= htime[m] \/ heap_popped_time <= overrun
  BY <1>2, <1>a, <1>b, SMTT(60)
<1>4. htime[m] <= clock
  BY <1>2, <1>a, SMTT(60)
<1>5. ASSUME NEW i \in start[m] .. head(m), IsSample(m, i)
      PROVE  htime[m] <= rb[m][i].time \/ htime[m] <= overrun
  BY <1>2, <1>5, <1>c, Zenon
<1> QED
  BY <1>1, <1>2, <1>3, <1>4, <1>5, Zenon

\* heap_popped_time moves to the time of the root, which is within a limit
\* unless the call has none.
Pops(q) ==
    /\ q \in heap /\ Peek(q) /\ htime[q] <= clock
    /\ heap_popped_time' = Max2(heap_popped_time, htime[q])
    /\ \/ ~Limited /\ overrun' = heap_popped_time'
       \/ /\ overrun' = overrun
          /\ htime[q] <= overrun \/ \E x \in Nat : Limit(x) /\ htime[q] <= x

LEMMA Popped ==
  ASSUME TypeOK, Control, SpaceSafe, SortInv, HeapSample, CausalInv, Next
  PROVE  \/ UNCHANGED <<heap_popped_time, overrun>>
         \/ \E m \in Maps : SortMap(m) /\ Pops(m)
         \/ \E s \in Streams : SortStream(s) /\ Pops(s)
<1> USE OrderAssumption DEF CausalInv
<1>1. ASSUME NEW m \in Maps, SortMap(m) PROVE Pops(m)
  <2>1. m \in heap /\ Peek(m) /\ Queued(m) /\ (target_time = NoTime \/ htime[m] <= target_time)
    BY <1>1, Zenon DEF SortMap, Peek, Queued, Control, Phases
  <2>2. event_mono_time[m] <= heap_popped_time /\ htime[m] <= clock
    BY <2>1, QueuedSample, Zenon DEF SortInv, PoppedLast
  <2>3. event_mono_time[m] \in Nat /\ heap_popped_time \in Nat /\ htime[m] \in Nat
    BY Zenon DEF TypeOK, MmapTypeOK, SortTypeOK, HeapTypeOK, Queues
  <2>a. Pop(MonoTime(m))
    BY <1>1, Zenon DEF SortMap
  <2>4. heap_popped_time' = Max2(heap_popped_time, htime[m])
    BY <2>a, <2>2, <2>3, SMTT(60) DEF Pop, MonoTime, Max2
  <2>5. CASE Limited
    <3>1. overrun' = overrun
      BY <2>a, <2>5, Zenon DEF Pop
    <3> QED
      BY <2>1, <2>2, <2>4, <2>5, <3>1, PopLimit, Zenon DEF Pops
  <2>6. CASE ~Limited
    <3>1. overrun' = heap_popped_time'
      BY <2>a, <2>6, Zenon DEF Pop
    <3> QED
      BY <2>1, <2>2, <2>4, <2>6, <3>1, Zenon DEF Pops
  <2> QED
    BY <2>5, <2>6, Zenon
<1>2. ASSUME NEW s \in Streams, SortStream(s) PROVE Pops(s)
  <2>1. s \in heap /\ Peek(s) /\ Limited /\ Pop(htime[s])
    BY <1>2, Zenon DEF SortStream, Peek, Limited
  <2>2. heap_popped_time' = Max2(heap_popped_time, htime[s]) /\ overrun' = overrun
    BY <2>1, Zenon DEF Pop
  <2>3. htime[s] <= clock
    <3>1. spos[s] \in 1 .. Len(slog[s]) /\ htime[s] = slog[s][spos[s]]
      BY <2>1, SMTT(60) DEF SortInv, QueuedLater, Control, BatchBound, TypeOK, StreamTypeOK
    <3> QED
      BY <3>1, Zenon DEF LimitsPast, Until
  <2> QED
    BY <2>1, <2>2, <2>3, PopLimit, Zenon DEF Pops
<1>3. CASE Kernel
  BY <1>3, KernelOnly, Zenon DEF userVars, sortVars
<1>4. CASE Call
  BY <1>4, Zenon DEF Call, OrderMmap, FlushMap, Enter, BeginMmap, EmptyMmap, OrderStream, OrderTo, StaleTick, Disable,
     Begin, sortVars
<1>5. ASSUME \/ SortEmpty \/ Unwind
             \/ \E m \in Maps : \/ InitEmpty(m) \/ InitRecord(m) \/ InitSample(m)
                                \/ SortTargetTime(m) \/ SortLostWait(m) \/ ConsumeMap(m)
                                \/ ReadEmpty(m) \/ ReadRecord(m) \/ ReadSample(m)
             \/ \E s \in Streams : InitStream(s) \/ InitStreamStop(s)
      PROVE  UNCHANGED <<heap_popped_time, overrun>>
  BY <1>5, ZenonT(60) DEF InitEmpty, InitRecord, InitSample, InitOn, SortTargetTime, SortLostWait, ConsumeMap,
     ReadEmpty, ReadRecord, ReadSample, ReadOn, SortEmpty, Break, Unwind, InitStream, InitStreamStop, sortVars
<1> QED
  BY <1>1, <1>2, <1>3, <1>4, <1>5, Zenon DEF Next, Step

\* heap_popped_time and overrun only move forward.
LEMMA PoppedMoves ==
  ASSUME TypeOK, Control, SpaceSafe, SortInv, HeapSample, CausalInv, Next
  PROVE  /\ heap_popped_time \in Nat /\ heap_popped_time' \in Nat /\ overrun \in Nat /\ overrun' \in Nat
         /\ heap_popped_time' <= clock
         /\ overrun <= overrun' /\ overrun' <= heap_popped_time'
<1>1. /\ heap_popped_time \in Nat /\ overrun \in Nat /\ clock \in Nat
      /\ overrun <= heap_popped_time /\ heap_popped_time <= clock
  BY Zenon DEF TypeOK, SortTypeOK, KernelTypeOK, CausalInv, NothingEarlier
<1>2. ASSUME NEW q \in Queues, Pops(q)
      PROVE  /\ heap_popped_time' = Max2(heap_popped_time, htime[q]) /\ htime[q] \in Nat /\ htime[q] <= clock
             /\ overrun' = heap_popped_time' \/ overrun' = overrun
  BY <1>2, Zenon DEF Pops, TypeOK, HeapTypeOK
<1>3. UNCHANGED <<heap_popped_time, overrun>> \/ \E q \in Queues : Pops(q)
  BY Popped, Zenon DEF Queues
<1> QED
  BY <1>1, <1>2, <1>3, SMTT(60) DEF Max2

LEMMA NothingEarlierStep ==
  ASSUME Prompt, TypeOK, Control, SpaceSafe, SortInv, HeapSample, CausalInv, Next
  PROVE  NothingEarlier'
<1> USE OrderAssumption DEF CausalInv
<1>a. /\ heap_popped_time \in Nat /\ heap_popped_time' \in Nat /\ overrun \in Nat /\ overrun' \in Nat
      /\ heap_popped_time' <= clock /\ overrun <= overrun' /\ overrun' <= heap_popped_time'
  BY PoppedMoves, Zenon
<1>b. clock \in Nat /\ clock' \in Nat /\ clock <= clock'
  BY ClockMoves, Zenon
<1>c. ASSUME NEW q \in Queues, Pops(q), NEW x \in Nat, Limit(x), htime[q] <= x
      PROVE  /\ \A k \in Maps : k \in heap => Queued(k) /\ htime[q] <= htime[k]
             /\ \A k \in Maps \ heap : \A i \in (start[k] + 1) .. head(k) :
                   IsSample(k, i) => htime[q] <= rb[k][i].time
  <2>2. htime[q] \in Nat
    BY Zenon DEF TypeOK, HeapTypeOK
  <2>3. \A k \in Maps : k \in heap => Queued(k) /\ htime[q] <= htime[k]
    BY <1>c, Zenon DEF Pops, Peek, Queued, Control, Phases
  <2>4. ASSUME NEW k \in Maps \ heap, NEW i \in (start[k] + 1) .. head(k), IsSample(k, i)
        PROVE  htime[q] <= rb[k][i].time
    <3>1. Running /\ todo = {}
      BY <1>c, Zenon DEF Pops, Peek, Running, Joining
    <3>2. x < rb[k][i].time
      BY <1>c, <2>4, <3>1, Zenon DEF SeenEmpty
    <3>3. rb[k][i].time \in Nat
      BY <2>4, RecordAt, Zenon DEF IsSample
    <3> QED
      BY <1>c, <2>2, <3>2, <3>3, SMTT(60)
  <2> QED
    BY <2>3, <2>4, Zenon
<1>1. heap_popped_time' <= clock' /\ overrun' <= heap_popped_time'
  BY <1>a, <1>b, SMTT(60)
<1>2. ASSUME NEW k \in Maps, NEW i \in (Processed(k)' + 1) .. head(k)', IsSample(k, i)'
      PROVE  heap_popped_time' <= rb'[k][i].time \/ heap_popped_time' <= overrun'
  <2>1. /\ head(k) \in Nat /\ Processed(k) \in Nat /\ Processed(k)' \in Nat /\ start[k] \in Nat
        /\ Processed(k) <= Processed(k)'
    BY StartMoves, Zenon
  <2>a. i \in 1 .. head(k)'
    BY <1>2, <2>1
  <2>2. CASE rb'[k][i].time = clock + 1
    BY <1>a, <1>b, <2>2, SMTT(60)
  <2>3. CASE i \in 1 .. head(k) /\ rb'[k][i] = rb[k][i]
    <3>1. i \in (Processed(k) + 1) .. head(k)
      BY <1>2, <2>1, <2>3
    <3>2. IsSample(k, i) /\ rb[k][i].time \in Nat
          /\ (heap_popped_time <= rb[k][i].time \/ heap_popped_time <= overrun)
      BY <1>2, <2>3, <3>1, RecordAt, Zenon DEF IsSample, NothingEarlier
    <3>3. ASSUME NEW q \in Queues, Pops(q)
          PROVE  heap_popped_time' <= rb[k][i].time \/ heap_popped_time' <= overrun'
      <4>0. htime[q] \in Nat /\ heap_popped_time' = Max2(heap_popped_time, htime[q])
        BY <3>3, Zenon DEF Pops, TypeOK, HeapTypeOK
      <4>a. ASSUME htime[q] <= rb[k][i].time \/ htime[q] <= overrun
            PROVE  heap_popped_time' <= rb[k][i].time \/ heap_popped_time' <= overrun'
        BY <1>a, <3>2, <4>0, <4>a, SMTT(60) DEF Max2
      <4>1. ASSUME NEW x \in Nat, Limit(x), htime[q] <= x
            PROVE  htime[q] <= rb[k][i].time \/ htime[q] <= overrun
        <5>1. CASE k \in heap
          <6>1. Queued(k) /\ htime[q] <= htime[k]
            BY <1>c, <3>3, <4>1, <5>1
          <6>2. i \in start[k] .. head(k)
            BY <2>3, <3>1, <6>1, ProcessedBound, Zenon
          <6>3. (htime[k] <= rb[k][i].time \/ htime[k] <= overrun) /\ htime[k] \in Nat
            BY <3>2, <6>1, <6>2, QueuedSample, Zenon
          <6> QED
            BY <1>a, <3>2, <4>0, <6>1, <6>3, SMTT(60)
        <5>2. CASE k \notin heap
          <6>1. Processed(k) = start[k]
            BY <5>2, Zenon DEF Processed
          <6> QED
            BY <1>c, <3>1, <3>2, <3>3, <4>1, <5>2, <6>1
        <5> QED
          BY <5>1, <5>2, Zenon
      <4>2. CASE overrun' = heap_popped_time'
        BY <1>a, <4>2, SMTT(60)
      <4> QED
        BY <3>3, <4>a, <4>1, <4>2, Zenon DEF Pops
    <3> QED
      BY <2>3, <3>2, <3>3, Popped, Zenon DEF Queues
  <2> QED
    BY <1>2, <2>a, <2>2, <2>3, RecordOf, Zenon DEF IsSample
<1> QED
  BY <1>1, <1>2, Zenon DEF NothingEarlier

\* Only a ring buffer without data leaves the heap of a running call.
LEMMA Leaves ==
  ASSUME TypeOK, Control, Next, Running', ~Begins, NEW k \in Maps, k \in heap \cup todo,
         k \notin heap' \cup todo'
  PROVE  start[k] = head(k) /\ start'[k] = start[k] /\ head(k)' = head(k)
<1> USE OrderAssumption
<1>0. UNCHANGED rb => head(k)' = head(k)
  BY Zenon DEF head
<1>1. ~Kernel
  BY KernelOnly, Zenon DEF userVars, heapVars, callVars
<1>2. ~Call
  <2>1. Call => pc \in {"idle", "entry"}
    BY Zenon DEF Call, OrderMmap, FlushMap, Enter, BeginMmap, EmptyMmap, OrderStream, OrderTo, StaleTick, Disable
  <2> QED
    BY <2>1, Targets, Zenon DEF Running
<1>3. ~SortEmpty /\ ~Unwind
  BY Zenon DEF SortEmpty, Unwind, Break, Running
<1>4. ASSUME NEW s \in Streams, InitStream(s) \/ InitStreamStop(s) \/ SortStream(s) PROVE FALSE
  BY <1>4, Zenon DEF InitStream, InitStreamStop, SortStream, InitDone, heapVars
<1>5. ASSUME NEW m \in Maps, \/ InitRecord(m) \/ InitSample(m) \/ SortTargetTime(m) \/ SortLostWait(m)
                             \/ SortMap(m) \/ ConsumeMap(m) \/ ReadRecord(m) \/ ReadSample(m)
      PROVE  FALSE
  BY <1>5, Zenon DEF InitRecord, InitSample, InitDone, SortTargetTime, SortLostWait, Break, SortMap, ConsumeMap,
     ReadRecord, ReadSample, ReadOn, heapVars
<1>6. ASSUME NEW m \in Maps, InitEmpty(m) \/ ReadEmpty(m)
      PROVE  start[k] = head(k) /\ start'[k] = start[k] /\ head(k)' = head(k)
  <2>1. k = m /\ start[m] = head(m) /\ start' = start
    BY <1>6, Zenon DEF InitEmpty, InitDone, ReadEmpty, ReadOn, heapVars
  <2> QED
    BY <1>0, <1>6, <2>1, UserOnly, Zenon DEF Step
<1> QED
  BY <1>1, <1>2, <1>3, <1>4, <1>5, <1>6, Zenon DEF Next, Step

LEMMA SeenEmptyStep ==
  ASSUME Prompt, TypeOK, Control, SpaceSafe, SortInv, HeapSample, CausalInv, Next
  PROVE  SeenEmpty'
<1> USE OrderAssumption DEF CausalInv
<1> SUFFICES ASSUME Running', NEW k \in Maps \ (heap' \cup todo'), NEW x \in Nat, Limit(x)',
                    NEW i \in (start'[k] + 1) .. head(k)', IsSample(k, i)'
             PROVE  x < rb'[k][i].time
  BY Zenon DEF SeenEmpty
<1>1. ~Begins
  BY Zenon DEF Begins, Queues
<1>2. Limit(x) /\ x <= clock /\ Running
  BY <1>1, LimitKept, LimitPast, Targets, Zenon
<1>3. /\ head(k) \in Nat /\ start[k] \in Nat /\ start'[k] \in Nat
  BY StartMoves, Zenon
<1>a. i \in 1 .. head(k)'
  BY <1>3
<1>4. CASE rb'[k][i].time = clock + 1
  <2>1. clock \in Nat
    BY ClockMoves, Zenon
  <2> QED
    BY <1>2, <1>4, <2>1
<1>5. CASE i \in 1 .. head(k) /\ rb'[k][i] = rb[k][i]
  <2>1. k \notin heap \cup todo
    <3>1. start[k] = head(k) /\ start'[k] = start[k] => FALSE
      BY <1>3, <1>5
    <3> QED
      BY <1>1, <3>1, Leaves, Zenon
  <2>2. ~Queued(k)
    BY <2>1, Zenon DEF Queued
  <2>3. start[k] <= start'[k]
    BY <2>2, StartMoves, Zenon DEF PutsBack
  <2>4. i \in (start[k] + 1) .. head(k)
    BY <1>3, <1>5, <2>3
  <2>5. IsSample(k, i)
    BY <1>5, Zenon DEF IsSample
  <2> QED
    BY <1>2, <1>5, <2>1, <2>4, <2>5, Zenon DEF SeenEmpty
<1> QED
  BY <1>a, <1>4, <1>5, RecordOf, Zenon DEF IsSample

LEMMA HeapTimeStep ==
  ASSUME TypeOK, Control, SpaceSafe, SortInv, HeapSample, CausalInv, Next
  PROVE  HeapTime'
<1> USE OrderAssumption DEF CausalInv
<1> SUFFICES ASSUME NEW k \in Maps, Queued(k)'
             PROVE  /\ rb'[k][start'[k]].time <= htime'[k]
                    /\ htime'[k] = rb'[k][start'[k]].time \/ htime'[k] <= overrun'
  BY Zenon DEF HeapTime
<1>a. htime \in [Queues -> Nat] /\ k \in Queues /\ k \notin Streams /\ k # NoMap
  BY Zenon DEF TypeOK, HeapTypeOK, Queues
<1>b. overrun \in Nat /\ overrun' \in Nat /\ overrun <= overrun'
  BY PoppedMoves, Zenon
<1>1. CASE Stays(k)
  <2>1. Queued(k) /\ start'[k] = start[k]
    BY <1>1, Zenon DEF Stays
  <2>2. rb'[k][start[k]] = rb[k][start[k]]
    BY <2>1, QueuedSample, Grows, Zenon DEF head
  <2>3. htime'[k] = htime[k]
    <3>1. CASE Kernel
      BY <3>1, KernelOnly, Zenon DEF userVars, heapVars
    <3>2. CASE Call
      BY <3>2, Zenon DEF Call, OrderMmap, FlushMap, Enter, BeginMmap, EmptyMmap, OrderStream, OrderTo, StaleTick,
         Disable, Begin, heapVars
    <3>3. ASSUME NEW s \in Streams, InitStream(s) \/ InitStreamStop(s) \/ SortStream(s)
          PROVE  htime'[k] = htime[k]
      BY <1>a, <3>3, Zenon DEF InitStream, InitStreamStop, SortStream, StreamNext, heapVars
    <3>4. ASSUME \/ SortEmpty \/ Unwind
                 \/ \E m \in Maps : \/ InitEmpty(m) \/ InitRecord(m) \/ SortTargetTime(m) \/ SortLostWait(m)
                                    \/ ConsumeMap(m) \/ ReadEmpty(m) \/ ReadRecord(m)
          PROVE  htime' = htime
      BY <3>4, Zenon DEF InitEmpty, InitRecord, SortTargetTime, SortLostWait, ConsumeMap, ReadEmpty, ReadRecord,
         SortEmpty, Break, Unwind, heapVars
    <3>5. ASSUME NEW m \in Maps, InitSample(m) \/ SortMap(m) \/ ReadSample(m) PROVE htime'[k] = htime[k]
      <4>1. k # m
        BY <2>1, <3>5, Zenon DEF InitSample, InitOn, SortMap, ReadSample, ReadOn, Queued, Control, Phases
      <4> QED
        BY <1>a, <3>5, <4>1, Zenon DEF InitSample, SortMap, ReadSample
    <3> QED
      BY <3>1, <3>2, <3>3, <3>4, <3>5, Zenon DEF Next, Step
  <2>4. /\ rb[k][start[k]].time <= htime[k] /\ htime[k] \in Nat
        /\ htime[k] = rb[k][start[k]].time \/ htime[k] <= overrun
    BY <1>a, <2>1, Zenon DEF HeapTime
  <2>5. htime[k] <= overrun => htime[k] <= overrun'
    BY <1>b, <2>4, SMTT(60)
  <2> QED
    BY <2>1, <2>2, <2>3, <2>4, <2>5, Zenon
<1>2. CASE Takes(k)
  <2>1. /\ start'[k] = start[k] + 1 /\ start[k] \in Nat /\ head(k) \in Nat /\ start[k] < head(k)
        /\ Processed(k) = start[k]
    BY <1>2, ProcessedBound, Zenon DEF Takes
  <2>2. start[k] + 1 \in 1 .. head(k) /\ rb[k][start[k] + 1].type = "SAMPLE"
    BY <1>2, <2>1, SMTT(60) DEF Takes
  <2> DEFINE t == rb[k][start[k] + 1].time
  <2>3. t \in Nat /\ (heap_popped_time <= t \/ heap_popped_time <= overrun) /\ heap_popped_time \in Nat
    <3>1. start[k] + 1 \in (Processed(k) + 1) .. head(k)
      BY <2>1, <2>2
    <3> QED
      BY <2>2, <3>1, RecordAt, Zenon DEF NothingEarlier, IsSample, TypeOK, SortTypeOK
  <2>4. htime'[k] = t \/ htime'[k] = Max2(t, heap_popped_time)
    BY <1>a, <1>2, Zenon DEF Takes, InitSample, ReadSample, InitTime, Next1
  <2>5. rb'[k][start'[k]].time = t
    BY <2>1, <2>2, Grows, ZenonT(60) DEF head
  <2> HIDE DEF t
  <2>6. t <= htime'[k] /\ (htime'[k] = t \/ htime'[k] <= overrun')
    BY <1>b, <2>3, <2>4, SMTT(60) DEF Max2
  <2> QED
    BY <2>5, <2>6, Zenon
<1> QED
  BY <1>1, <1>2, Moves, Zenon DEF Skips, Processes, PutsBack

LEMMA FixedStep ==
  ASSUME TypeOK, Control, SpaceSafe, SortInv, HeapSample, CausalInv, Next
  PROVE  FixedOverrun'
<1> USE OrderAssumption DEF CausalInv
<1>a. /\ heap_popped_time \in Nat /\ overrun \in Nat /\ overrun' \in Nat /\ overrun <= overrun'
      /\ fixed_events => overrun > 0
  BY PoppedMoves, Zenon DEF FixedOverrun
<1>b. ASSUME NEW t \in Nat, t < heap_popped_time, heap_popped_time <= t \/ heap_popped_time <= overrun
      PROVE  overrun' > 0
  BY <1>a, <1>b, SMTT(60)
<1>c. fixed_events' = fixed_events => FixedOverrun'
  BY <1>a, SMTT(60) DEF FixedOverrun
<1>1. ASSUME NEW m \in Maps, InitSample(m) PROVE FixedOverrun'
  <2>1. ~Queued(m) /\ start[m] < head(m)
    BY <1>1, Zenon DEF InitSample, InitOn, Queued, Control, Phases
  <2>2. start[m] + 1 \in (Processed(m) + 1) .. head(m) /\ start[m] + 1 \in 1 .. head(m)
    BY <2>1, ProcessedBound, SMTT(60)
  <2>3. heap_popped_time <= Next1(m).time \/ heap_popped_time <= overrun
    BY <1>1, <2>2, Zenon DEF InitSample, Next1, IsSample, NothingEarlier
  <2>4. Next1(m).time \in Nat
    BY <2>2, RecordAt, Zenon DEF Next1
  <2>5. Next1(m).time < heap_popped_time => overrun' > 0
    BY <1>b, <2>3, <2>4, Zenon
  <2>6. fixed_events' = (fixed_events \/ Next1(m).time < heap_popped_time)
    BY <1>1, Zenon DEF InitSample
  <2> QED
    BY <1>c, <2>5, <2>6, Zenon DEF FixedOverrun
<1>2. ASSUME NEW m \in Maps, SortMap(m) PROVE FixedOverrun'
  <2>1. Queued(m)
    BY <1>2, Zenon DEF SortMap, Peek, Queued, Control, Phases
  <2>2. event_mono_time[m] <= heap_popped_time /\ (heap_popped_time <= htime[m] \/ heap_popped_time <= overrun)
    BY <2>1, QueuedSample, Zenon DEF SortInv, PoppedLast
  <2>3. event_mono_time[m] \in Nat /\ htime[m] \in Nat
    BY Zenon DEF TypeOK, MmapTypeOK, HeapTypeOK, Queues
  <2>4. htime[m] < event_mono_time[m] => htime[m] < heap_popped_time
    BY <1>a, <2>2, <2>3, SMTT(60)
  <2>5. htime[m] < event_mono_time[m] => overrun' > 0
    BY <1>b, <2>2, <2>3, <2>4, Zenon
  <2>6. fixed_events' = (fixed_events \/ htime[m] < event_mono_time[m])
    BY <1>2, Zenon DEF SortMap
  <2> QED
    BY <1>c, <2>5, <2>6, Zenon DEF FixedOverrun
<1>3. CASE Kernel
  BY <1>3, <1>c, KernelOnly, Zenon DEF userVars
<1>4. CASE Call
  BY <1>4, <1>c, Zenon DEF Call, OrderMmap, FlushMap, Enter, BeginMmap, EmptyMmap, OrderStream, OrderTo, StaleTick,
     Disable, Begin
<1>5. ASSUME \/ SortEmpty \/ Unwind
             \/ \E m \in Maps : \/ InitEmpty(m) \/ InitRecord(m)
                                \/ SortTargetTime(m) \/ SortLostWait(m) \/ ConsumeMap(m)
                                \/ ReadEmpty(m) \/ ReadRecord(m) \/ ReadSample(m)
             \/ \E s \in Streams : InitStream(s) \/ InitStreamStop(s) \/ SortStream(s)
      PROVE  fixed_events' = fixed_events
  BY <1>5, ZenonT(60) DEF InitEmpty, InitRecord, SortTargetTime, SortLostWait, ConsumeMap,
     ReadEmpty, ReadRecord, ReadSample, ReadOn, SortEmpty, Break, Unwind, InitStream, InitStreamStop, SortStream
<1> QED
  BY <1>1, <1>2, <1>3, <1>4, <1>5, <1>c, Zenon DEF Next, Step

LEMMA CausalInductive ==
  ASSUME Prompt
  PROVE  Spec => []CausalInv
<1> DEFINE Base == TypeOK /\ Control /\ SpaceSafe /\ SortInv /\ HeapSample
<1>1. Init => CausalInv
  <2> SUFFICES ASSUME Init PROVE CausalInv
    OBVIOUS
  <2>1. NoDelay /\ Joining /\ HasLimit /\ HeapTime /\ SeenEmpty /\ FixedOverrun
    BY Zenon DEF Init, NoDelay, Joining, HasLimit, HeapTime, SeenEmpty, FixedOverrun, Running, Queued
  <2>2. \A m \in Maps : head(m) = 0 /\ heap_popped_time = 0
    BY DEF Init, head
  <2>3. RingTimes
    BY <2>2 DEF RingTimes
  <2>4. LimitsPast
    BY DEF Init, LimitsPast, Until, NoTime
  <2>5. NothingEarlier
    <3>1. \A m \in Maps : Processed(m) = 0
      BY Zenon DEF Init, Processed
    <3>2. heap_popped_time <= clock /\ overrun <= heap_popped_time
      BY DEF Init
    <3> QED
      BY <2>2, <3>1, <3>2 DEF NothingEarlier
  <2> QED
    BY <2>1, <2>3, <2>4, <2>5, Zenon DEF CausalInv
<1>2. Base /\ CausalInv /\ [Next]_vars => CausalInv'
  <2>1. ASSUME Base, CausalInv, Next PROVE CausalInv'
    <3>1. NoDelay'
      BY <2>1, ClockMoves, Zenon DEF CausalInv
    <3>2. RingTimes' /\ LimitsPast' /\ Joining' /\ HasLimit'
      BY <2>1, RingTimesStep, LimitsPastStep, JoiningStep, HasLimitStep, Zenon DEF CausalInv
    <3>3. HeapTime' /\ SeenEmpty' /\ NothingEarlier' /\ FixedOverrun'
      BY <2>1, HeapTimeStep, SeenEmptyStep, NothingEarlierStep, FixedStep, Zenon
    <3> QED
      BY <3>1, <3>2, <3>3, Zenon DEF CausalInv
  <2>2. ASSUME CausalInv, UNCHANGED vars PROVE CausalInv'
    <3>1. UNCHANGED <<rb, inflight, others, clock, ticks, slog, sbatch, start, end, heap, htime, heap_popped_time,
                      overrun, fixed_events, pc, cur, todo, need_break, target_time, target_map, target_end>>
      BY <2>2, Zenon DEF vars, kernelVars, ringKernelVars, streamVars, userVars, ringVars, heapVars, sortVars,
         callVars, targetVars
    <3>2. NoDelay' /\ RingTimes'
      BY <2>2, <3>1 DEF CausalInv, NoDelay, RingTimes, IsSample, head
    <3>3. LimitsPast' /\ Joining' /\ HasLimit'
      BY <2>2, <3>1 DEF CausalInv, LimitsPast, Joining, HasLimit, Until, Running, IsSample, head
    <3>4. HeapTime' /\ FixedOverrun'
      BY <2>2, <3>1, Zenon DEF CausalInv, HeapTime, FixedOverrun, Queued
    <3>5. SeenEmpty' /\ NothingEarlier'
      BY <2>2, <3>1 DEF CausalInv, SeenEmpty, NothingEarlier, Running, Limit, Processed, IsSample, head
    <3> QED
      BY <3>2, <3>3, <3>4, <3>5, Zenon DEF CausalInv
  <2> QED
    BY <2>1, <2>2, Zenon
<1> QED
  BY <1>1, <1>2, Inductive, OnceInductive, PTL DEF Spec

\* When no sample is output after a later one is taken, the limits of
\* order_process() do their work: no event is popped that is later than one
\* still to be read, and no time has to be fixed, for any ring buffers, streams
\* and ticks, except for what a call that had lost its limit has overrun.
THEOREM Causal ==
  ASSUME Prompt
  PROVE  Spec => []CausalOrder
<1>1. TypeOK /\ Control /\ SpaceSafe /\ CausalInv => CausalOrder
  <2> SUFFICES ASSUME TypeOK, Control, SpaceSafe, CausalInv, NEW m \in Maps,
                      NEW i \in (Processed(m) + 1) .. head(m), rb[m][i].type = "SAMPLE"
               PROVE  heap_popped_time <= Max2(rb[m][i].time, overrun)
    BY Zenon DEF CausalOrder, CausalInv, FixedOverrun
  <2>1. i \in 1 .. head(m)
    BY ProcessedBound, SMTT(60)
  <2>2. heap_popped_time <= rb[m][i].time \/ heap_popped_time <= overrun
    BY <2>1, Zenon DEF CausalInv, NothingEarlier, IsSample
  <2>3. rb[m][i].time \in Nat /\ overrun \in Nat /\ heap_popped_time \in Nat
    BY <2>1, RecordAt, Zenon DEF TypeOK, SortTypeOK
  <2> QED
    BY <2>2, <2>3, SMTT(60) DEF Max2
<1> QED
  BY <1>1, CausalInductive, Inductive, PTL
=============================================================================
