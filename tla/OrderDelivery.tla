--------------------------- MODULE OrderDelivery ---------------------------
(***************************************************************************)
(* Order delivers every record exactly once, whatever is put back when a   *)
(* call ends, and submits every record when the device is disabled.        *)
(***************************************************************************)
EXTENDS OrderProofs

\* The element a ring buffer has in the heap is a sample not yet processed.
Queued(m) == m \in heap /\ cur # m
HeapSample == \A m \in Maps : Queued(m) => rb[m][start[m]].type = "SAMPLE"

\* All the kernel and the streams do is to add.
LEMMA KernelOnly ==
  ASSUME Kernel
  PROVE  UNCHANGED userVars
BY DEF Kernel, KernelSample, KernelSampleBegin, KernelSampleEnd, KernelOther, KernelTick, StreamArrive

LEMMA UserOnly ==
  ASSUME Call \/ Step
  PROVE  UNCHANGED <<clock, inflight, rb, klost, others, nticks>> /\ UNCHANGED slog
BY ZenonT(60) DEF Call, Step, OrderMmap, FlushMap, Enter, BeginMmap, EmptyMmap, OrderStream, OrderTo,
       StaleTick, Disable, Begin, InitStream, InitStreamStop, SortStream, InitEmpty, InitRecord, InitSample, InitOn,
       SortTargetTime, SortLostWait, SortMap, ConsumeMap, ReadEmpty, ReadRecord, ReadSample,
       ReadOn, SortEmpty, Break, Unwind, kernelVars, ringKernelVars, streamVars

LEMMA OutputGrows ==
  ASSUME TypeOK, NEW m \in Maps, NEW rec, NEW t, Output(m, rec, t), NEW k \in Maps, rec \in Record
  PROVE  /\ Len(rb'[k]) \in Nat /\ Len(rb'[k]) >= Len(rb[k])
         /\ \A i \in 1 .. Len(rb[k]) : rb'[k][i] = rb[k][i]
<1> DEFINE recs == IF klost[m] = {} THEN <<rec>> ELSE <<Lost(klost[m]), rec>>
<1>1. recs \in Seq(Record)
  <2>1. Lost(klost[m]) \in Record
    BY DEF TypeOK, KernelTypeOK, Lost, Record
  <2> QED
    BY <2>1
<1>2. rb' = rb \/ rb' = [rb EXCEPT ![m] = rb[m] \o recs]
  BY Zenon DEF Output
<1>3. rb \in [Maps -> Seq(Record)]
  BY DEF TypeOK, KernelTypeOK
<1> HIDE DEF recs
<1>4. rb'[k] = rb[k] \/ rb'[k] = rb[k] \o recs
  BY <1>2, <1>3, Zenon
<1> QED
  BY <1>1, <1>3, <1>4

\* A ring buffer only grows.
LEMMA Grows ==
  ASSUME TypeOK, Next, NEW k \in Maps
  PROVE  /\ Len(rb'[k]) \in Nat /\ Len(rb'[k]) >= Len(rb[k])
         /\ \A i \in 1 .. Len(rb[k]) : rb'[k][i] = rb[k][i]
<1>1. Len(rb[k]) \in Nat
  BY DEF TypeOK, KernelTypeOK
<1>2. CASE UNCHANGED rb
  BY <1>1, <1>2
<1>3. ASSUME NEW m \in Maps, KernelSample(m) \/ KernelSampleEnd(m) \/ KernelOther(m)
      PROVE  \E rec \in Record, t \in Nat : Output(m, rec, t)
  BY <1>3, RecordTypes, SMTT(60) DEF KernelSample, KernelSampleEnd, KernelOther, TypeOK, KernelTypeOK
<1> QED
  BY <1>2, <1>3, OutputGrows, UserOnly
     DEF Next, Kernel, KernelSampleBegin, KernelTick, StreamArrive, kernelVars, ringKernelVars
-----------------------------------------------------------------------------
\* What the space and the control state say of the processed part of m.
LEMMA ProcessedBound ==
  ASSUME TypeOK, Control, SpaceSafe, NEW m \in Maps
  PROVE  /\ Processed(m) \in Nat /\ start[m] \in Nat /\ head(m) \in Nat /\ tail[m] \in Nat
         /\ start[m] <= head(m) /\ tail[m] <= Processed(m) /\ Processed(m) <= start[m]
         /\ Queued(m) => start[m] = Processed(m) + 1
         /\ ~Queued(m) => start[m] = Processed(m)
         /\ Queued(m)' => Processed(m)' = start'[m] - 1
         /\ ~Queued(m)' => Processed(m)' = start'[m]
BY DEF TypeOK, KernelTypeOK, RingTypeOK, SpaceSafe, Control, HeapRead, Processed, head, Queued

\* What a step does to the position of a ring buffer: nothing, the next sample is
\* queued, a record without a time is passed, the queued sample is processed, or
\* it is put back.
Stays(m) ==
  start'[m] = start[m] /\ (Queued(m)' <=> Queued(m)) /\ Processed(m)' = Processed(m)
Takes(m) ==
  /\ InitSample(m) \/ ReadSample(m)
  /\ start[m] < head(m) /\ rb[m][start[m] + 1].type = "SAMPLE"
  /\ ~Queued(m) /\ Queued(m)' /\ start'[m] = start[m] + 1 /\ Processed(m)' = Processed(m)
Skips(m) ==
  /\ InitRecord(m) \/ ReadRecord(m)
  /\ start[m] < head(m) /\ rb[m][start[m] + 1].type # "SAMPLE"
  /\ ~Queued(m) /\ ~Queued(m)' /\ start'[m] = start[m] + 1 /\ Processed(m)' = Processed(m) + 1
Processes(m) ==
  /\ SortMap(m)
  /\ Queued(m) /\ ~Queued(m)' /\ start'[m] = start[m] /\ Processed(m)' = Processed(m) + 1
PutsBack(m) ==
  /\ Unwind
  /\ Queued(m) /\ ~Queued(m)' /\ start'[m] = start[m] - 1 /\ Processed(m)' = Processed(m)

LEMMA Moves ==
  ASSUME TypeOK, Control, SpaceSafe, Next, NEW k \in Maps
  PROVE  Stays(k) \/ Takes(k) \/ Skips(k) \/ Processes(k) \/ PutsBack(k)
<1> USE OrderAssumption
<1>a. ASSUME NEW m \in Maps
      PROVE  m \in Queues /\ m \notin Streams /\ m # NoMap /\ start \in [Maps -> Nat]
  BY DEF Queues, TypeOK, RingTypeOK
<1>b. pc = "init" => cur \notin heap /\ heap \cap todo = {}
  BY DEF Control, Phases, TypeOK, HeapTypeOK, Queues
<1>0. ASSUME start'[k] = start[k], Queued(k)' <=> Queued(k) PROVE Stays(k)
  BY <1>0, ProcessedBound DEF Stays
<1>1. CASE Kernel
  BY <1>0, <1>1, KernelOnly DEF Queued, userVars, ringVars, heapVars, callVars
<1>2. ASSUME \/ \E m \in Maps : OrderMmap(m) \/ FlushMap(m) \/ BeginMmap(m) \/ EmptyMmap(m)
             \/ OrderStream \/ OrderTo \/ StaleTick \/ Disable
      PROVE  Stays(k)
  <2>1. UNCHANGED start
    BY <1>2, Zenon DEF OrderMmap, FlushMap, Enter, BeginMmap, EmptyMmap, OrderStream, OrderTo, StaleTick, Disable,
       Begin, ringVars
  <2>2. heap = {} /\ heap' = {}
    BY <1>2, Zenon DEF OrderMmap, FlushMap, Enter, BeginMmap, EmptyMmap, OrderStream, OrderTo, StaleTick, Disable,
       Begin, Control, Phases, heapVars
  <2> QED
    BY <1>0, <2>1, <2>2 DEF Queued
<1>3. ASSUME \/ \E s \in Streams : InitStream(s) \/ InitStreamStop(s) \/ SortStream(s)
             \/ SortEmpty
             \/ \E m \in Maps : \/ InitEmpty(m) \/ SortTargetTime(m) \/ SortLostWait(m)
                                \/ ConsumeMap(m)
      PROVE  Stays(k)
  <2>1. UNCHANGED start
    BY <1>3, Zenon DEF InitStream, InitStreamStop, SortStream, SortEmpty, InitEmpty, SortTargetTime, SortLostWait,
                ConsumeMap, Break, ringVars
  <2>2. k \in heap' <=> k \in heap
    BY <1>3, <1>a, Zenon DEF InitStream, InitStreamStop, SortStream, SortEmpty, InitEmpty, SortTargetTime,
                SortLostWait, ConsumeMap, Break, heapVars
  <2>3. cur' = cur \/ (cur' = NoMap /\ cur \notin heap)
    BY <1>3, <1>b, Zenon DEF InitStream, InitStreamStop, SortStream, SortEmpty, InitEmpty, SortTargetTime,
                SortLostWait, ConsumeMap, Break, InitOn, InitDone
  <2> QED
    BY <1>0, <1>a, <2>1, <2>2, <2>3 DEF Queued
<1>4. ASSUME NEW m \in Maps, InitRecord(m) \/ ReadRecord(m) PROVE Stays(k) \/ Skips(k)
  <2>1. /\ start' = [start EXCEPT ![m] = start[m] + 1] /\ heap' = heap /\ cur' = m
        /\ start[m] < head(m) /\ rb[m][start[m] + 1].type # "SAMPLE"
        /\ cur = m \/ (m \notin heap /\ cur \notin heap)
    BY <1>4, <1>a, <1>b, Zenon DEF InitRecord, InitOn, ReadRecord, ReadOn, Next1, heapVars
  <2>2. ~Queued(m) /\ ~Queued(m)' /\ start'[m] = start[m] + 1
    BY <1>a, <2>1 DEF Queued
  <2>3. CASE k = m
    BY <1>4, <2>1, <2>2, <2>3, ProcessedBound, Zenon DEF Skips
  <2>4. CASE k # m
    BY <1>0, <1>a, <2>1, <2>4 DEF Queued
  <2> QED
    BY <2>3, <2>4
<1>5. ASSUME NEW m \in Maps, InitSample(m) \/ ReadSample(m) PROVE Stays(k) \/ Takes(k)
  <2>1. /\ start' = [start EXCEPT ![m] = start[m] + 1] /\ heap' = heap \cup {m} /\ cur' = NoMap
        /\ start[m] < head(m) /\ rb[m][start[m] + 1].type = "SAMPLE"
        /\ cur = m \/ (m \notin heap /\ cur \notin heap)
    BY <1>5, <1>a, <1>b, SMTT(60) DEF InitSample, InitOn, InitDone, ReadSample, ReadOn, TurnDone, Next1, Control, Phases
  <2>2. ~Queued(m) /\ Queued(m)' /\ start'[m] = start[m] + 1
    BY <1>a, <2>1 DEF Queued
  <2>3. CASE k = m
    BY <1>5, <2>1, <2>2, <2>3, ProcessedBound, SMTT(60) DEF Takes
  <2>4. CASE k # m
    BY <1>0, <1>a, <2>1, <2>4 DEF Queued
  <2> QED
    BY <2>3, <2>4
<1>6. ASSUME NEW m \in Maps, SortMap(m) PROVE Stays(k) \/ Processes(k)
  <2>1. start' = start /\ heap' = heap /\ cur' = m /\ m \in heap /\ cur \notin heap
    BY <1>6 DEF SortMap, Peek, ringVars, Control, Phases
  <2>2. CASE k = m
    BY <1>6, <2>1, <2>2, ProcessedBound DEF Processes, Queued
  <2>3. CASE k # m
    BY <1>0, <2>1, <2>3 DEF Queued
  <2> QED
    BY <2>2, <2>3
<1>7. ASSUME NEW m \in Maps, ReadEmpty(m) PROVE Stays(k)
  <2>1. UNCHANGED start /\ heap' = heap \ {m} /\ cur = m /\ cur' = NoMap
    BY <1>7 DEF ReadEmpty, ReadOn, TurnDone
  <2> QED
    BY <1>0, <1>a, <2>1 DEF Queued
<1>8. ASSUME Unwind PROVE Stays(k) \/ PutsBack(k)
  <2>1. start' = [m \in Maps |-> Unread(m)] /\ heap' = {} /\ cur \notin heap
    BY <1>8 DEF Unwind, Control, Phases
  <2>2. CASE k \in heap
    BY <1>8, <2>1, <2>2, ProcessedBound DEF PutsBack, Unread, Queued
  <2>3. CASE k \notin heap
    BY <1>0, <2>1, <2>3 DEF Unread, Queued
  <2> QED
    BY <2>2, <2>3
<1> QED
  BY <1>1, <1>2, <1>3, <1>4, <1>5, <1>6, <1>7, <1>8 DEF Next, Call, Step
-----------------------------------------------------------------------------
\* A queued element stays the sample it is.
LEMMA HeapSampleStep ==
  ASSUME TypeOK, Control, SpaceSafe, HeapSample, Next
  PROVE  HeapSample'
<1> SUFFICES ASSUME NEW m \in Maps, Queued(m)' PROVE rb'[m][start'[m]].type = "SAMPLE"
  BY DEF HeapSample
<1>1. start'[m] \in 1 .. Len(rb[m]) /\ rb[m][start'[m]].type = "SAMPLE"
  BY Moves, ProcessedBound, SMTT(60) DEF Stays, Takes, Skips, Processes, PutsBack, HeapSample, head
<1> QED
  BY <1>1, Grows

LEMMA StartMoves ==
  ASSUME TypeOK, Control, SpaceSafe, Next, NEW k \in Maps
  PROVE  /\ head(k) \in Nat /\ start[k] \in Nat /\ start'[k] \in Nat
         /\ Processed(k) \in Nat /\ Processed(k)' \in Nat /\ Processed(k) <= Processed(k)'
         /\ start[k] <= start'[k] \/ (PutsBack(k) /\ start'[k] = start[k] - 1)
<1>1. \/ start'[k] = start[k] /\ (Processed(k)' = Processed(k) \/ Processed(k)' = Processed(k) + 1)
      \/ start'[k] = start[k] + 1 /\ (Processed(k)' = Processed(k) \/ Processed(k)' = Processed(k) + 1)
      \/ PutsBack(k) /\ Queued(k) /\ start'[k] = start[k] - 1 /\ Processed(k)' = Processed(k)
  BY Moves, Zenon DEF Stays, Takes, Skips, Processes, PutsBack
<1>2. /\ head(k) \in Nat /\ start[k] \in Nat /\ Processed(k) \in Nat
      /\ Queued(k) => start[k] = Processed(k) + 1
  BY ProcessedBound, Zenon
<1> QED
  BY <1>1, <1>2

\* d are the deliverable records among the first p of r, in their order.
Delivers(d, p, r) ==
  /\ \A i, j \in DOMAIN d : i < j => d[i] < d[j]
  /\ {d[i] : i \in DOMAIN d} = {q \in 1 .. p : r[q].type # "LOST"}

\* The record after the processed ones is delivered, unless it is a LOST record.
LEMMA DeliverOne ==
  ASSUME NEW d \in Seq(Nat), NEW p \in Nat, NEW r, NEW e, Delivers(d, p, r),
         \/ r[p + 1].type # "LOST" /\ e = Append(d, p + 1)
         \/ r[p + 1].type = "LOST" /\ e = d
  PROVE  Delivers(e, p + 1, r)
<1> USE DEF Delivers
<1>1. CASE e = d /\ r[p + 1].type = "LOST"
  <2>1. {q \in 1 .. p + 1 : r[q].type # "LOST"} = {q \in 1 .. p : r[q].type # "LOST"}
    BY <1>1
  <2> QED
    BY <1>1, <2>1
<1>2. CASE e = Append(d, p + 1) /\ r[p + 1].type # "LOST"
  <2> DEFINE n == Len(d)
  <2>1. n \in Nat /\ DOMAIN d = 1 .. n /\ DOMAIN e = 1 .. n + 1 /\ e[n + 1] = p + 1
        /\ \A i \in 1 .. n : e[i] = d[i] /\ d[i] \in Nat
    BY <1>2
  <2>2. {q \in 1 .. p + 1 : r[q].type # "LOST"} = {q \in 1 .. p : r[q].type # "LOST"} \cup {p + 1}
    BY <1>2
  <2> HIDE DEF n
  <2>3. \A i \in 1 .. n : d[i] \in {q \in 1 .. p : r[q].type # "LOST"}
    BY <2>1, Zenon
  <2>4. ASSUME NEW i \in 1 .. n + 1, NEW j \in 1 .. n + 1, i < j PROVE e[i] < e[j]
    <3>1. i \in 1 .. n /\ e[i] = d[i] /\ d[i] <= p /\ d[i] \in Nat
      BY <2>1, <2>3, <2>4
    <3>2. CASE j = n + 1
      BY <2>1, <3>1, <3>2
    <3>3. CASE j \in 1 .. n
      BY <2>1, <2>4, <3>1, <3>3, Zenon
    <3> QED
      BY <2>1, <3>2, <3>3
  <2>5. {e[i] : i \in 1 .. n + 1} = {d[i] : i \in 1 .. n} \cup {p + 1}
    <3>1. \A i \in 1 .. n + 1 : i \in 1 .. n \/ i = n + 1
      BY <2>1
    <3>2. 1 .. n \subseteq 1 .. n + 1 /\ n + 1 \in 1 .. n + 1
      BY <2>1
    <3> HIDE <2>2
    <3> QED
      BY <2>1, <3>1, <3>2, ZenonT(30)
  <2> QED
    BY <2>1, <2>2, <2>4, <2>5, Zenon
<1> QED
  BY <1>1, <1>2

\* What is passed or processed is delivered, and nothing else.
LEMMA Delivery ==
  ASSUME TypeOK, Control, SpaceSafe, HeapSample, Next, NEW m \in Maps
  PROVE  \/ Processed(m)' = Processed(m) /\ delivered'[m] = delivered[m]
         \/ /\ Processed(m)' = Processed(m) + 1 /\ Processed(m) + 1 <= head(m)
            /\ \/ /\ rb[m][Processed(m) + 1].type # "LOST"
                  /\ delivered'[m] = Append(delivered[m], Processed(m) + 1)
               \/ /\ rb[m][Processed(m) + 1].type = "LOST"
                  /\ delivered'[m] = delivered[m]
<1> USE DEF TypeOK, SeenTypeOK
<1>1. CASE Skips(m)
  <2>1. start[m] = Processed(m) /\ Processed(m) + 1 <= head(m)
    BY <1>1, ProcessedBound DEF Skips
  <2>2. \/ rb[m][start[m] + 1].type = "LOST" /\ delivered'[m] = delivered[m]
        \/ rb[m][start[m] + 1].type = "OTHER" /\ delivered'[m] = Append(delivered[m], start[m] + 1)
    BY <1>1, Zenon DEF Skips, InitRecord, ReadRecord, Next1
  <2> QED
    BY <1>1, <2>1, <2>2, Zenon DEF Skips
<1>2. CASE Processes(m)
  <2>1. start[m] = Processed(m) + 1 /\ start[m] <= head(m) /\ rb[m][start[m]].type = "SAMPLE"
    BY <1>2, ProcessedBound DEF Processes, HeapSample
  <2>2. delivered'[m] = Append(delivered[m], start[m])
    BY <1>2, Zenon DEF Processes, SortMap
  <2> QED
    BY <1>2, <2>1, <2>2, Zenon DEF Processes
<1>3. ASSUME NEW k \in Maps, InitRecord(k) \/ ReadRecord(k) \/ SortMap(k), k # m
      PROVE  delivered'[m] = delivered[m]
  BY <1>3, Zenon DEF InitRecord, ReadRecord, SortMap
<1>4. ASSUME InitRecord(m) \/ ReadRecord(m) PROVE Skips(m)
  <2>1. start'[m] = start[m] + 1 /\ start[m] \in Nat /\ rb[m][start[m] + 1].type # "SAMPLE"
    BY <1>4, Zenon DEF InitRecord, ReadRecord, Next1, RingTypeOK
  <2> QED
    BY <2>1, Moves, SMTT(60) DEF Stays, Takes, Processes, PutsBack
<1>5. ASSUME SortMap(m) PROVE Processes(m)
  <2>1. Queued(m) /\ ~Queued(m)' /\ start'[m] = start[m] /\ start[m] \in Nat
    BY <1>5 DEF SortMap, Peek, Queued, Control, Phases, ringVars, RingTypeOK
  <2> QED
    BY <2>1, Moves, SMTT(60) DEF Stays, Takes, Skips, PutsBack
<1>6. ASSUME \/ Kernel
             \/ \E k \in Maps : OrderMmap(k) \/ FlushMap(k) \/ BeginMmap(k) \/ EmptyMmap(k)
             \/ OrderStream \/ OrderTo \/ StaleTick \/ Disable \/ SortEmpty \/ Unwind
             \/ \E s \in Streams : InitStream(s) \/ InitStreamStop(s) \/ SortStream(s)
             \/ \E k \in Maps : \/ InitEmpty(k) \/ InitSample(k) \/ SortTargetTime(k) \/ SortLostWait(k)
                                \/ ConsumeMap(k) \/ ReadEmpty(k) \/ ReadSample(k)
      PROVE  delivered' = delivered
  BY <1>6, KernelOnly, Zenon
     DEF OrderMmap, FlushMap, Enter, BeginMmap, EmptyMmap, OrderStream, OrderTo, StaleTick, Disable,
      Begin, SortEmpty, Unwind, InitStream, InitStreamStop, SortStream, InitEmpty, InitSample, SortTargetTime, SortLostWait,
      ConsumeMap, ReadEmpty, ReadSample, Break, userVars, seenVars
<1>7. Skips(m) \/ Processes(m) \/ delivered'[m] = delivered[m]
  BY <1>3, <1>4, <1>5, <1>6 DEF Next, Call, Step
<1> QED
  BY <1>1, <1>2, <1>7, Moves, Zenon DEF Stays, Takes, PutsBack

LEMMA OnceStep ==
  ASSUME TypeOK, Control, SpaceSafe, HeapSample, ExactlyOnce, Next
  PROVE  ExactlyOnce'
<1> SUFFICES ASSUME NEW m \in Maps
             PROVE  Delivers(delivered'[m], Processed(m)', rb'[m])
  BY Zenon DEF ExactlyOnce, Delivers
<1>1. /\ delivered[m] \in Seq(Nat) /\ Processed(m) \in Nat
      /\ Delivers(delivered[m], Processed(m), rb[m])
  BY ProcessedBound, Zenon DEF ExactlyOnce, Delivers, TypeOK, SeenTypeOK
<1>2. Delivers(delivered'[m], Processed(m)', rb[m])
  <2>1. CASE Processed(m)' = Processed(m) /\ delivered'[m] = delivered[m]
    BY <1>1, <2>1
  <2>2. CASE /\ Processed(m)' = Processed(m) + 1
             /\ \/ /\ rb[m][Processed(m) + 1].type # "LOST"
                   /\ delivered'[m] = Append(delivered[m], Processed(m) + 1)
                \/ /\ rb[m][Processed(m) + 1].type = "LOST"
                   /\ delivered'[m] = delivered[m]
    BY <1>1, <2>2, DeliverOne, Zenon
  <2> QED
    BY <2>1, <2>2, Delivery, Zenon
<1>3. \A q \in 1 .. Processed(m)' : q \in 1 .. Len(rb[m])
  BY Delivery, ProcessedBound, SMTT(60) DEF head
<1>4. {q \in 1 .. Processed(m)' : rb'[m][q].type # "LOST"} =
      {q \in 1 .. Processed(m)' : rb[m][q].type # "LOST"}
  BY <1>3, Grows, Zenon
<1> QED
  BY <1>2, <1>4, Zenon DEF Delivers

LEMMA OnceInductive == Spec => [](HeapSample /\ ExactlyOnce)
<1> DEFINE Base == TypeOK /\ Control /\ SpaceSafe
           Inv == HeapSample /\ ExactlyOnce
<1>1. Init => Inv
  BY SMTT(60) DEF Init, HeapSample, ExactlyOnce, Queued, Processed
<1>2. Base /\ Inv /\ [Next]_vars => Inv'
  <2>1. ASSUME Base, Inv, Next PROVE Inv'
    BY <2>1, HeapSampleStep, OnceStep
  <2>2. ASSUME Inv, UNCHANGED vars PROVE Inv'
    BY <2>2, SMTT(60) DEF HeapSample, ExactlyOnce, Queued, Processed, vars, kernelVars, ringKernelVars, userVars,
       ringVars, heapVars, callVars, seenVars
  <2> QED
    BY <2>1, <2>2
<1> QED
  BY <1>1, <1>2, Inductive, PTL DEF Spec

\* Whatever the calls of order_process() put back when they end, every sample
\* and every other record is given to perf_event_process_record() once, in the
\* order of its ring buffer.
THEOREM DeliveredOnce == Spec => []ExactlyOnce
BY OnceInductive, PTL
-----------------------------------------------------------------------------
\* map->end is between what has been read and the kernel's head, and a predicted
\* loss is not behind it.
EndBound ==
    \A m \in Maps : /\ maybe_lost_end[m] <= end[m] /\ end[m] <= head(m)
                    /\ m \in heap => start[m] <= end[m]

LEMMA EndMoves ==
  ASSUME TypeOK, Next, NEW k \in Maps
  PROVE  /\ end'[k] = end[k] \/ end'[k] = head(k)
         /\ Takes(k) \/ Skips(k) => end'[k] = head(k)
         /\ maybe_lost_end'[k] = maybe_lost_end[k]
            \/ (SortMap(k) /\ maybe_lost_end'[k] = Predict(k) /\ end'[k] = end[k])
         /\ k \in heap' => k \in heap \/ InitSample(k)
<1> USE DEF TypeOK, RingTypeOK, MmapTypeOK
<1>1. CASE Kernel
  BY <1>1, KernelOnly, Zenon DEF userVars, ringVars, mmapVars, heapVars, Takes, Skips, InitSample, ReadSample,
     InitRecord, ReadRecord, InitOn, ReadOn
<1>2. ASSUME \/ \E m \in Maps : OrderMmap(m) \/ FlushMap(m) \/ BeginMmap(m) \/ EmptyMmap(m)
             \/ OrderStream \/ OrderTo \/ StaleTick \/ Disable
      PROVE  /\ end'[k] = end[k] \/ end'[k] = head(k)
             /\ maybe_lost_end' = maybe_lost_end /\ (heap' = {} \/ heap' = heap)
  BY <1>2, Zenon DEF OrderMmap, FlushMap, Enter, BeginMmap, EmptyMmap, OrderStream, OrderTo, StaleTick, Disable,
     Begin, ringVars, mmapVars, heapVars
<1>3. ASSUME \/ SortEmpty \/ Unwind
             \/ \E s \in Streams : InitStreamStop(s) \/ SortStream(s)
             \/ \E m \in Maps : SortTargetTime(m) \/ SortLostWait(m) \/ ConsumeMap(m)
      PROVE  end' = end /\ maybe_lost_end' = maybe_lost_end /\ heap' \subseteq heap
  BY <1>3, Zenon DEF SortEmpty, Unwind, InitStreamStop, SortStream, SortTargetTime, SortLostWait, ConsumeMap, Break,
              ringVars, mmapVars, heapVars
<1>4. ASSUME NEW s \in Streams, InitStream(s)
      PROVE  end' = end /\ maybe_lost_end' = maybe_lost_end /\ heap' = heap \cup {s} /\ k # s
  BY <1>4, OrderAssumption, Zenon DEF InitStream, ringVars, mmapVars
<1>5. ASSUME NEW m \in Maps, \/ InitEmpty(m) \/ InitRecord(m) \/ InitSample(m)
                             \/ ReadEmpty(m) \/ ReadRecord(m) \/ ReadSample(m)
      PROVE  /\ end' = [end EXCEPT ![m] = head(m)] /\ maybe_lost_end' = maybe_lost_end
             /\ heap' \subseteq heap \/ (InitSample(m) /\ heap' = heap \cup {m})
  BY <1>5, Zenon DEF InitEmpty, InitRecord, InitSample, ReadEmpty, ReadRecord, ReadSample, InitOn, ReadOn, heapVars,
              mmapVars
<1>6. ASSUME NEW m \in Maps, SortMap(m)
      PROVE  /\ end' = end /\ heap' = heap
             /\ maybe_lost_end' = [maybe_lost_end EXCEPT ![m] = Predict(m)]
  BY <1>6 DEF SortMap, ringVars
<1>7. Takes(k) \/ Skips(k) => end'[k] = head(k)
  BY <1>5, Zenon DEF Takes, Skips
<1> QED
  BY <1>1, <1>2, <1>3, <1>4, <1>5, <1>6, <1>7, SMTT(60) DEF Next, Call, Step

LEMMA EndStep ==
  ASSUME TypeOK, Control, SpaceSafe, EndBound, Next
  PROVE  EndBound'
<1> SUFFICES ASSUME NEW m \in Maps
             PROVE  /\ maybe_lost_end'[m] <= end'[m] /\ end'[m] <= head(m)'
                    /\ m \in heap' => start'[m] <= end'[m]
  BY Zenon DEF EndBound
<1>1. /\ start[m] \in Nat /\ end[m] \in Nat /\ maybe_lost_end[m] \in Int /\ head(m) \in Nat
      /\ head(m)' \in Nat /\ head(m) <= head(m)' /\ start[m] <= head(m)
      /\ maybe_lost_end[m] <= end[m] /\ end[m] <= head(m) /\ (m \in heap => start[m] <= end[m])
  BY Grows, HeadType, Zenon DEF EndBound, TypeOK, RingTypeOK, MmapTypeOK, SpaceSafe, head
<1>2. maybe_lost_end'[m] <= end'[m] /\ end'[m] <= head(m)' /\ end[m] <= end'[m] /\ end'[m] \in Nat
  <2>1. /\ end'[m] \in {end[m], head(m)}
        /\ maybe_lost_end'[m] \in {maybe_lost_end[m], Predict(m)}
    BY EndMoves, Zenon
  <2>2. Predict(m) \in Int /\ Predict(m) <= end[m]
    BY <1>1, OrderAssumption, SMTT(60) DEF Predict
  <2> QED
    BY <1>1, <2>1, <2>2, SMTT(60)
<1>3. CASE Takes(m) \/ Skips(m)
  <2>1. end'[m] = head(m) /\ start'[m] = start[m] + 1 /\ start[m] < head(m)
    BY <1>3, EndMoves, Zenon DEF Takes, Skips
  <2> QED
    BY <1>1, <1>2, <2>1
<1>4. CASE ~Takes(m) /\ ~Skips(m)
  <2>1. start'[m] <= start[m] /\ start'[m] \in Int
    BY <1>1, <1>4, Moves, SMTT(60) DEF Stays, Processes, PutsBack
  <2>2. m \in heap' => m \in heap
    <3>1. InitSample(m) => start'[m] = start[m] + 1
      BY DEF InitSample, TypeOK, RingTypeOK
    <3> QED
      BY <1>1, <2>1, <3>1, EndMoves, SMTT(60)
  <2> QED
    BY <1>1, <1>2, <2>1, <2>2, SMTT(60)
<1> QED
  BY <1>2, <1>3, <1>4, Zenon
-----------------------------------------------------------------------------
\* The last record of p waits for the end of a predicted loss.
Paused(p) ==
    /\ lost_pause[p] /\ maybe_lost_end[p] = head(p)
    /\ Processed(p) = head(p) - 1 /\ rb[p][head(p)].type = "SAMPLE"

\* The running call has read the head of m, and ends after its last record.
Submits(m) ==
    \/ pc = "entry" /\ cur = m /\ end[m] = head(m)
    \/ /\ pc \notin {"idle", "entry"} /\ target_map = m /\ target_end = head(m)
       /\ need_break \/ pc = "unwind" => Processed(m) = head(m)

Running == pc \in {"init", "sort", "consume", "read"}

\* While prof_dev_flush() goes through the ring buffers, the kernel is silent;
\* those it has been at are empty or being submitted, unless one is paused.
FlushInv ==
    phase = "flush" =>
        /\ \A m \in Maps : inflight[m] = <<>>
        /\ pc \notin {"idle", "entry"} => target_time = NoTime
        /\ pc \in {"sort", "consume", "read"} => todo = {}
        /\ Running => \A m \in Maps : m \in heap \cup todo \/ start[m] = head(m)
        /\ \/ \E p \in Maps : Paused(p)
           \/ \A m \in Maps \ toflush : Processed(m) = head(m) \/ Submits(m)

\* After prof_dev_disable() the kernel adds nothing.
LEMMA FlushSilent ==
  ASSUME Next, phase = "flush", \A m \in Maps : inflight[m] = <<>>
  PROVE  UNCHANGED <<rb, inflight, phase>>
<1>1. CASE Kernel
  BY <1>1, Zenon DEF Kernel, KernelSample, KernelSampleBegin, KernelSampleEnd, KernelOther, KernelTick,
     StreamArrive, kernelVars, ringKernelVars, userVars, callerVars
<1>2. CASE Call
  BY <1>2, UserOnly, Zenon DEF Call, OrderMmap, FlushMap, BeginMmap, EmptyMmap, OrderStream, OrderTo, StaleTick, Disable,
     callerVars
<1>3. CASE Step
  <2>1. UNCHANGED phase
    BY <1>3, ZenonT(60) DEF Step, InitStream, InitStreamStop, SortStream, InitEmpty, InitRecord, InitSample,
       SortTargetTime, SortLostWait, SortMap, ConsumeMap, ReadEmpty, ReadRecord, ReadSample, SortEmpty,
       Unwind, Break, InitOn, ReadOn, callerVars
  <2> QED
    BY <1>3, <2>1, UserOnly
<1> QED
  BY <1>1, <1>2, <1>3 DEF Next

LEMMA PausedStays ==
  ASSUME TypeOK, Control, SpaceSafe, EndBound, Next, UNCHANGED rb, NEW p \in Maps, Paused(p)
  PROVE  Paused(p)'
<1>1. /\ head(p) \in Nat /\ Processed(p) \in Nat /\ Processed(p) + 1 = head(p)
      /\ (Queued(p) => start[p] = head(p)) /\ (~Queued(p) => start[p] + 1 = head(p))
  BY ProcessedBound, SMTT(60) DEF Paused
<1>2. ~Skips(p)
  BY <1>1, Zenon DEF Skips, Paused
<1>3. ~SortMap(p)
  <2> SUFFICES ASSUME SortMap(p) PROVE FALSE
    OBVIOUS
  <2>1. Queued(p)
    BY Zenon DEF SortMap, Peek, Queued, Control, Phases
  <2>2. end[p] = head(p) /\ maybe_lost_end[p] = end[p]
    BY <1>1, SMTT(60) DEF EndBound, Paused, TypeOK, RingTypeOK, MmapTypeOK
  <2> QED
    BY <1>1, <2>1, <2>2, Zenon DEF SortMap, KeepLostStart
<1>4. Processed(p)' = Processed(p)
  BY <1>2, <1>3, Moves, Zenon DEF Stays, Takes, Processes, PutsBack
<1>5. maybe_lost_end'[p] = maybe_lost_end[p]
  BY <1>3, EndMoves, Zenon
<1>6. lost_pause'[p] = lost_pause[p] \/ lost_pause'[p] = TRUE
  <2>1. CASE Kernel
    BY <2>1, KernelOnly DEF userVars, mmapVars
  <2>2. CASE Call
    BY <2>2, Zenon DEF Call, OrderMmap, FlushMap, Enter, BeginMmap, EmptyMmap, OrderStream, OrderTo, StaleTick,
       Disable, Begin, mmapVars
  <2>3. CASE \/ \E s \in Streams : InitStream(s) \/ InitStreamStop(s) \/ SortStream(s)
             \/ SortEmpty \/ Unwind
             \/ \E m \in Maps : \/ InitEmpty(m) \/ InitRecord(m) \/ InitSample(m) \/ SortTargetTime(m)
                                \/ ConsumeMap(m) \/ ReadEmpty(m) \/ ReadRecord(m) \/ ReadSample(m)
    BY <2>3, ZenonT(60) DEF InitStream, InitStreamStop, SortStream, SortEmpty, Unwind, InitEmpty, InitRecord, InitSample,
       SortTargetTime, ConsumeMap, ReadEmpty, ReadRecord, ReadSample, InitOn, ReadOn, Break, mmapVars
  <2>4. ASSUME NEW m \in Maps, SortLostWait(m) \/ SortMap(m)
        PROVE  lost_pause'[p] = lost_pause[p] \/ lost_pause'[p] = TRUE
    BY <1>3, <2>4, Zenon DEF SortLostWait, SortMap, TypeOK, MmapTypeOK
  <2> QED
    BY <2>1, <2>2, <2>3, <2>4, Zenon DEF Next, Step
<1> QED
  BY <1>4, <1>5, <1>6, Zenon DEF Paused, head

\* A ring buffer whose records are all processed stays that way.
LEMMA EmptyStays ==
  ASSUME TypeOK, Control, SpaceSafe, Next, UNCHANGED rb, NEW m \in Maps, Processed(m) = head(m)
  PROVE  Processed(m)' = head(m)'
<1>1. ~Skips(m) /\ ~Processes(m)
  BY ProcessedBound, SMTT(60) DEF Skips, Processes
<1>2. Processed(m)' = Processed(m)
  BY <1>1, Moves, Zenon DEF Stays, Takes, PutsBack
<1> QED
  BY <1>2 DEF head

\* The call that submits m goes on until m is empty, or ring buffer p is paused.
LEMMA SubmitsOn ==
  ASSUME Streams = {}, TypeOK, Control, SpaceSafe, HeapSample, EndBound, FlushInv, Next,
         phase = "flush", UNCHANGED rb, NEW m \in Maps, Submits(m)
  PROVE  \/ Processed(m)' = head(m)' \/ Submits(m)'
         \/ \E p \in Maps : Paused(p)'
<1> USE OrderAssumption DEF head
<1>1. CASE Processed(m) = head(m)
  BY <1>1, EmptyStays, Zenon
<1>4. CASE pc = "entry"
  <2>0. cur = m /\ end[m] = head(m)
    BY <1>4, Zenon DEF Submits
  <2>1. CASE Kernel
    <3>1. UNCHANGED <<pc, cur, end>>
      BY <2>1, KernelOnly, Zenon DEF userVars, callVars, ringVars
    <3> QED
      BY <1>4, <2>0, <3>1, Zenon DEF Submits
  <2>2. CASE Call
    <3>1. ASSUME NEW k \in Maps, BeginMmap(k) PROVE Submits(m)'
      BY <2>0, <3>1, Zenon DEF BeginMmap, Begin, Submits
    <3>2. ASSUME NEW k \in Maps, EmptyMmap(k) PROVE Processed(m) = head(m)
      BY <1>4, <2>0, <3>2, Zenon DEF EmptyMmap, HasData, Processed
    <3> QED
      BY <1>1, <1>4, <2>2, <3>1, <3>2, Zenon DEF Call, OrderMmap, FlushMap, Enter, OrderStream, OrderTo, StaleTick,
         Disable
  <2>3. ~Step
    BY <1>4, ZenonT(60) DEF Step, InitStream, InitStreamStop, SortStream, InitEmpty, InitRecord, InitSample,
       SortTargetTime, SortLostWait, SortMap, ConsumeMap, ReadEmpty, ReadRecord, ReadSample, SortEmpty,
       Unwind, InitOn, ReadOn, Peek
  <2> QED
    BY <2>1, <2>2, <2>3, Zenon DEF Next
<1>2. ASSUME ~need_break', pc' \notin {"idle", "entry", "unwind"}, pc # "entry", UNCHANGED targetVars
      PROVE  Submits(m)'
  BY <1>2 DEF Submits, targetVars
<1>3. CASE ~need_break /\ pc \notin {"idle", "entry", "unwind"} /\ Processed(m) # head(m)
  <2>1. CASE Kernel
    <3>1. UNCHANGED <<pc, need_break, targetVars>>
      BY <2>1, KernelOnly DEF userVars, callVars
    <3> QED
      BY <1>2, <1>3, <3>1, Zenon DEF targetVars
  <2>2. CASE Call \/ Unwind
    BY <1>3, <2>2, Zenon DEF Call, Unwind, OrderMmap, FlushMap, Enter, BeginMmap, EmptyMmap, OrderStream, OrderTo,
       StaleTick, Disable
  <2>3. ASSUME NEW k \in Maps, InitEmpty(k) \/ InitRecord(k) \/ InitSample(k) \/ SortMap(k)
               \/ ReadEmpty(k) \/ ReadRecord(k) \/ ReadSample(k)
        PROVE  Submits(m)'
    <3>1. UNCHANGED <<need_break, targetVars>> /\ pc' \in {"init", "sort", "consume"}
      BY <1>3, <2>3, Zenon DEF InitEmpty, InitRecord, InitSample, SortMap, ReadEmpty, ReadRecord, ReadSample,
         InitOn, ReadOn, InitDone, TurnDone
    <3> QED
      BY <1>2, <1>3, <3>1, Zenon DEF targetVars
  <2>4. ASSUME NEW k \in Maps, ConsumeMap(k) PROVE Submits(m)'
    <3>1. UNCHANGED targetVars /\ pc' = "read" /\ cur = k /\ (AtTarget(k) \/ need_break' = need_break)
      BY <2>4, Zenon DEF ConsumeMap
    <3>2. ~AtTarget(k)
      BY <1>3, <3>1, Zenon DEF AtTarget, Submits, Processed
    <3> QED
      BY <1>2, <1>3, <3>1, <3>2, Zenon DEF targetVars
  <2>5. ASSUME NEW k \in Maps, SortLostWait(k) PROVE Paused(k)'
    <3>1. Queued(k) /\ KeepLostStart(k) /\ UNCHANGED <<start, heap, cur, maybe_lost_end>> /\ lost_pause'[k]
      BY <2>5, Zenon DEF SortLostWait, Peek, Queued, Break, ringVars, heapVars, Control, Phases, TypeOK, MmapTypeOK
    <3>2. start[k] = head(k) /\ start[k] \in Nat /\ end[k] = maybe_lost_end[k] /\ end[k] \in Nat
          /\ start[k] <= end[k] /\ end[k] <= head(k)
      BY <3>1, Zenon DEF KeepLostStart, EndBound, Queued, TypeOK, RingTypeOK
    <3>3. end[k] = head(k) /\ Processed(k) = head(k) - 1 /\ rb[k][head(k)].type = "SAMPLE"
      BY <3>1, <3>2, SMTT(60) DEF HeapSample, Queued, Processed
    <3> QED
      BY <3>1, <3>2, <3>3, Zenon DEF Paused, Processed
  <2>6. ASSUME NEW k \in Maps PROVE ~SortTargetTime(k)
    BY <1>3, Zenon DEF SortTargetTime, FlushInv
  <2>7. ~SortEmpty
    <3> SUFFICES ASSUME SortEmpty PROVE FALSE
      OBVIOUS
    <3>1. heap = {} /\ todo = {} /\ start[m] = head(m)
      BY Zenon DEF SortEmpty, FlushInv, Running
    <3> QED
      BY <1>3, <3>1, Zenon DEF Processed
  <2> QED
    BY <2>1, <2>2, <2>3, <2>4, <2>5, <2>6, <2>7, Zenon DEF Next, Step
<1> QED
  BY <1>1, <1>3, <1>4, Zenon DEF Submits

LEMMA FlushStep ==
  ASSUME Streams = {}, TypeOK, Control, SpaceSafe, HeapSample, EndBound, FlushInv, Next
  PROVE  FlushInv'
<1> USE OrderAssumption
<1> SUFFICES ASSUME phase' = "flush"
             PROVE  /\ \A m \in Maps : inflight'[m] = <<>>
                    /\ pc' \notin {"idle", "entry"} => target_time' = NoTime
                    /\ pc' \in {"sort", "consume", "read"} => todo' = {}
                    /\ Running' => \A m \in Maps : m \in heap' \cup todo' \/ start'[m] = head(m)'
                    /\ \/ \E p \in Maps : Paused(p)'
                       \/ \A m \in Maps \ toflush' : Processed(m)' = head(m)' \/ Submits(m)'
  BY Zenon DEF FlushInv
<1>1. CASE phase # "flush"
  <2>1. Disable
    <3>1. phase' # phase
      BY <1>1
    <3>2. ~Kernel
      BY <3>1, KernelOnly, Zenon DEF userVars, callerVars
    <3>3. ~Step
      BY <3>1, ZenonT(60) DEF Step, InitStream, InitStreamStop, SortStream, InitEmpty, InitRecord, InitSample,
         SortTargetTime, SortLostWait, SortMap, ConsumeMap, ReadEmpty, ReadRecord, ReadSample, SortEmpty,
         Unwind, Break, InitOn, ReadOn, callerVars
    <3> QED
      BY <3>1, <3>2, <3>3, Zenon DEF Next, Call, OrderMmap, FlushMap, BeginMmap, EmptyMmap, OrderStream, OrderTo,
         StaleTick, callerVars
  <2> QED
    BY <2>1, Zenon DEF Disable, Running, kernelVars, ringKernelVars, callVars
<1>2. CASE phase = "flush"
  <2>1. /\ UNCHANGED <<rb, inflight>> /\ \A m \in Maps : inflight'[m] = <<>>
    BY <1>2, FlushSilent, Zenon DEF FlushInv
  <2>2. \/ UNCHANGED <<pc, todo, heap, start, cur, toflush>> /\ UNCHANGED targetVars
        \/ \E m \in Maps : FlushMap(m) \/ BeginMmap(m) \/ EmptyMmap(m)
        \/ \E m \in Maps : \/ InitEmpty(m) \/ InitRecord(m) \/ InitSample(m)
                           \/ SortLostWait(m) \/ SortMap(m) \/ ConsumeMap(m)
                           \/ ReadEmpty(m) \/ ReadRecord(m) \/ ReadSample(m)
        \/ SortEmpty \/ Unwind
    <3>1. ASSUME Kernel PROVE UNCHANGED <<pc, todo, heap, start, cur, toflush>> /\ UNCHANGED targetVars
      BY <3>1, KernelOnly, Zenon DEF userVars, callVars, callerVars, heapVars, ringVars
    <3>2. ASSUME Call PROVE \E m \in Maps : FlushMap(m) \/ BeginMmap(m) \/ EmptyMmap(m)
      BY <1>2, <3>2, Zenon DEF Call, OrderMmap, OrderStream, OrderTo, StaleTick, Disable
    <3>3. ASSUME NEW k \in Maps PROVE ~SortTargetTime(k)
      BY <1>2, Zenon DEF SortTargetTime, FlushInv, Peek
    <3> QED
      BY <3>1, <3>2, <3>3, Zenon DEF Next, Step
  <2>3. (pc' \notin {"idle", "entry"} => target_time' = NoTime) /\ (pc' \in {"sort", "consume", "read"} => todo' = {})
    <3>1. (pc \notin {"idle", "entry"} => target_time = NoTime) /\ (pc \in {"sort", "consume", "read"} => todo = {})
      BY <1>2, Zenon DEF FlushInv
    <3>2. CASE UNCHANGED <<pc, todo>> /\ UNCHANGED targetVars
      BY <3>1, <3>2, Zenon DEF targetVars
    <3>3. ASSUME NEW m \in Maps, FlushMap(m) \/ BeginMmap(m) \/ EmptyMmap(m)
          PROVE  (target_time' = NoTime /\ pc' = "init") \/ pc' \in {"idle", "entry"}
      BY <3>3, Zenon DEF FlushMap, Enter, BeginMmap, EmptyMmap, Begin
    <3>4. ASSUME NEW m \in Maps, InitEmpty(m) \/ InitRecord(m) \/ InitSample(m)
          PROVE  target_time' = target_time /\ pc = "init" /\ (pc' = "init" \/ todo' = {})
      BY <3>4, Zenon DEF InitEmpty, InitRecord, InitSample, InitOn, InitDone, targetVars
    <3>5. ASSUME NEW m \in Maps, \/ SortLostWait(m) \/ SortMap(m) \/ ConsumeMap(m)
                                 \/ ReadEmpty(m) \/ ReadRecord(m) \/ ReadSample(m)
          PROVE  target_time' = target_time /\ pc \in {"sort", "consume", "read"} /\ todo' = todo
      BY <3>5, Zenon DEF SortLostWait, SortMap, ConsumeMap, ReadEmpty, ReadRecord, ReadSample, ReadOn, Break, Peek,
         targetVars
    <3>6. ASSUME SortEmpty \/ Unwind
          PROVE  pc' = "idle" \/ (pc' = "unwind" /\ target_time' = target_time /\ pc = "sort")
      BY <3>6, Zenon DEF SortEmpty, Unwind, Break, targetVars
    <3> QED
      BY <2>2, <3>1, <3>2, <3>3, <3>4, <3>5, <3>6, Zenon
  <2>5. ASSUME Running', NEW k \in Maps PROVE k \in heap' \cup todo' \/ start'[k] = head(k)'
    <3>1. head(k)' = head(k)
      BY <2>1, Zenon DEF head
    <3>2. CASE UNCHANGED <<pc, todo, heap, start, cur, toflush>>
      BY <1>2, <2>5, <3>1, <3>2, Zenon DEF FlushInv, Running
    <3>3. ASSUME NEW m \in Maps, FlushMap(m) \/ BeginMmap(m) \/ EmptyMmap(m) PROVE k \in heap' \cup todo'
      BY <2>5, <3>3, Zenon DEF FlushMap, Enter, BeginMmap, EmptyMmap, Begin, Queues, Running
    <3>4. ASSUME NEW m \in Maps, InitEmpty(m) \/ InitRecord(m) \/ InitSample(m)
          PROVE  k \in heap' \cup todo' \/ start'[k] = head(k)'
      <4>1. k \in heap \cup todo \/ start[k] = head(k)
        BY <1>2, <3>4, Zenon DEF FlushInv, Running, InitEmpty, InitRecord, InitSample, InitOn
      <4>2. CASE k = m
        BY <3>1, <3>4, <4>2, Zenon DEF InitEmpty, InitRecord, InitSample, InitOn, heapVars
      <4>3. CASE k # m
        BY <3>1, <3>4, <4>1, <4>3, Zenon DEF InitEmpty, InitRecord, InitSample, InitOn, InitDone, heapVars,
           TypeOK, RingTypeOK
      <4> QED
        BY <4>2, <4>3, Zenon
    <3>5. ASSUME NEW m \in Maps, SortLostWait(m) \/ SortMap(m) \/ ConsumeMap(m)
          PROVE  k \in heap' \cup todo' \/ start'[k] = head(k)'
      BY <1>2, <3>1, <3>5, Zenon DEF FlushInv, Running, SortLostWait, SortMap, ConsumeMap, Break, Peek, ringVars, heapVars
    <3>6. ASSUME NEW m \in Maps, ReadEmpty(m) \/ ReadRecord(m) \/ ReadSample(m)
          PROVE  k \in heap' \cup todo' \/ start'[k] = head(k)'
      <4>1. k \in heap \cup todo \/ start[k] = head(k)
        BY <1>2, <3>6, Zenon DEF FlushInv, Running, ReadEmpty, ReadRecord, ReadSample, ReadOn
      <4>2. CASE k = m
        BY <3>1, <3>6, <4>2, Zenon DEF ReadEmpty, ReadRecord, ReadSample, ReadOn, heapVars, Control, Phases
      <4>3. CASE k # m
        BY <3>1, <3>6, <4>1, <4>3, Zenon DEF ReadEmpty, ReadRecord, ReadSample, ReadOn, heapVars,
           TypeOK, RingTypeOK
      <4> QED
        BY <4>2, <4>3
    <3>7. ~SortEmpty /\ ~Unwind
      BY <2>5, Zenon DEF SortEmpty, Unwind, Break, Running
    <3> QED
      BY <2>2, <3>2, <3>3, <3>4, <3>5, <3>6, <3>7, Zenon
  <2>6. \/ \E p \in Maps : Paused(p)'
        \/ \A m \in Maps \ toflush' : Processed(m)' = head(m)' \/ Submits(m)'
    <3>1. ASSUME NEW p \in Maps, Paused(p) PROVE Paused(p)'
      BY <2>1, <3>1, PausedStays, Zenon
    <3>2. ASSUME NEW m \in Maps \ toflush, Processed(m) = head(m) \/ Submits(m)
          PROVE  \/ Processed(m)' = head(m)' \/ Submits(m)'
                 \/ \E p \in Maps : Paused(p)'
      BY <1>2, <2>1, <3>2, EmptyStays, SubmitsOn, Zenon
    <3>3. ASSUME NEW m \in toflush, m \notin toflush' PROVE Processed(m)' = head(m)' \/ Submits(m)'
      <4>1. m \in Maps /\ FlushMap(m)
        <5>1. ASSUME NEW k \in Maps, FlushMap(k) \/ BeginMmap(k) \/ EmptyMmap(k) PROVE k = m /\ FlushMap(m)
          BY <3>3, <5>1, Zenon DEF FlushMap, BeginMmap, EmptyMmap, callerVars
        <5>2. ASSUME NEW k \in Maps, \/ InitEmpty(k) \/ InitRecord(k) \/ InitSample(k)
                                     \/ SortLostWait(k) \/ SortMap(k) \/ ConsumeMap(k)
                                     \/ ReadEmpty(k) \/ ReadRecord(k) \/ ReadSample(k)
              PROVE  UNCHANGED toflush
          BY <5>2, Zenon DEF InitEmpty, InitRecord, InitSample, SortLostWait, SortMap, ConsumeMap,
             ReadEmpty, ReadRecord, ReadSample, Break, InitOn, ReadOn, callerVars
        <5>3. SortEmpty \/ Unwind => UNCHANGED toflush
          BY Zenon DEF SortEmpty, Unwind, Break, callerVars
        <5> QED
          BY <2>2, <3>3, <5>1, <5>2, <5>3, Zenon
      <4> QED
        BY <2>1, <4>1, Zenon DEF FlushMap, Enter, Submits, head, TypeOK, RingTypeOK
    <3> QED
      BY <1>2, <3>1, <3>2, <3>3, Zenon DEF FlushInv
  <2> QED
    BY <2>1, <2>3, <2>5, <2>6, Zenon
<1> QED
  BY <1>1, <1>2, Zenon

LEMMA EndInductive == Spec => []EndBound
<1> DEFINE Base == TypeOK /\ Control /\ SpaceSafe
<1>1. Init => EndBound
  BY SMTT(60) DEF Init, EndBound, head
<1>2. Base /\ EndBound /\ [Next]_vars => EndBound'
  <2>1. ASSUME EndBound, UNCHANGED vars PROVE EndBound'
    BY <2>1, Zenon DEF EndBound, head, vars, kernelVars, ringKernelVars, userVars, ringVars, mmapVars, heapVars
  <2> QED
    BY <2>1, EndStep
<1> QED
  BY <1>1, <1>2, Inductive, PTL DEF Spec

\* prof_dev_flush() submits every record that is left, unless some ring buffer
\* is kept waiting for the end of a loss, when the device pulls no stream: the
\* order_mmap() of one ring buffer never stops short of the end it has read.
THEOREM FlushedAll ==
  ASSUME Streams = {}
  PROVE  Spec => []FinalFlush
<1> DEFINE Base == TypeOK /\ Control /\ SpaceSafe /\ HeapSample /\ EndBound
<1>1. Init => FlushInv
  BY Zenon DEF Init, FlushInv
<1>2. Base /\ FlushInv /\ [Next]_vars => FlushInv'
  <2>1. ASSUME FlushInv, UNCHANGED vars PROVE FlushInv'
    BY <2>1, Zenon DEF FlushInv, Paused, Submits, Running, Processed, head, vars, kernelVars, ringKernelVars,
       userVars, ringVars, mmapVars, heapVars, callVars, callerVars, targetVars
  <2> QED
    BY <2>1, FlushStep
<1>3. Control /\ FlushInv => FinalFlush
  <2> SUFFICES ASSUME Control, FlushInv, Flushed, \A m \in Maps : ~lost_pause[m] PROVE AllSubmitted
    BY DEF FinalFlush
  <2> SUFFICES ASSUME NEW m \in Maps PROVE start[m] = head(m)
    BY DEF AllSubmitted
  <2>1. heap = {} /\ Processed(m) = head(m)
    BY Zenon DEF Flushed, FlushInv, Paused, Submits, Control, Phases
  <2> QED
    BY <2>1, Zenon DEF Processed
<1> QED
  BY <1>1, <1>2, <1>3, Inductive, OnceInductive, EndInductive, PTL DEF Spec
=============================================================================
