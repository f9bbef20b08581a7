---------------------------- MODULE OrderLosses ----------------------------
(***************************************************************************)
(* A loss is sensed before anything later is processed, and the range      *)
(* reported for it covers it, but for what a call that has lost its limit  *)
(* has overrun.                                                            *)
(***************************************************************************)
EXTENDS OrderCausality

\* The wakeup watermark leaves room to predict a loss: a LOST record, the sample
\* behind it and one more fit below it, and two records above it.
Roomy == 3 <= Watermark /\ Watermark + 2 <= RingSize

\* Intervals and orders of numbers, for the positions and the times below.
LEMMA NextIn ==
  ASSUME NEW a \in Nat, NEW b \in Nat, a < b
  PROVE  a + 1 \in 1 .. b /\ a + 1 \in (a + 1) .. b
OBVIOUS

LEMMA Beyond ==
  ASSUME NEW a \in Nat, NEW b, NEW i \in (a + 1) .. b
  PROVE  i \in 1 .. b /\ a < i
OBVIOUS

LEMMA BeyondLess ==
  ASSUME NEW a \in Nat, NEW b \in Nat, NEW c \in Nat, NEW d, NEW i \in (c + 1) .. d, a <= c, i \in 1 .. b
  PROVE  i \in (a + 1) .. b
OBVIOUS

LEMMA AtMost ==
  ASSUME NEW a \in Nat, NEW b \in Nat, NEW c \in Nat, a <= b, b <= c \/ b < c
  PROVE  a <= c
OBVIOUS

LEMMA InLonger ==
  ASSUME NEW a \in Nat, NEW b \in Nat, NEW i \in 1 .. a, b >= a
  PROVE  i \in 1 .. b
OBVIOUS

LEMMA Compare ==
  ASSUME NEW a \in Nat, NEW i \in Nat
  PROVE  i > a \/ i <= a
OBVIOUS

LEMMA NotBefore ==
  ASSUME NEW a \in Nat
  PROVE  ~(a + 1 < a)
OBVIOUS

LEMMA LessThanNext ==
  ASSUME NEW a \in Nat, NEW b \in Nat, a <= b
  PROVE  a <= b + 1
OBVIOUS

IsLost(m, i) == i \in 1 .. head(m) /\ rb[m][i].type = "LOST"

\* A loss lies between the samples before and after the record that announces it.
LostTimes ==
    \A m \in Maps :
        /\ \A l \in klost[m] :
              /\ l[1] = m /\ l[2] <= clock
              /\ \A j \in 1 .. head(m) : IsSample(m, j) => rb[m][j].time < l[2]
        /\ \A i \in 1 .. head(m) : IsLost(m, i) => \A l \in rb[m][i].lost :
              /\ l[1] = m /\ l[2] <= clock
              /\ \A j \in 1 .. head(m) :
                    IsSample(m, j) => IF j < i THEN rb[m][j].time < l[2] ELSE l[2] < rb[m][j].time
        /\ \A i \in 1 .. head(m) : IsSample(m, i) => rb[m][i].lost = {}

LEMMA AnnouncedBefore ==
  ASSUME LostTimes, NEW m \in Maps, NEW i \in 1 .. head(m), IsLost(m, i), NEW l \in rb[m][i].lost,
         NEW j \in 1 .. head(m), IsSample(m, j), ~(j < i)
  PROVE  l[1] = m /\ l[2] < rb[m][j].time
BY DEF LostTimes

LEMMA LostTimesStutter ==
  ASSUME LostTimes, UNCHANGED <<rb, klost, clock>>
  PROVE  LostTimes'
BY DEF LostTimes, IsSample, IsLost, head

\* What a step does to the losses not yet announced.
LEMMA KeepsLosses ==
  ASSUME Prompt, TypeOK, Control, SpaceSafe, NoDelay, Next, NEW k \in Maps
  PROVE  \/ klost'[k] = klost[k] /\ AddsNothing(k)
         \/ klost'[k] = {} /\ (AddsSample(k) \/ AddsLost(k))
         \/ /\ klost'[k] = klost[k] \cup {<<k, clock + 1>>} /\ AddsNothing(k) /\ KernelSample(k)
            /\ klost[k] # {} \/ head(k) - tail[k] = RingSize - 1
<1>0. head(k) \in Nat /\ tail[k] \in Nat /\ tail[k] <= head(k)
  BY ProcessedBound
<1> USE DEF TypeOK, KernelTypeOK
<1>1. Sample(clock + 1) \in Record /\ Lost(klost[k]) \in Record /\ rb[k] \in Seq(Record)
  <2>1. clock + 1 \in Nat /\ klost[k] \in SUBSET (Maps \X Nat)
    OBVIOUS
  <2> QED
    BY <2>1, Zenon DEF Sample, Lost, Record
<1>2. ASSUME NEW m \in Maps PROVE ~KernelSampleBegin(m) /\ ~KernelSampleEnd(m) /\ ~KernelOther(m)
  BY DEF KernelSampleBegin, KernelSampleEnd, KernelOther, NoDelay, Prompt
<1>3. CASE \A m \in Maps : ~KernelSample(m)
  BY <1>2, <1>3, UserOnly, Zenon
     DEF Next, Kernel, KernelTick, StreamArrive, kernelVars, ringKernelVars, AddsNothing, head
<1>4. ASSUME NEW m \in Maps, KernelSample(m), k # m PROVE klost'[k] = klost[k] /\ AddsNothing(k)
  BY <1>4, Zenon DEF KernelSample, Output, AddsNothing, head
<1>5. ASSUME KernelSample(k), rb' # rb PROVE klost'[k] = {} /\ (AddsSample(k) \/ AddsLost(k))
  <2>1. klost'[k] = {}
    BY <1>5, Zenon DEF KernelSample, Output
  <2>2. ~AddsNothing(k)
    <3>1. Len(rb'[k]) # Len(rb[k])
      <4>2. rb'[k] = rb[k] \o <<Sample(clock + 1)>> \/ rb'[k] = rb[k] \o <<Lost(klost[k]), Sample(clock + 1)>>
        BY <1>5, Zenon DEF KernelSample, Output
      <4> HIDE DEF TypeOK
      <4>3. Len(rb'[k]) = Len(rb[k]) + 1 \/ Len(rb'[k]) = Len(rb[k]) + 2
        BY <1>1, <4>2, Appended
      <4> QED
        BY <1>1, <4>3
    <3> QED
      BY <3>1, Zenon DEF AddsNothing, head
  <2> QED
    BY <2>1, <2>2, Adds, Zenon
<1>6. ASSUME KernelSample(k), rb' = rb
      PROVE  /\ klost'[k] = klost[k] \cup {<<k, clock + 1>>} /\ AddsNothing(k)
             /\ klost[k] # {} \/ head(k) - tail[k] = RingSize - 1
  <2> DEFINE recs == IF klost[k] = {} THEN <<Sample(clock + 1)>> ELSE <<Lost(klost[k]), Sample(clock + 1)>>
  <2>1. ~(CIRC_SPACE(head(k), tail[k], RingSize) >= Len(recs))
    <3>1. Len(rb[k] \o recs) # Len(rb[k])
      BY <1>1, Appended
    <3>2. [rb EXCEPT ![k] = rb[k] \o recs] # rb
      BY <3>1, Zenon
    <3> QED
      BY <1>6, <3>2, Zenon DEF KernelSample, Output
  <2>2. klost'[k] = klost[k] \cup {<<k, clock + 1>>} /\ AddsNothing(k)
    BY <1>6, <2>1, Zenon DEF KernelSample, Output, AddsNothing, head
  <2>3. ASSUME klost[k] = {} PROVE head(k) - tail[k] = RingSize - 1
    <3>1. Len(recs) = 1
      BY <2>3, Zenon
    <3>2. head(k) \in Nat /\ tail[k] \in Nat /\ tail[k] <= head(k) /\ head(k) - tail[k] < RingSize
          /\ RingSize \in Nat
      BY <1>0, OrderAssumption, Zenon DEF SpaceSafe
    <3>3. CIRC_SPACE(head(k), tail[k], RingSize) = RingSize - 1 - (head(k) - tail[k])
      BY <3>2, CircSpace, Zenon
    <3> HIDE DEF recs
    <3> QED
      BY <2>1, <3>1, <3>2, <3>3
  <2> QED
    BY <2>2, <2>3, Zenon
<1> QED
  BY <1>3, <1>4, <1>5, <1>6, Zenon

LEMMA LostTimesStep ==
  ASSUME Prompt, TypeOK, Control, SpaceSafe, NoDelay, RingTimes, LostTimes, Next
  PROVE  LostTimes'
<1> SUFFICES ASSUME NEW m \in Maps
             PROVE  /\ \A l \in klost'[m] :
                          /\ l[1] = m /\ l[2] <= clock'
                          /\ \A j \in 1 .. head(m)' : IsSample(m, j)' => rb'[m][j].time < l[2]
                    /\ \A i \in 1 .. head(m)' : IsLost(m, i)' => \A l \in rb'[m][i].lost :
                          /\ l[1] = m /\ l[2] <= clock'
                          /\ \A j \in 1 .. head(m)' :
                                IsSample(m, j)' => IF j < i THEN rb'[m][j].time < l[2] ELSE l[2] < rb'[m][j].time
                    /\ \A i \in 1 .. head(m)' : IsSample(m, i)' => rb'[m][i].lost = {}
  BY Zenon DEF LostTimes
<1> DEFINE h == head(m)
<1>1. /\ clock <= clock' /\ clock \in Nat /\ clock' \in Nat /\ h \in Nat
      /\ \A i \in 1 .. h : rb'[m][i] = rb[m][i]
      /\ KernelSample(m) => clock' = clock + 1
  BY Adds, Zenon
<1>2. \A i \in 1 .. h : rb[m][i].time \in Nat /\ rb[m][i].time <= clock
  BY RecordAt, Zenon DEF RingTimes
<1>3. /\ \A l \in klost[m] : /\ l[1] = m /\ l[2] <= clock /\ l[2] \in Nat
                             /\ \A j \in 1 .. h : rb[m][j].type = "SAMPLE" => rb[m][j].time < l[2]
      /\ \A i \in 1 .. h : rb[m][i].type = "LOST" => \A l \in rb[m][i].lost :
            /\ l[1] = m /\ l[2] <= clock /\ l[2] \in Nat
            /\ \A j \in 1 .. h : rb[m][j].type = "SAMPLE" =>
                  IF j < i THEN rb[m][j].time < l[2] ELSE l[2] < rb[m][j].time
      /\ \A i \in 1 .. h : rb[m][i].type = "SAMPLE" => rb[m][i].lost = {}
  <2>1. \A l \in klost[m] : l[2] \in Nat
    BY DEF TypeOK, KernelTypeOK
  <2>2. \A i \in 1 .. h : \A l \in rb[m][i].lost : l[2] \in Nat
    <3> SUFFICES ASSUME NEW i \in 1 .. h, NEW l \in rb[m][i].lost PROVE l[2] \in Nat
      OBVIOUS
    <3>1. rb[m][i].lost \in SUBSET (Maps \X Nat)
      BY RecordAt, Zenon
    <3> QED
      BY <3>1, Zenon
  <2> QED
    BY <2>1, <2>2, SMTT(60) DEF LostTimes, IsSample, IsLost
<1> SUFFICES /\ \A l \in klost'[m] : /\ l[1] = m /\ l[2] <= clock'
                                     /\ \A j \in 1 .. h' : rb'[m][j].type = "SAMPLE" => rb'[m][j].time < l[2]
             /\ \A i \in 1 .. h' : rb'[m][i].type = "LOST" => \A l \in rb'[m][i].lost :
                   /\ l[1] = m /\ l[2] <= clock'
                   /\ \A j \in 1 .. h' : rb'[m][j].type = "SAMPLE" =>
                         IF j < i THEN rb'[m][j].time < l[2] ELSE l[2] < rb'[m][j].time
             /\ \A i \in 1 .. h' : rb'[m][i].type = "SAMPLE" => rb'[m][i].lost = {}
  BY Zenon DEF IsSample, IsLost
<1> HIDE DEF h
<1>4. CASE klost'[m] = klost[m] /\ h' = h
  BY <1>1, <1>2, <1>3, <1>4, SMTT(60)
<1>5. CASE klost'[m] = klost[m] \cup {<<m, clock + 1>>} /\ h' = h /\ KernelSample(m)
  <2>1. \A l \in klost'[m] : l \in klost[m] \/ (l[1] = m /\ l[2] = clock + 1)
    BY <1>5
  <2> QED
    BY <1>1, <1>2, <1>3, <1>5, <2>1, SMTT(60)
<1>6. CASE klost'[m] = {} /\ AddsSample(m)
  <2>1. /\ h' = h + 1 /\ clock' = clock + 1 /\ rb'[m][h + 1].type = "SAMPLE" /\ rb'[m][h + 1].lost = {}
        /\ rb'[m][h + 1].time = clock + 1
    BY <1>1, <1>6, SMTT(60) DEF AddsSample, Sample, h
  <2>2. \A i \in 1 .. h' : i \in 1 .. h \/ i = h + 1
    BY <1>1, <2>1
  <2> QED
    BY <1>1, <1>2, <1>3, <1>6, <2>1, <2>2, SMTT(60)
<1>7. CASE klost'[m] = {} /\ AddsLost(m)
  <2>1. /\ h' = h + 2 /\ clock' = clock + 1 /\ rb'[m][h + 2].type = "SAMPLE" /\ rb'[m][h + 2].lost = {}
        /\ rb'[m][h + 2].time = clock + 1
        /\ rb'[m][h + 1].type = "LOST" /\ rb'[m][h + 1].lost = klost[m]
    BY <1>1, <1>7 DEF AddsLost, Sample, Lost, h
  <2>2. \A i \in 1 .. h' : i \in 1 .. h \/ i = h + 1 \/ i = h + 2
    BY <1>1, <2>1
  <2>3. ASSUME NEW i \in 1 .. h', rb'[m][i].type = "LOST", NEW l \in rb'[m][i].lost,
               NEW j \in 1 .. h', rb'[m][j].type = "SAMPLE"
        PROVE  IF j < i THEN rb'[m][j].time < l[2] ELSE l[2] < rb'[m][j].time
    <3>1. i # h + 2 /\ j # h + 1
      BY <2>1, <2>3, Zenon
    <3>2. CASE i \in 1 .. h /\ j \in 1 .. h
      BY <1>1, <1>3, <2>3, <3>2
    <3>3. CASE i \in 1 .. h /\ j = h + 2
      BY <1>1, <1>3, <2>1, <2>3, <3>3, SMTT(60)
    <3>4. CASE i = h + 1 /\ j \in 1 .. h
      BY <1>1, <1>3, <2>1, <2>3, <3>4, SMTT(60)
    <3>5. CASE i = h + 1 /\ j = h + 2
      BY <1>1, <1>3, <2>1, <2>3, <3>5, SMTT(60)
    <3> QED
      BY <2>2, <3>1, <3>2, <3>3, <3>4, <3>5, Zenon
  <2>4. ASSUME NEW i \in 1 .. h', rb'[m][i].type = "LOST", NEW l \in rb'[m][i].lost
        PROVE  l[1] = m /\ l[2] <= clock'
    BY <1>1, <1>3, <2>1, <2>2, <2>4, SMTT(60)
  <2>5. \A i \in 1 .. h' : rb'[m][i].type = "SAMPLE" => rb'[m][i].lost = {}
    BY <1>1, <1>3, <2>1, <2>2, SMTT(60)
  <2> QED
    BY <1>7, <2>3, <2>4, <2>5, Zenon
<1> QED
  BY <1>4, <1>5, <1>6, <1>7, KeepsLosses, Zenon DEF AddsNothing, h
-----------------------------------------------------------------------------
(* The prediction of a loss.                                               *)

\* The kernel has lost events of m, or has no room for another one.
Full(m) == klost[m] # {} \/ head(m) - tail[m] = RingSize - 1

\* What perf_mmap__consume() may have released: all that is processed, but for
\* the record being consumed.
Base(m) == IF pc = "consume" /\ cur = m THEN Processed(m) - 1 ELSE Processed(m)

\* Processed records are kept only when the ring buffer is nearly full.
TailLag ==
    \A m \in Maps : tail[m] = Base(m) \/ head(m) - Base(m) >= RingSize - (Watermark \div 2)

LEMMA TailLagStep ==
  ASSUME TypeOK, Control, SpaceSafe, EndBound, TailLag, Next
  PROVE  TailLag'
<1> USE OrderAssumption
<1> SUFFICES ASSUME NEW k \in Maps
             PROVE  tail'[k] = Base(k)' \/ head(k)' - Base(k)' >= RingSize - (Watermark \div 2)
  BY Zenon DEF TailLag
<1>a. /\ Processed(k) \in Nat /\ start[k] \in Nat /\ head(k) \in Nat /\ head(k)' \in Nat
      /\ head(k) <= head(k)' /\ Base(k) \in Int /\ k # NoMap
      /\ RingSize \in Nat /\ Watermark \div 2 \in Nat
      /\ tail \in [Maps -> Nat] /\ start \in [Maps -> Nat]
  <2>1. Processed(k) \in Nat /\ start[k] \in Nat /\ head(k) \in Nat /\ Base(k) \in Int
    BY ProcessedBound DEF Base
  <2>2. head(k)' \in Nat /\ head(k) <= head(k)'
    BY Grows, Zenon DEF head
  <2>3. tail \in [Maps -> Nat] /\ start \in [Maps -> Nat]
    BY Zenon DEF TypeOK, RingTypeOK
  <2>4. RingSize \in Nat /\ Watermark \div 2 \in Nat /\ k # NoMap
    OBVIOUS
  <2> QED
    BY <2>1, <2>2, <2>3, <2>4, Zenon
<1>b. tail[k] = Base(k) \/ head(k) - Base(k) >= RingSize - (Watermark \div 2)
  BY Zenon DEF TailLag
<1>0. ASSUME tail'[k] = tail[k], Base(k)' = Base(k)
      PROVE  tail'[k] = Base(k)' \/ head(k)' - Base(k)' >= RingSize - (Watermark \div 2)
  BY <1>a, <1>b, <1>0
<1>1. CASE Kernel
  <2>1. UNCHANGED <<tail, start, heap, cur, pc>>
    BY <1>1, KernelOnly, Zenon DEF userVars, ringVars, heapVars, callVars
  <2> QED
    BY <1>0, <2>1, Zenon DEF Base, Processed
<1>2. CASE Call
  <2>1. UNCHANGED <<tail, start>> /\ heap = {} /\ heap' = {} /\ pc # "consume" /\ pc' # "consume"
    BY <1>2, Zenon DEF Call, OrderMmap, FlushMap, Enter, BeginMmap, EmptyMmap, OrderStream, OrderTo,
       StaleTick, Disable, Begin, ringVars,
       heapVars, callVars, Control, Phases
  <2> QED
    BY <1>0, <2>1, Zenon DEF Base, Processed
<1>3. ASSUME \/ SortEmpty
             \/ \E s \in Streams : InitStream(s) \/ InitStreamStop(s) \/ SortStream(s)
             \/ \E m \in Maps : InitEmpty(m) \/ InitSample(m) \/ SortTargetTime(m) \/ SortLostWait(m)
      PROVE  UNCHANGED tail /\ pc # "consume" /\ pc' # "consume" /\ ~Skips(k) /\ ~Processes(k)
  BY <1>3, Zenon DEF SortEmpty, InitStream, InitStreamStop, SortStream, InitEmpty, InitSample, SortTargetTime, SortLostWait,
     Break, InitOn, InitDone, Peek, ringVars, Skips, Processes, InitRecord, ReadRecord, ReadOn, SortMap
<1>4. ASSUME Processed(k)' = Processed(k), tail'[k] = tail[k], pc # "consume" \/ cur # k,
             pc' # "consume" \/ cur' # k
      PROVE  tail'[k] = Base(k)' \/ head(k)' - Base(k)' >= RingSize - (Watermark \div 2)
  BY <1>0, <1>4, Zenon DEF Base
<1>5. ASSUME ~Skips(k), ~Processes(k) PROVE Processed(k)' = Processed(k)
  BY <1>5, Moves, Zenon DEF Stays, Takes, PutsBack
<1>6. ASSUME NEW m \in Maps, InitRecord(m) \/ ReadEmpty(m) \/ ReadRecord(m) \/ ReadSample(m) \/ SortMap(m)
             \/ ConsumeMap(m)
      PROVE  tail'[k] = Base(k)' \/ head(k)' - Base(k)' >= RingSize - (Watermark \div 2)
  <2>1. CASE k # m
    <3>1. tail'[k] = tail[k] /\ start'[k] = start[k]
      BY <1>a, <1>6, <2>1, Zenon DEF InitRecord, ReadEmpty, ReadRecord, ReadSample, SortMap, ConsumeMap, ReadOn, ringVars
    <3>2. ~Skips(k) /\ ~Processes(k)
      <4>1. ~Skips(k)
        BY <1>a, <3>1, SMTT(60) DEF Skips
      <4>2. ~Processes(k)
        <5>1. Processes(k) => cur' = k
          BY Zenon DEF Processes, SortMap
        <5>2. cur' # k
          BY <1>a, <1>6, <2>1, Zenon DEF InitRecord, ReadEmpty, ReadRecord, ReadSample, SortMap, ConsumeMap, ReadOn,
             TurnDone
        <5> QED
          BY <5>1, <5>2, Zenon
      <4> QED
        BY <4>1, <4>2, Zenon
    <3>3. (pc # "consume" \/ cur # k) /\ (pc' # "consume" \/ cur' # k)
      BY <1>a, <1>6, <2>1, Zenon DEF InitRecord, InitOn, ReadEmpty, ReadRecord, ReadSample, SortMap, ConsumeMap, ReadOn,
         TurnDone, Peek
    <3> QED
      BY <1>4, <1>5, <3>1, <3>2, <3>3, Zenon
  <2>2. CASE InitRecord(k)
    <3>1. tail'[k] = start[k] + 1 /\ start'[k] = start[k] + 1 /\ pc' = "init" /\ cur' = k
      BY <1>a, <2>2, Zenon DEF InitRecord, InitOn
    <3> QED
      BY <3>1, Zenon DEF Base, Processed
  <2>3. CASE ReadEmpty(k) \/ ReadSample(k)
    <3>1. tail'[k] = tail[k] /\ pc = "read" /\ pc' # "consume" /\ ~Skips(k) /\ ~Processes(k)
      BY <2>3, Zenon DEF ReadEmpty, ReadSample, ReadOn, TurnDone, Skips, Processes, InitRecord, InitOn, ReadRecord,
         SortMap, Peek
    <3> QED
      BY <1>4, <1>5, <3>1, Zenon
  <2>4. CASE ReadRecord(k)
    <3>1. tail'[k] = tail[k] /\ start'[k] = start[k] + 1 /\ pc = "read" /\ pc' = "consume" /\ cur = k /\ cur' = k
      BY <1>a, <2>4, Zenon DEF ReadRecord, ReadOn
    <3> QED
      BY <1>0, <1>a, <3>1, SMTT(60) DEF Base, Processed
  <2>5. CASE SortMap(k)
    <3>1. tail'[k] = tail[k] /\ start'[k] = start[k] /\ pc = "sort" /\ pc' = "consume" /\ cur' = k
          /\ k \in heap /\ cur # k
      BY <2>5, Zenon DEF SortMap, Peek, ringVars, Control, Phases
    <3> QED
      BY <1>0, <1>a, <3>1, Zenon DEF Base, Processed
  <2>6. CASE ConsumeMap(k)
    <3>1. /\ tail'[k] = Release(k) /\ start'[k] = start[k] /\ pc' = "read" /\ cur = k /\ cur' = k /\ k \in heap
      BY <1>a, <2>6, Zenon DEF ConsumeMap, Control, Phases
    <3>2. Base(k)' = start[k] /\ Base(k) = start[k] - 1
      BY <2>6, <3>1, Zenon DEF Base, Processed, ConsumeMap
    <3>3. CASE Release(k) = start[k]
      BY <3>1, <3>2, <3>3, Zenon
    <3>4. CASE Release(k) # start[k]
      <4>1. ~HasSpace(k, Watermark \div 2)
        BY <3>4, Zenon DEF Release
      <4>2. end[k] \in Nat /\ start[k] <= end[k] /\ end[k] <= head(k) /\ tail[k] \in Nat /\ tail[k] <= start[k]
            /\ head(k) - tail[k] < RingSize
        BY <3>1, ProcessedBound, SMTT(60) DEF EndBound, TypeOK, RingTypeOK, SpaceSafe
      <4>3. end[k] - start[k] < RingSize
        BY <1>a, <4>2, SMTT(60)
      <4>4. CIRC_SPACE(end[k], start[k], RingSize) = RingSize - 1 - (end[k] - start[k])
        BY <1>a, <4>2, <4>3, CircSpace, Zenon
      <4>5. head(k)' - start[k] >= RingSize - (Watermark \div 2)
        BY <1>a, <4>1, <4>2, <4>4, SMTT(60) DEF HasSpace
      <4> QED
        BY <3>2, <4>5, Zenon
    <3> QED
      BY <3>3, <3>4, Zenon
  <2> QED
    BY <1>6, <2>1, <2>2, <2>3, <2>4, <2>5, <2>6, Zenon
<1>7. CASE Unwind
  <2>1. CASE k \in heap
    <3>1. tail'[k] = start[k] - 1 /\ start'[k] = start[k] - 1 /\ heap' = {} /\ pc' = "idle"
      BY <1>7, <2>1, Zenon DEF Unwind, Unread, UnwindTail
    <3> QED
      BY <3>1, Zenon DEF Base, Processed
  <2>2. CASE k \notin heap
    <3>1. tail'[k] = tail[k] /\ start'[k] = start[k] /\ heap' = {} /\ pc' = "idle" /\ pc = "unwind"
      BY <1>7, <2>2, Zenon DEF Unwind, Unread, UnwindTail
    <3> QED
      BY <1>0, <2>2, <3>1, Zenon DEF Base, Processed
  <2> QED
    BY <2>1, <2>2, Zenon
<1> QED
  BY <1>1, <1>2, <1>3, <1>4, <1>5, <1>6, <1>7, Zenon DEF Next, Step

One(b) == IF b THEN 1 ELSE 0

\* The records that may be processed before the loss is predicted again: a LOST
\* record, and what is queued while map->end is behind.
Ahead(m) ==
    One(IsLost(m, Processed(m) + 1))
      + (IF Queued(m) /\ end[m] < head(m) THEN 1 + One(IsLost(m, start[m] + 1)) ELSE 0)

\* A full ring buffer has been noticed, or there is enough left to notice it.
Predicted ==
    \A m \in Maps : Full(m) =>
        \/ maybe_lost_end[m] = head(m)
        \/ head(m) - Processed(m) >= RingSize - Watermark + Ahead(m)

\* A ring buffer is never emptied while it is full.
NotEmptied == \A m \in Maps : Processed(m) = head(m) => ~Full(m)

\* The space released only grows.
LEMMA TailGrows ==
  ASSUME TypeOK, Control, SpaceSafe, Next, NEW k \in Maps
  PROVE  tail'[k] \in Nat /\ tail[k] <= tail'[k]
<1>a. tail[k] \in Nat /\ start[k] \in Nat /\ tail[k] <= start[k] /\ tail \in [Maps -> Nat]
      /\ (Queued(k) => tail[k] <= start[k] - 1 /\ start[k] - 1 \in Nat)
  BY ProcessedBound DEF TypeOK, RingTypeOK
<1>1. CASE Kernel
  BY <1>a, <1>1, KernelOnly DEF userVars, ringVars
<1>2. CASE Call
  BY <1>a, <1>2, SMTT(60) DEF Call, OrderMmap, FlushMap, Enter, BeginMmap, EmptyMmap, OrderStream, OrderTo,
       StaleTick, Disable, Begin, ringVars
<1>3. ASSUME \/ SortEmpty
             \/ \E s \in Streams : InitStream(s) \/ InitStreamStop(s) \/ SortStream(s)
             \/ \E m \in Maps : \/ InitEmpty(m) \/ InitSample(m) \/ SortTargetTime(m) \/ SortLostWait(m)
                                \/ SortMap(m) \/ ReadEmpty(m) \/ ReadRecord(m) \/ ReadSample(m)
      PROVE  tail' = tail
  BY <1>3, Zenon DEF SortEmpty, InitStream, InitStreamStop, SortStream, InitEmpty, InitSample, SortTargetTime, SortLostWait,
     SortMap, ReadEmpty, ReadRecord, ReadSample, ReadOn, Break, ringVars
<1>4. ASSUME NEW m \in Maps, InitRecord(m) PROVE tail'[k] = tail[k] \/ tail'[k] = start[k] + 1
  BY <1>a, <1>4, Zenon DEF InitRecord
<1>5. ASSUME NEW m \in Maps, ConsumeMap(m) PROVE tail'[k] = tail[k] \/ tail'[k] = start[k]
  BY <1>a, <1>5, Zenon DEF ConsumeMap, Release
<1>6. ASSUME Unwind PROVE tail'[k] = tail[k] \/ (Queued(k) /\ tail'[k] = start[k] - 1)
  BY <1>6, Zenon DEF Unwind, UnwindTail, Unread, Queued, Control, Phases
<1> QED
  BY <1>a, <1>1, <1>2, <1>3, <1>4, <1>5, <1>6, SMTT(60) DEF Next, Step

\* A step of order_process() does not make a ring buffer full.
LEMMA FullBefore ==
  ASSUME TypeOK, Control, SpaceSafe, Next, NEW k \in Maps, Full(k)', klost'[k] = klost[k], AddsNothing(k)
  PROVE  Full(k)
<1>1. /\ tail'[k] \in Nat /\ tail[k] <= tail'[k] /\ tail[k] \in Nat /\ head(k) \in Nat
      /\ head(k) - tail[k] < RingSize /\ RingSize \in Nat
  BY TailGrows, ProcessedBound, OrderAssumption, Zenon DEF SpaceSafe
<1> QED
  BY <1>1 DEF Full, AddsNothing

LEMMA NotEmptiedStep ==
  ASSUME Prompt, Roomy, TypeOK, Control, SpaceSafe, NoDelay, RingTimes, EndBound, Predicted, NotEmptied, Next
  PROVE  NotEmptied'
<1> SUFFICES ASSUME NEW k \in Maps, Processed(k)' = head(k)', Full(k)' PROVE FALSE
  BY Zenon DEF NotEmptied
<1>a. /\ Processed(k) \in Nat /\ start[k] \in Nat /\ head(k) \in Nat /\ start[k] <= head(k)
      /\ RingSize \in Nat /\ Watermark \in Nat /\ RingSize - Watermark >= 2
  BY ProcessedBound, OrderAssumption, SMTT(60) DEF Roomy
<1>1. CASE AddsNothing(k) /\ klost'[k] = klost[k]
  <2>1. Full(k) /\ Processed(k) # head(k) /\ head(k)' = head(k)
    BY <1>1, FullBefore, Zenon DEF NotEmptied, AddsNothing
  <2>2. CASE Skips(k)
    <3>1. start[k] + 1 \in 1 .. head(k) /\ rb[k][start[k] + 1].type # "SAMPLE" /\ Processed(k) = start[k]
          /\ Processed(k)' = Processed(k) + 1
      BY <1>a, <2>2, ProcessedBound, SMTT(60) DEF Skips
    <3>2. start[k] + 2 <= head(k)
      BY <1>a, <3>1, SMTT(60) DEF RingTimes, IsSample
    <3> QED
      BY <1>a, <2>1, <3>1, <3>2, SMTT(60)
  <2>3. CASE Processes(k)
    <3>1. Processed(k)' = Processed(k) + 1 /\ start[k] = head(k) /\ Processed(k) + 1 = head(k) /\ Queued(k)
          /\ ~KeepLostStart(k)
      BY <1>a, <2>1, <2>3, ProcessedBound, Zenon DEF Processes, SortMap
    <3>2. maybe_lost_end[k] # head(k)
      BY <1>a, <3>1 DEF KeepLostStart, EndBound, TypeOK, RingTypeOK, MmapTypeOK
    <3>3. Ahead(k) \in Nat
      BY DEF Ahead, One
    <3>4. head(k) - Processed(k) >= RingSize - Watermark + Ahead(k)
      BY <2>1, <3>2, Zenon DEF Predicted
    <3> QED
      BY <1>a, <3>1, <3>3, <3>4
  <2>4. Skips(k) \/ Processes(k)
    BY <2>1, Moves, Zenon DEF Stays, Takes, PutsBack
  <2> QED
    BY <2>2, <2>3, <2>4, Zenon
<1>2. CASE KernelSample(k)
  <2>1. Processed(k)' = Processed(k)
    BY <1>2, Zenon DEF KernelSample, userVars, ringVars, heapVars, callVars, Processed
  <2>2. Processed(k) <= head(k)
    BY <1>a, ProcessedBound, SMTT(60)
  <2>3. AddsNothing(k) /\ Full(k)
    <3>1. ~AddsSample(k) /\ ~AddsLost(k)
      BY <1>a, <2>1, <2>2, SMTT(60) DEF AddsSample, AddsLost
    <3>2. UNCHANGED tail
      BY <1>2, Zenon DEF KernelSample, userVars, ringVars
    <3> QED
      BY <3>1, <3>2, KeepsLosses, Zenon DEF Full, AddsNothing
  <2> QED
    BY <2>1, <2>3, Zenon DEF AddsNothing, NotEmptied
<1> QED
  BY <1>1, <1>2, KeepsLosses, Zenon DEF AddsSample, AddsLost

LEMMA PredictedStep ==
  ASSUME Prompt, Roomy, TypeOK, Control, SpaceSafe, NoDelay, RingTimes, HeapSample, EndBound, TailLag,
         Predicted, Next
  PROVE  Predicted'
<1> SUFFICES ASSUME NEW k \in Maps, Full(k)'
             PROVE  \/ maybe_lost_end'[k] = head(k)'
                    \/ head(k)' - Processed(k)' >= RingSize - Watermark + Ahead(k)'
  BY Zenon DEF Predicted
<1>a. /\ Processed(k) \in Nat /\ start[k] \in Nat /\ head(k) \in Nat /\ start[k] <= head(k) /\ tail[k] \in Nat
      /\ (Queued(k) => start[k] = Processed(k) + 1) /\ (~Queued(k) => start[k] = Processed(k))
  BY ProcessedBound, Zenon
<1>b. /\ RingSize \in Nat /\ Watermark \in Nat /\ Watermark >= 3 /\ RingSize - Watermark >= 2
  BY OrderAssumption DEF Roomy
<1>c. Ahead(k) \in Nat /\ Ahead(k)' \in Nat
  BY SMTT(60) DEF Ahead, One
<1>d. maybe_lost_end[k] \in Int /\ end[k] \in Nat /\ maybe_lost_end[k] <= end[k] /\ end[k] <= head(k)
  BY Zenon DEF EndBound, TypeOK, RingTypeOK, MmapTypeOK
<1>e. Queued(k) => ~IsLost(k, start[k])
  BY Zenon DEF HeapSample, IsLost
<1>1. CASE AddsNothing(k) /\ klost'[k] = klost[k]
  <2>0. /\ Full(k) /\ head(k)' = head(k) /\ \A i \in Int : IsLost(k, i)' = IsLost(k, i)
    BY <1>1, FullBefore, Adds, Zenon DEF AddsNothing, IsLost
  <2>1. maybe_lost_end[k] = head(k) \/ head(k) - Processed(k) >= RingSize - Watermark + Ahead(k)
    BY <2>0, Zenon DEF Predicted
  <2>2. ASSUME ~Processes(k), Processed(k)' = Processed(k), Ahead(k)' <= Ahead(k)
        PROVE  \/ maybe_lost_end'[k] = head(k)'
               \/ head(k)' - Processed(k)' >= RingSize - Watermark + Ahead(k)'
    <3>1. maybe_lost_end'[k] = maybe_lost_end[k]
      <4>1. SortMap(k) => Processes(k)
        <5>1. SortMap(k) => Queued(k) /\ ~Queued(k)' /\ start'[k] = start[k]
          BY Zenon DEF SortMap, Peek, Queued, Control, Phases, ringVars
        <5> QED
          BY <1>a, <5>1, Moves, SMTT(60) DEF Stays, Takes, Skips, PutsBack
      <4> QED
        BY <2>2, <4>1, EndMoves, Zenon
    <3> QED
      BY <1>a, <1>b, <1>c, <2>0, <2>1, <2>2, <3>1, SMTT(60)
  <2>3. CASE Stays(k)
    <3>1. Processed(k)' = Processed(k) /\ (Queued(k)' <=> Queued(k)) /\ start'[k] = start[k]
      BY <2>3, Zenon DEF Stays
    <3>2. end'[k] = end[k] \/ end'[k] = head(k)
      BY EndMoves, Zenon
    <3>3. Ahead(k)' <= Ahead(k)
      <4>1. IsLost(k, Processed(k) + 1)' = IsLost(k, Processed(k) + 1) /\ IsLost(k, start[k] + 1)' = IsLost(k, start[k] + 1)
        BY <1>a, <2>0, <3>1, SMTT(60) DEF IsLost
      <4> QED
        BY <1>a, <1>d, <2>0, <3>1, <3>2, <4>1, SMTT(60) DEF Ahead, One
    <3>4. ~Processes(k)
      BY <2>3, Zenon DEF Stays, Processes
    <3> QED
      BY <2>2, <3>1, <3>3, <3>4, Zenon
  <2>4. CASE Takes(k)
    <3>1. Processed(k)' = Processed(k) /\ Queued(k)' /\ end'[k] = head(k) /\ ~Queued(k)
          /\ rb[k][start[k] + 1].type = "SAMPLE"
      BY <2>4, EndMoves, Zenon DEF Takes
    <3>2. ~IsLost(k, Processed(k) + 1)
      BY <1>a, <3>1, Zenon DEF IsLost
    <3>3. Ahead(k)' = 0
      BY <1>a, <2>0, <3>1, <3>2, SMTT(60) DEF Ahead, One
    <3>4. ~Processes(k)
      BY <2>4, Zenon DEF Takes, Processes
    <3> QED
      BY <1>c, <2>2, <3>1, <3>3, <3>4, SMTT(60)
  <2>5. CASE PutsBack(k)
    <3>1. Processed(k)' = Processed(k) /\ Queued(k) /\ ~Queued(k)'
      BY <2>5, Zenon DEF PutsBack
    <3>2. ~IsLost(k, Processed(k) + 1)
      BY <1>a, <1>e, <3>1, Zenon
    <3>3. Ahead(k)' = 0
      BY <1>a, <2>0, <3>1, <3>2, SMTT(60) DEF Ahead, One
    <3>4. ~Processes(k)
      BY <1>a, <2>5, SMTT(60) DEF PutsBack, Processes
    <3> QED
      BY <1>c, <2>2, <3>1, <3>3, <3>4
  <2>6. CASE Skips(k)
    <3>1. Processed(k)' = Processed(k) + 1 /\ ~Queued(k) /\ ~Queued(k)' /\ start[k] < head(k)
          /\ rb[k][start[k] + 1].type # "SAMPLE" /\ start'[k] = start[k] + 1
      BY <2>6, Zenon DEF Skips
    <3>2. IsLost(k, Processed(k) + 1) /\ ~IsLost(k, Processed(k) + 2)
      BY <1>a, <3>1, SMTT(60) DEF RingTimes, IsSample, IsLost
    <3>3. Ahead(k)' = 0 /\ Ahead(k) = 1
      <4>1. ~IsLost(k, Processed(k) + 1)'
        <5>1. (Processed(k) + 1)' = Processed(k) + 2 /\ Processed(k) + 2 \in Int
          BY <1>a, <3>1, SMTT(60)
        <5>2. ~IsLost(k, Processed(k) + 2)
          BY <3>2, Zenon
        <5> QED
          BY <1>a, <2>0, <5>1, <5>2, Adds, Zenon DEF IsLost
      <4> QED
        BY <3>1, <3>2, <4>1, SMTT(60) DEF Ahead, One
    <3>4. maybe_lost_end'[k] = maybe_lost_end[k]
      <4>1. SortMap(k) => start'[k] = start[k]
        BY Zenon DEF SortMap, ringVars
      <4> QED
        BY <1>a, <3>1, <4>1, EndMoves, SMTT(60)
    <3> QED
      BY <1>a, <1>b, <2>0, <2>1, <3>1, <3>3, <3>4, SMTT(60)
  <2>7. CASE Processes(k)
    <3>1. Processed(k)' = Processed(k) + 1 /\ Queued(k) /\ ~Queued(k)' /\ start'[k] = start[k]
          /\ maybe_lost_end'[k] = Predict(k)
      BY <2>7, Zenon DEF Processes, SortMap, TypeOK, MmapTypeOK
    <3>2. start[k] = Processed(k) + 1 /\ ~IsLost(k, Processed(k) + 1)
      BY <1>a, <1>e, <3>1, Zenon
    <3>3. Ahead(k)' = One(IsLost(k, start[k] + 1))
      BY <1>a, <2>0, <3>1, <3>2, SMTT(60) DEF Ahead, One
    <3>4. CASE end[k] < head(k)
      <4>1. Ahead(k) = 1 + Ahead(k)'
        BY <3>1, <3>2, <3>3, <3>4, SMTT(60) DEF Ahead, One
      <4> QED
        BY <1>a, <1>b, <1>c, <1>d, <2>0, <2>1, <3>1, <3>4, <4>1, SMTT(60)
    <3>5. CASE end[k] = head(k)
      <4>1. CASE maybe_lost_end[k] = end[k]
        BY <2>0, <3>1, <3>5, <4>1, Zenon DEF Predict
      <4>2. CASE maybe_lost_end[k] # end[k]
        <5>1. head(k) - Processed(k) >= RingSize - Watermark
          BY <1>a, <1>b, <1>c, <2>1, <3>5, <4>2, SMTT(60)
        <5>2. tail[k] <= start[k] /\ head(k) - tail[k] < RingSize
          BY ProcessedBound, SMTT(60) DEF SpaceSafe
        <5>3. CIRC_SPACE(end[k], start[k], RingSize) = RingSize - 1 - (end[k] - start[k])
          BY <1>a, <1>b, <3>5, <5>2, CircSpace, SMTT(60)
        <5>4. ~HasSpace(k, Watermark + 1)
          BY <1>a, <1>b, <3>2, <3>5, <5>1, <5>3, SMTT(60) DEF HasSpace
        <5> QED
          BY <2>0, <3>1, <3>5, <4>2, <5>4, Zenon DEF Predict
      <4> QED
        BY <4>1, <4>2, Zenon
    <3> QED
      BY <1>a, <1>d, <3>4, <3>5, SMTT(60)
  <2> QED
    BY <2>3, <2>4, <2>5, <2>6, <2>7, Moves, Zenon
<1>2. CASE KernelSample(k)
  <2>0. UNCHANGED <<start, end, heap, cur, pc, maybe_lost_end, tail>>
    BY <1>2, Zenon DEF KernelSample, userVars, ringVars, heapVars, callVars, mmapVars
  <2>1. Processed(k)' = Processed(k) /\ Queued(k)' = Queued(k)
    BY <2>0, Zenon DEF Processed, Queued
  <2>2. CASE AddsNothing(k)
    <3>1. \A i \in Int : IsLost(k, i)' = IsLost(k, i)
      BY <2>2, Adds, Zenon DEF AddsNothing, IsLost
    <3>2. Full(k)
      BY <1>a, <2>0, <2>2, KeepsLosses, Zenon DEF AddsSample, AddsLost, AddsNothing, Full
    <3>3. Ahead(k)' = Ahead(k)
      BY <1>a, <2>0, <2>1, <2>2, <3>1, SMTT(60) DEF Ahead, One, AddsNothing
    <3> QED
      BY <2>0, <2>1, <2>2, <3>2, <3>3, Zenon DEF Predicted, AddsNothing
  <2>3. CASE AddsSample(k) \/ AddsLost(k)
    <3>1. head(k)' \in Nat /\ head(k)' >= head(k) + 1 /\ klost'[k] = {}
      <4>1. head(k)' \in Nat /\ head(k)' >= head(k) + 1
        BY <1>a, <2>3, SMTT(60) DEF AddsSample, AddsLost
      <4>2. ~AddsNothing(k)
        BY <1>a, <4>1, SMTT(60) DEF AddsNothing
      <4> QED
        BY <4>1, <4>2, KeepsLosses, Zenon
    <3>2. head(k)' - tail[k] = RingSize - 1
      BY <2>0, <3>1, Zenon DEF Full
    <3>3. Queued(k) => Ahead(k)' <= 2
      <4>1. Queued(k) => ~IsLost(k, start[k])'
        <5>1. Queued(k) => start[k] \in 1 .. head(k)
          BY <1>a, SMTT(60)
        <5> QED
          BY <1>e, <2>0, <5>1, Adds, Zenon DEF IsLost
      <4> QED
        BY <1>a, <2>0, <2>1, <4>1, SMTT(60) DEF Ahead, One
    <3>4. ~Queued(k) => Ahead(k)' <= 1
      BY <2>1, SMTT(60) DEF Ahead, One
    <3>5. Watermark \div 2 \in Nat /\ Watermark \div 2 + 1 <= Watermark
      BY <1>b
    <3>6. tail[k] = Base(k) \/ head(k) - Base(k) >= RingSize - (Watermark \div 2)
      BY Zenon DEF TailLag
    <3>7. Base(k) = Processed(k) \/ (Base(k) = Processed(k) - 1 /\ ~Queued(k))
      BY Zenon DEF Base, Queued
    <3> HIDE DEF Roomy
    <3>8. head(k)' - Processed(k) >= RingSize - Watermark + Ahead(k)'
      <4> DEFINE w2 == Watermark \div 2
      <4>1. w2 \in Nat /\ w2 + 1 <= Watermark /\ (tail[k] = Base(k) \/ head(k) - Base(k) >= RingSize - w2)
        BY <3>5, <3>6, Zenon
      <4> HIDE DEF w2
      <4> QED
        BY <1>a, <1>b, <1>c, <3>1, <3>2, <3>3, <3>4, <3>7, <4>1, SMTT(60)
    <3> QED
      BY <2>1, <3>8, Zenon
  <2> QED
    BY <2>2, <2>3, Adds, Zenon
<1> QED
  BY <1>1, <1>2, KeepsLosses, Zenon DEF AddsSample, AddsLost
-----------------------------------------------------------------------------
(* A loss that is remembered, and a loss that is still to be read.         *)

\* lost_event is that of the LOST record just read.
Remembered ==
    lost # {} =>
        /\ pc \in {"init", "consume", "read"} /\ (pc = "init" => todo \cap Streams = {})
        /\ cur \in Maps /\ IsLost(cur, start[cur]) /\ lost = rb[cur][start[cur]].lost

\* What a ring buffer seen empty loses is later than the limits of the call.
SeenEmptyLost ==
    Running => \A m \in Maps \ (heap \cup todo) : \A x \in Nat : Limit(x) =>
        /\ \A l \in klost[m] : x < l[2]
        /\ \A i \in (start[m] + 1) .. head(m) : \A l \in rb[m][i].lost : x < l[2]

LEMMA RememberedStep ==
  ASSUME Prompt, TypeOK, Control, SpaceSafe, NoDelay, RingTimes, Remembered, Next
  PROVE  Remembered'
<1> USE OrderAssumption
<1> SUFFICES ASSUME lost' # {} PROVE Remembered'
  BY Zenon DEF Remembered
<1>a. ASSUME NEW m \in Maps, NEW i \in 1 .. head(m), rb[m][i].type # "SAMPLE"
      PROVE  rb[m][i].type = "LOST" /\ i + 1 \in 1 .. head(m) /\ IsLost(m, i)'
             /\ rb'[m][i] = rb[m][i] /\ rb[m][i + 1].type = "SAMPLE"
  <2>1. rb[m][i].type = "LOST" /\ i + 1 \in 1 .. head(m) /\ rb[m][i + 1].type = "SAMPLE"
    BY <1>a, Zenon DEF RingTimes, IsSample
  <2>2. i \in 1 .. head(m)' /\ rb'[m][i] = rb[m][i]
    BY Grows, HeadType, InLonger, Zenon DEF head
  <2> QED
    BY <2>1, <2>2, Zenon DEF IsLost
<1>0. ASSUME lost # {} => UNCHANGED <<pc, cur, todo>> /\ start'[cur] = start[cur], lost' = lost PROVE Remembered'
  <2>1. cur \in Maps /\ IsLost(cur, start[cur]) /\ lost = rb[cur][start[cur]].lost
        /\ pc \in {"init", "consume", "read"} /\ (pc = "init" => todo \cap Streams = {})
    BY <1>0, Zenon DEF Remembered
  <2>2. IsLost(cur, start[cur])' /\ rb'[cur][start[cur]] = rb[cur][start[cur]]
    <3>1. PICK m \in Maps : m = cur
      BY <2>1, Zenon
    <3>2. start[m] \in 1 .. Len(rb[m]) /\ rb[m][start[m]].type = "LOST"
      BY <2>1, <3>1, Zenon DEF IsLost, head
    <3>3. start[m] \in 1 .. Len(rb'[m]) /\ rb'[m][start[m]] = rb[m][start[m]]
      BY <3>2, Grows, HeadType, InLonger, Zenon DEF head
    <3>4. cur' = m /\ start'[m] = start[m]
      BY <1>0, <3>1, Zenon
    <3> QED
      BY <3>1, <3>2, <3>3, <3>4, Zenon DEF IsLost, head
  <2> QED
    BY <1>0, <2>1, <2>2, Zenon DEF Remembered
<1>1. CASE Kernel
  BY <1>0, <1>1, KernelOnly, Zenon DEF userVars, callVars, ringVars
<1>2. CASE Call
  <2>0. lost # {} => pc \notin {"idle", "entry"}
    BY Zenon DEF Remembered
  <2>1. lost' = {} \/ (lost' = lost /\ pc \in {"idle", "entry"})
    BY <1>2, Zenon DEF Call, OrderMmap, FlushMap, Enter, BeginMmap, EmptyMmap, OrderStream, OrderTo,
       StaleTick, Disable, Begin, ringVars, callVars
  <2> QED
    BY <1>0, <2>0, <2>1, Zenon
<1>3. ASSUME \/ SortEmpty \/ Unwind
             \/ \E s \in Streams : InitStream(s) \/ InitStreamStop(s) \/ SortStream(s)
             \/ \E m \in Maps : SortTargetTime(m) \/ SortLostWait(m) \/ SortMap(m)
      PROVE  lost' = lost /\ lost = {}
  <2>1. lost' = lost
    BY <1>3, Zenon DEF SortEmpty, Unwind, InitStream, InitStreamStop, SortStream, SortTargetTime, SortLostWait, SortMap, Break
  <2>2. \/ pc \in {"sort", "unwind"}
        \/ pc = "init" /\ todo \cap Streams # {}
    BY <1>3, Zenon DEF SortEmpty, Unwind, InitStream, InitStreamStop, SortStream, SortTargetTime, SortLostWait, SortMap,
       Peek, Break
  <2> QED
    BY <2>1, <2>2, Zenon DEF Remembered
<1>4. ASSUME NEW m \in Maps, InitRecord(m) \/ ReadRecord(m) PROVE Remembered'
  <2>1. /\ start[m] + 1 \in 1 .. head(m) /\ rb[m][start[m] + 1].type # "SAMPLE" /\ start'[m] = start[m] + 1
        /\ cur' = m /\ pc' \in {"init", "consume"} /\ (pc' = "init" => todo' \cap Streams = {})
    <3>1. start[m] \in Nat /\ head(m) \in Nat /\ start \in [Maps -> Nat]
      BY ProcessedBound, Zenon DEF TypeOK, RingTypeOK
    <3>2. /\ start[m] < head(m) /\ rb[m][start[m] + 1].type # "SAMPLE"
          /\ start' = [start EXCEPT ![m] = start[m] + 1]
          /\ cur' = m /\ pc' \in {"init", "consume"} /\ (pc' = "init" => todo' \cap Streams = {})
      BY <1>4, <3>1, Zenon DEF InitRecord, InitOn, ReadRecord, ReadOn, Next1
    <3>3. start[m] + 1 \in 1 .. head(m)
      BY <3>1, <3>2, SMTT(60)
    <3>4. start'[m] = start[m] + 1
      BY <3>1, <3>2, Zenon
    <3> QED
      BY <3>2, <3>3, <3>4, Zenon
  <2>2. /\ rb[m][start[m] + 1].type = "LOST" /\ rb'[m][start[m] + 1] = rb[m][start[m] + 1]
        /\ start[m] + 1 \in 1 .. Len(rb'[m])
    <3>1. PICK i \in 1 .. head(m) : i = start[m] + 1
      BY <2>1, Zenon
    <3>2. rb[m][i].type = "LOST" /\ rb'[m][i] = rb[m][i] /\ i \in 1 .. Len(rb'[m])
      BY <1>a, <2>1, <3>1, Zenon DEF IsLost, head
    <3> QED
      BY <3>1, <3>2, Zenon
  <2>3. lost' = rb[m][start[m] + 1].lost
    BY <1>4, <2>2, Zenon DEF InitRecord, ReadRecord, Next1
  <2> QED
    BY <2>1, <2>2, <2>3, Zenon DEF Remembered, IsLost, head
<1>5. ASSUME NEW m \in Maps, InitEmpty(m) \/ InitSample(m) \/ ReadSample(m) PROVE lost' = {}
  BY <1>5, Zenon DEF InitEmpty, InitSample, ReadSample, Report
<1>6. ASSUME NEW m \in Maps, ConsumeMap(m) PROVE Remembered'
  <2>1. UNCHANGED <<lost, cur, start, todo>> /\ pc = "consume" /\ pc' = "read"
    BY <1>6, Zenon DEF ConsumeMap
  <2>2. UNCHANGED rb
    BY <1>6, UserOnly, Zenon DEF Step
  <2> QED
    BY <2>1, <2>2, Zenon DEF Remembered, IsLost, head
<1>7. ASSUME NEW m \in Maps, ReadEmpty(m) PROVE FALSE
  <2>1. lost # {} /\ cur = m /\ start[m] = head(m)
    BY <1>7, Zenon DEF ReadEmpty, ReadOn
  <2>2. start[m] \in 1 .. head(m) /\ rb[m][start[m]].type = "LOST"
    BY <2>1, Zenon DEF Remembered, IsLost
  <2>3. start[m] + 1 \in 1 .. head(m)
    BY <2>2, Zenon DEF RingTimes, IsSample
  <2> QED
    BY <2>1, <2>2, <2>3, SMTT(60)
<1> QED
  BY <1>0, <1>1, <1>2, <1>3, <1>4, <1>5, <1>6, <1>7, Zenon DEF Next, Step

LEMMA SeenEmptyLostStep ==
  ASSUME Prompt, Roomy, TypeOK, Control, SpaceSafe, SortInv, HeapSample, CausalInv, EndBound, LostTimes, Predicted,
         NotEmptied, SeenEmptyLost, Next
  PROVE  SeenEmptyLost'
<1> USE OrderAssumption DEF CausalInv
<1> SUFFICES ASSUME Running', NEW k \in Maps \ (heap' \cup todo'), NEW x \in Nat, Limit(x)'
             PROVE  /\ \A l \in klost'[k] : x < l[2]
                    /\ \A i \in (start'[k] + 1) .. head(k)' : \A l \in rb'[k][i].lost : x < l[2]
  BY Zenon DEF SeenEmptyLost
<1>1. ~Begins
  BY Zenon DEF Begins, Queues
<1>2. Limit(x) /\ x <= clock /\ Running /\ clock \in Nat
  BY <1>1, LimitKept, LimitPast, Targets, Zenon DEF TypeOK, KernelTypeOK
<1>3. head(k) \in Nat /\ start[k] \in Nat /\ start'[k] \in Nat
  BY StartMoves, Zenon
<1>4. CASE k \in heap \cup todo
  <2>1. start[k] = head(k) /\ start'[k] = start[k] /\ head(k)' = head(k)
    BY <1>1, <1>4, Leaves, Zenon
  <2>2. Processed(k)' = head(k)'
    BY <2>1, Zenon DEF Processed
  <2>3. NotEmptied'
    BY NotEmptiedStep, Zenon
  <2>4. klost'[k] = {}
    BY <2>2, <2>3, Zenon DEF NotEmptied, Full
  <2>5. (start'[k] + 1) .. head(k)' = {}
    BY <1>3, <2>1, SMTT(60)
  <2> QED
    BY <2>4, <2>5, Zenon
<1>5. CASE k \notin heap \cup todo
  <2>1. /\ \A l \in klost[k] : x < l[2]
        /\ \A i \in (start[k] + 1) .. head(k) : \A l \in rb[k][i].lost : x < l[2]
    BY <1>2, <1>5, Zenon DEF SeenEmptyLost
  <2>2. start[k] <= start'[k]
    <3>1. ~Queued(k)
      BY <1>5, Zenon DEF Queued
    <3> QED
      BY <3>1, StartMoves, Zenon DEF PutsBack
  <2>3. ASSUME NEW l \in klost'[k] PROVE x < l[2]
    <3>1. l \in klost[k] \/ l = <<k, clock + 1>>
      BY <2>3, KeepsLosses, Zenon
    <3> QED
      BY <1>2, <2>1, <3>1, SMTT(60)
  <2>4. ASSUME NEW i \in (start'[k] + 1) .. head(k)', NEW l \in rb'[k][i].lost PROVE x < l[2]
    <3>0. i \in 1 .. head(k)'
      BY <1>3, <2>4, Beyond, Zenon
    <3>1. CASE i \in 1 .. head(k) /\ rb'[k][i] = rb[k][i]
      <4>1. i \in (start[k] + 1) .. head(k)
        BY <1>3, <2>2, <2>4, <3>1, BeyondLess, Zenon
      <4> QED
        BY <2>1, <2>4, <3>1, <4>1, Zenon
    <3>2. CASE rb'[k][i].lost \subseteq klost[k]
      BY <2>1, <2>4, <3>2, Zenon
    <3> QED
      BY <3>0, <3>1, <3>2, RecordOf, Zenon
  <2> QED
    BY <2>3, <2>4, Zenon
<1> QED
  BY <1>4, <1>5, Zenon
-----------------------------------------------------------------------------
\* LossSensedInTime, by the places where a loss may be.
Sensed ==
  overrun < heap_popped_time =>
    /\ \A l \in lost : heap_popped_time <= l[2]
    /\ \A m \in Maps : \A l \in klost[m] : heap_popped_time <= l[2]
    /\ \A m \in Maps : \A i \in (start[m] + 1) .. head(m) : \A l \in rb[m][i].lost : heap_popped_time <= l[2]

LossInv ==
    /\ EndBound /\ LostTimes /\ TailLag /\ Predicted /\ NotEmptied /\ Remembered /\ SeenEmptyLost
    /\ Sensed /\ LossCovered

\* What is popped within a limit is not later than any loss.
LEMMA PopSensed ==
  ASSUME TypeOK, Control, SpaceSafe, SortInv, HeapSample, CausalInv, LossInv, NEW q \in Queues, Pops(q),
         overrun < htime[q], NEW x \in Nat, Limit(x), htime[q] <= x, NEW k \in Maps
  PROVE  /\ \A l \in klost[k] : htime[q] <= l[2]
         /\ \A i \in (start[k] + 1) .. head(k) : \A l \in rb[k][i].lost : htime[q] <= l[2]
<1> USE DEF CausalInv, LossInv
<1>1. htime[q] \in Nat /\ pc = "sort" /\ cur \notin heap /\ todo = {} /\ Running
  BY Zenon DEF Pops, Peek, Control, Phases, Joining, Running, TypeOK, HeapTypeOK
<1>a. \A l \in klost[k] : l[2] \in Nat
  BY SMTT(60) DEF TypeOK, KernelTypeOK
<1>b. ASSUME NEW i \in 1 .. head(k), NEW l \in rb[k][i].lost PROVE l[2] \in Nat
  <2>1. rb[k][i].lost \in SUBSET (Maps \X Nat)
    BY RecordAt, Zenon
  <2> QED
    BY <1>b, <2>1, Zenon
<1>c. start[k] \in Nat /\ head(k) \in Nat
  BY ProcessedBound, Zenon
<1>2. CASE k \in heap
  <2>1. Queued(k) /\ htime[q] <= htime[k]
    BY <1>1, <1>2, Zenon DEF Queued, Pops, Peek
  <2>a. start[k] \in 1 .. head(k) /\ IsSample(k, start[k]) /\ htime[k] \in Nat
    BY <2>1, QueuedSample, Zenon
  <2>b. ~(htime[k] <= overrun)
    <3>1. overrun \in Nat
      BY Zenon DEF TypeOK, SortTypeOK
    <3> QED
      BY <1>1, <2>1, <2>a, <3>1, SMTT(60)
  <2>2. /\ start[k] \in 1 .. head(k) /\ IsSample(k, start[k]) /\ htime[k] = rb[k][start[k]].time /\ htime[k] \in Nat
    BY <2>1, <2>a, <2>b, Zenon DEF HeapTime
  <2>3. ASSUME NEW l \in klost[k] PROVE htime[q] <= l[2]
    <3>1. htime[k] < l[2]
      <4>1. rb[k][start[k]].time < l[2]
        BY <2>2, <2>3, Zenon DEF LostTimes
      <4> QED
        BY <2>2, <4>1, Zenon
    <3> QED
      BY <1>1, <1>a, <2>1, <2>2, <2>3, <3>1, AtMost, Zenon
  <2>4. ASSUME NEW i \in (start[k] + 1) .. head(k), NEW l \in rb[k][i].lost PROVE htime[q] <= l[2]
    <3>1. i \in 1 .. head(k) /\ start[k] < i
      BY <1>c, <2>4, Beyond, Zenon
    <3>2. IsLost(k, i)
      BY <2>4, <3>1, ZenonT(60) DEF RingTimes, LostTimes, IsLost
    <3>3. htime[k] < l[2]
      BY <2>2, <2>4, <3>1, <3>2, Zenon DEF LostTimes
    <3> QED
      BY <1>1, <1>b, <2>1, <2>2, <2>4, <3>1, <3>3, AtMost, Zenon
  <2> QED
    BY <2>3, <2>4, Zenon
<1>3. CASE k \notin heap
  <2>2. /\ \A l \in klost[k] : x < l[2]
        /\ \A i \in (start[k] + 1) .. head(k) : \A l \in rb[k][i].lost : x < l[2]
    BY <1>1, <1>3, Zenon DEF SeenEmptyLost
  <2>3. \A i \in (start[k] + 1) .. head(k) : i \in 1 .. head(k)
    BY <1>c, Beyond, Zenon
  <2> QED
    BY <1>1, <1>a, <1>b, <2>2, <2>3, AtMost, Zenon
<1> QED
  BY <1>2, <1>3, Zenon

LEMMA SensedStep ==
  ASSUME Prompt, TypeOK, Control, SpaceSafe, SortInv, HeapSample, CausalInv, LossInv, Next
  PROVE  Sensed'
<1> USE OrderAssumption DEF CausalInv, LossInv
<1> SUFFICES ASSUME overrun' < heap_popped_time' PROVE Sensed'
  BY Zenon DEF Sensed
<1>a. heap_popped_time \in Nat /\ clock \in Nat /\ heap_popped_time <= clock
  BY Zenon DEF TypeOK, SortTypeOK, KernelTypeOK, NothingEarlier
<1>b. ASSUME NEW k \in Maps
      PROVE  /\ \A l \in klost[k] : heap_popped_time' <= l[2]
             /\ \A i \in (start[k] + 1) .. head(k) : \A l \in rb[k][i].lost : heap_popped_time' <= l[2]
  <2>1. CASE UNCHANGED <<heap_popped_time, overrun>>
    BY <2>1, Zenon DEF Sensed
  <2>2. ASSUME NEW q \in Queues, Pops(q)
        PROVE  /\ \A l \in klost[k] : heap_popped_time' <= l[2]
               /\ \A i \in (start[k] + 1) .. head(k) : \A l \in rb[k][i].lost : heap_popped_time' <= l[2]
    <3>1. /\ heap_popped_time' \in Nat /\ overrun \in Nat /\ htime[q] \in Nat
          /\ heap_popped_time' = Max2(heap_popped_time, htime[q])
      BY <2>2, PoppedMoves, Zenon DEF Pops, TypeOK, HeapTypeOK
    <3>2. overrun' # heap_popped_time'
      BY <3>1, SMTT(60)
    <3>3. overrun' = overrun /\ (htime[q] <= overrun \/ \E x \in Nat : Limit(x) /\ htime[q] <= x)
      BY <2>2, <3>2, Zenon DEF Pops
    <3>4. \/ heap_popped_time' = heap_popped_time /\ overrun < heap_popped_time
          \/ heap_popped_time' = htime[q] /\ overrun < htime[q] /\ ~(htime[q] <= overrun)
      BY <1>a, <3>1, <3>3, SMTT(60) DEF Max2
    <3>5. CASE heap_popped_time' = heap_popped_time /\ overrun < heap_popped_time
      BY <3>5, Zenon DEF Sensed
    <3>6. CASE heap_popped_time' = htime[q] /\ overrun < htime[q] /\ ~(htime[q] <= overrun)
      <4>1. PICK x \in Nat : Limit(x) /\ htime[q] <= x
        BY <3>3, <3>6, Zenon
      <4> HIDE DEF CausalInv, LossInv
      <4> QED
        BY <2>2, <3>6, <4>1, PopSensed, Zenon
    <3> QED
      BY <3>4, <3>5, <3>6, Zenon
  <2>3. UNCHANGED <<heap_popped_time, overrun>> \/ \E q \in Queues : Pops(q)
    BY Popped, Zenon DEF Queues
  <2> QED
    BY <2>1, <2>2, <2>3, Zenon
<1>c. ASSUME NEW m \in Maps, KernelSample(m) PROVE heap_popped_time' = heap_popped_time
  BY <1>c, Zenon DEF KernelSample, userVars, sortVars
<1>1. ASSUME NEW k \in Maps, NEW l \in klost'[k] PROVE heap_popped_time' <= l[2]
  <2>1. l \in klost[k] \/ (l = <<k, clock + 1>> /\ KernelSample(k))
    BY <1>1, KeepsLosses, Zenon
  <2> QED
    <3>1. CASE l \in klost[k]
      BY <1>b, <3>1, Zenon
    <3>2. CASE l = <<k, clock + 1>> /\ KernelSample(k)
      <4>1. l[2] = clock + 1
        BY <3>2
      <4> QED
        BY <1>a, <1>c, <3>2, <4>1, LessThanNext, Zenon
    <3> QED
      BY <2>1, <3>1, <3>2, Zenon
<1>2. ASSUME NEW k \in Maps, NEW i \in (start'[k] + 1) .. head(k)', NEW l \in rb'[k][i].lost
      PROVE  heap_popped_time' <= l[2]
  <2>1. head(k) \in Nat /\ start[k] \in Nat /\ start'[k] \in Nat
    BY StartMoves, Zenon
  <2>2. i \in 1 .. head(k)'
    BY <1>2, <2>1, Beyond, Zenon
  <2>3. CASE rb'[k][i].lost \subseteq klost[k]
    BY <1>2, <1>b, <2>3, Zenon
  <2>4. CASE i \in 1 .. head(k) /\ rb'[k][i] = rb[k][i]
    <3>1. CASE i > start[k]
      <4>1. i \in (start[k] + 1) .. head(k)
        BY <2>1, <2>4, <3>1
      <4> QED
        BY <1>2, <1>b, <2>4, <4>1, Zenon
    <3>2. CASE i <= start[k]
      <4>1. ~(start[k] <= start'[k])
        BY <1>2, <2>1, <3>2
      <4>2. Queued(k) /\ start'[k] = start[k] - 1
        BY <4>1, StartMoves, Zenon DEF PutsBack
      <4>3. i = start[k]
        BY <1>2, <2>1, <3>2, <4>2
      <4>4. IsSample(k, i)
        BY <2>4, <4>2, <4>3, Zenon DEF HeapSample, IsSample
      <4> QED
        BY <1>2, <2>4, <4>4, Zenon DEF LostTimes
    <3>3. i \in Nat
      BY <2>4
    <3> QED
      BY <2>1, <3>1, <3>2, <3>3, Compare, Zenon
  <2> QED
    BY <2>2, <2>3, <2>4, RecordOf, Zenon
<1>3. ASSUME NEW l \in lost' PROVE heap_popped_time' <= l[2]
  <2>1. \/ lost' = {}
        \/ lost' = lost
        \/ \E m \in Maps : (InitRecord(m) \/ ReadRecord(m)) /\ start[m] < head(m) /\ lost' = rb[m][start[m] + 1].lost
    <3>1. CASE Kernel
      BY <3>1, KernelOnly, Zenon DEF userVars, callVars
    <3>2. CASE Call
      BY <3>2, Zenon DEF Call, OrderMmap, FlushMap, Enter, BeginMmap, EmptyMmap, OrderStream, OrderTo,
       StaleTick, Disable, Begin, callVars
    <3>3. CASE \/ SortEmpty \/ Unwind
               \/ \E s \in Streams : InitStream(s) \/ InitStreamStop(s) \/ SortStream(s)
               \/ \E m \in Maps : \/ InitEmpty(m) \/ InitSample(m) \/ SortTargetTime(m) \/ SortLostWait(m)
                                  \/ SortMap(m) \/ ConsumeMap(m) \/ ReadEmpty(m) \/ ReadSample(m)
      BY <3>3, Zenon DEF SortEmpty, Unwind, InitStream, InitStreamStop, SortStream, InitEmpty, InitSample, SortTargetTime,
         SortLostWait, SortMap, ConsumeMap, ReadEmpty, ReadSample, Report, Break
    <3>4. ASSUME NEW m \in Maps, InitRecord(m) \/ ReadRecord(m)
          PROVE  start[m] < head(m) /\ (lost' = lost \/ lost' = rb[m][start[m] + 1].lost)
      BY <3>4, Zenon DEF InitRecord, ReadRecord, Next1
    <3> QED
      BY <3>1, <3>2, <3>3, <3>4, Zenon DEF Next, Step
  <2>2. CASE lost' = lost /\ UNCHANGED <<heap_popped_time, overrun>>
    BY <1>3, <2>2, Zenon DEF Sensed
  <2>3. CASE ~UNCHANGED <<heap_popped_time, overrun>>
    <3>1. \/ \E m \in Maps : SortMap(m)
          \/ \E s \in Streams : SortStream(s)
      BY <2>3, Popped, Zenon
    <3>2. pc = "sort" /\ lost' = lost
      BY <3>1, Zenon DEF SortMap, SortStream, Peek
    <3> QED
      BY <1>3, <3>2, Zenon DEF Remembered
  <2>4. ASSUME NEW m \in Maps, start[m] < head(m), lost' = rb[m][start[m] + 1].lost
        PROVE  heap_popped_time' <= l[2]
    <3>1. start[m] + 1 \in (start[m] + 1) .. head(m)
      BY <2>4, ProcessedBound, NextIn, Zenon
    <3> QED
      BY <1>3, <1>b, <2>4, <3>1, Zenon
  <2> QED
    BY <1>3, <2>1, <2>2, <2>3, <2>4, Zenon
<1> QED
  BY <1>1, <1>2, <1>3, Zenon DEF Sensed

\* LossCovered, of one report.
Covered(r, o) == \A l \in r.lost : l[1] = r.map /\ r.from <= Max2(l[2], o) /\ l[2] <= r.to

LEMMA CoveredStep ==
  ASSUME Prompt, TypeOK, Control, SpaceSafe, SortInv, HeapSample, CausalInv, LossInv, Next
  PROVE  LossCovered'
<1> USE OrderAssumption DEF CausalInv, LossInv
<1>a. heap_popped_time \in Nat /\ overrun \in Nat /\ overrun' \in Nat /\ overrun <= overrun'
  BY PoppedMoves, Zenon
<1>0. ASSUME NEW r \in reports PROVE Covered(r, overrun')
  <2> SUFFICES ASSUME NEW l \in r.lost PROVE l[1] = r.map /\ r.from <= Max2(l[2], overrun') /\ l[2] <= r.to
    BY Zenon DEF Covered
  <2>1. l[1] = r.map /\ r.from <= Max2(l[2], overrun) /\ l[2] <= r.to
    BY Zenon DEF LossCovered
  <2>2. r.from \in Nat /\ l[2] \in Nat
    BY SMTT(60) DEF TypeOK, SeenTypeOK
  <2> QED
    BY <1>a, <2>1, <2>2, SMTT(60) DEF Max2
<1>1. ASSUME NEW m \in Maps, NEW to \in Nat, reports' = Reported(m, to), cur \in {m, NoMap},
             start[m] + 1 \in 1 .. head(m), rb[m][start[m] + 1].type = "SAMPLE", rb[m][start[m] + 1].time <= to
      PROVE  LossCovered'
  <2> SUFFICES ASSUME lost # {}, NEW l \in lost
               PROVE  l[1] = m /\ event_mono_time[m] <= Max2(l[2], overrun') /\ l[2] <= to
    <3>1. LossCovered' <=> \A r \in reports' : Covered(r, overrun')
      BY Zenon DEF LossCovered, Covered
    <3>2. ASSUME NEW r \in reports PROVE Covered(r, overrun')
      BY <1>0, <3>2, Zenon
    <3>3. ASSUME lost # {} PROVE Covered([map |-> m, lost |-> lost, from |-> event_mono_time[m], to |-> to], overrun')
      BY <3>3, SMTT(60) DEF Covered
    <3> QED
      BY <1>1, <3>1, <3>2, <3>3, SMTT(60) DEF Reported
  <2>1. cur = m /\ IsLost(m, start[m]) /\ lost = rb[m][start[m]].lost
    BY <1>1, Zenon DEF Remembered
  <2>2. start[m] \in 1 .. head(m) /\ l[2] \in Nat /\ rb[m][start[m] + 1].time \in Nat
    <3>1. start[m] \in 1 .. head(m)
      BY <2>1, Zenon DEF IsLost
    <3>2. rb[m][start[m] + 1].time \in Nat
      BY <1>1, RecordAt, Zenon
    <3>3. l[2] \in Nat
      BY Zenon DEF TypeOK, CallTypeOK
    <3> QED
      BY <3>1, <3>2, <3>3, Zenon
  <2>3. IsSample(m, start[m] + 1) /\ ~(start[m] + 1 < start[m])
    BY <1>1, ProcessedBound, NotBefore, Zenon DEF IsSample
  <2>4. l[1] = m /\ l[2] < rb[m][start[m] + 1].time
    <3>1. PICK i \in 1 .. head(m), j \in 1 .. head(m) : i = start[m] /\ j = start[m] + 1
      BY <1>1, <2>2, Zenon
    <3>2. LostTimes /\ IsLost(m, i) /\ l \in rb[m][i].lost /\ IsSample(m, j) /\ ~(j < i)
      BY <2>1, <2>3, <3>1, Zenon
    <3>3. l[1] = m /\ l[2] < rb[m][j].time
      BY <3>2, AnnouncedBefore, Zenon
    <3> QED
      BY <3>1, <3>3, Zenon
  <2>5. event_mono_time[m] <= heap_popped_time /\ (overrun < heap_popped_time => heap_popped_time <= l[2])
    BY Zenon DEF SortInv, PoppedLast, Sensed
  <2>6. event_mono_time[m] \in Nat /\ heap_popped_time \in Nat
    BY Zenon DEF TypeOK, MmapTypeOK, SortTypeOK
  <2>7. l[2] <= to
    BY <1>1, <2>2, <2>4, SMTT(60)
  <2>8. event_mono_time[m] <= Max2(l[2], overrun')
    BY <1>a, <2>2, <2>5, <2>6, SMTT(60) DEF Max2
  <2> QED
    BY <2>4, <2>7, <2>8, Zenon
<1>2. CASE reports' = reports
  BY <1>0, <1>2, Zenon DEF LossCovered, Covered
<1>3. ASSUME NEW m \in Maps, InitSample(m) PROVE LossCovered'
  <2>0. start[m] < head(m) /\ rb[m][start[m] + 1].type = "SAMPLE" /\ cur \in {m, NoMap}
    BY <1>3, Zenon DEF InitSample, InitOn, Next1
  <2>1. start[m] + 1 \in 1 .. head(m) /\ rb[m][start[m] + 1].type = "SAMPLE" /\ cur \in {m, NoMap}
    BY <2>0, ProcessedBound, NextIn, Zenon
  <2>2. rb[m][start[m] + 1].time \in Nat /\ heap_popped_time \in Nat
    BY <2>1, RecordAt, Zenon DEF TypeOK, SortTypeOK
  <2>3. InitTime(rb[m][start[m] + 1].time) \in Nat /\ rb[m][start[m] + 1].time <= InitTime(rb[m][start[m] + 1].time)
    BY <2>2, SMTT(60) DEF InitTime, Max2
  <2>4. reports' = Reported(m, InitTime(rb[m][start[m] + 1].time))
    BY <1>3, Zenon DEF InitSample, Report, Next1
  <2> QED
    BY <1>1, <2>1, <2>3, <2>4, Zenon
<1>4. ASSUME NEW m \in Maps, ReadSample(m) PROVE LossCovered'
  <2>0. start[m] < head(m) /\ rb[m][start[m] + 1].type = "SAMPLE" /\ cur \in {m, NoMap}
    BY <1>4, Zenon DEF ReadSample, ReadOn, Next1
  <2>1. start[m] + 1 \in 1 .. head(m) /\ rb[m][start[m] + 1].type = "SAMPLE" /\ cur \in {m, NoMap}
    BY <2>0, ProcessedBound, NextIn, Zenon
  <2>2. rb[m][start[m] + 1].time \in Nat
    BY <2>1, RecordAt, Zenon
  <2>3. reports' = Reported(m, rb[m][start[m] + 1].time)
    BY <1>4, Zenon DEF ReadSample, Report, Next1
  <2>4. rb[m][start[m] + 1].time <= rb[m][start[m] + 1].time
    BY <2>2, SMTT(60)
  <2> QED
    BY <1>1, <2>1, <2>2, <2>3, <2>4, Zenon
<1>5. CASE Kernel
  BY <1>2, <1>5, KernelOnly, Zenon DEF userVars, seenVars
<1>6. CASE Call
  <2>1. reports' = reports
    BY <1>6, Zenon DEF Call, OrderMmap, FlushMap, Enter, BeginMmap, EmptyMmap, OrderStream, OrderTo,
       StaleTick, Disable, Begin, seenVars
  <2> QED
    BY <1>2, <2>1, Zenon
<1>7. ASSUME \/ SortEmpty \/ Unwind
             \/ \E s \in Streams : InitStream(s) \/ InitStreamStop(s) \/ SortStream(s)
             \/ \E m \in Maps : \/ InitEmpty(m) \/ InitRecord(m) \/ SortTargetTime(m) \/ SortLostWait(m)
                                \/ SortMap(m) \/ ConsumeMap(m) \/ ReadEmpty(m) \/ ReadRecord(m)
      PROVE  reports' = reports
  BY <1>7, ZenonT(60) DEF SortEmpty, Unwind, InitStream, InitStreamStop, SortStream, InitEmpty, InitRecord, SortTargetTime,
     SortLostWait, SortMap, ConsumeMap, ReadEmpty, ReadRecord, Break, seenVars
<1> QED
  BY <1>2, <1>3, <1>4, <1>5, <1>6, <1>7, Zenon DEF Next, Step

LEMMA LossInductive ==
  ASSUME Prompt, Roomy
  PROVE  Spec => []LossInv
<1> DEFINE Given == TypeOK /\ Control /\ SpaceSafe /\ SortInv /\ HeapSample /\ CausalInv
<1>1. Init => LossInv
  <2> SUFFICES ASSUME Init PROVE LossInv
    OBVIOUS
  <2>a. EndBound /\ LostTimes
    BY SMTT(60) DEF Init, EndBound, LostTimes, head
  <2>b. Remembered /\ SeenEmptyLost
    BY Zenon DEF Init, Remembered, SeenEmptyLost, Running
  <2>1. EndBound /\ LostTimes /\ Remembered /\ SeenEmptyLost
    BY <2>a, <2>b, Zenon
  <2>2. TailLag /\ Sensed /\ LossCovered
    BY SMTT(60) DEF Init, TailLag, Base, Processed, Sensed, LossCovered, head
  <2>3. Predicted /\ NotEmptied
    <3>1. ASSUME NEW m \in Maps PROVE ~Full(m)
      BY OrderAssumption, SMTT(60) DEF Init, Full, head, Roomy
    <3> QED
      BY <3>1, Zenon DEF Predicted, NotEmptied
  <2> QED
    BY <2>1, <2>2, <2>3, Zenon DEF LossInv
<1>2. Given /\ LossInv /\ [Next]_vars => LossInv'
  <2>1. ASSUME Given, LossInv, Next PROVE LossInv'
    <3>1. NoDelay /\ RingTimes
      BY <2>1, Zenon DEF CausalInv
    <3>2. EndBound' /\ LostTimes' /\ TailLag' /\ Remembered'
      BY <2>1, <3>1, EndStep, LostTimesStep, TailLagStep, RememberedStep, Zenon DEF LossInv
    <3>3. Predicted' /\ NotEmptied'
      BY <2>1, <3>1, PredictedStep, NotEmptiedStep, Zenon DEF LossInv
    <3>4. SeenEmptyLost'
      BY <2>1, SeenEmptyLostStep, Zenon DEF LossInv
    <3>5. Sensed' /\ LossCovered'
      BY <2>1, SensedStep, CoveredStep, Zenon
    <3> QED
      BY <3>2, <3>3, <3>4, <3>5, Zenon DEF LossInv
  <2>2. ASSUME LossInv, UNCHANGED vars PROVE LossInv'
    <3> USE DEF head
    <3>0. /\ rb' = rb /\ klost' = klost /\ clock' = clock /\ lost' = lost /\ reports' = reports
          /\ start' = start /\ end' = end /\ tail' = tail /\ maybe_lost_end' = maybe_lost_end
          /\ heap' = heap /\ pc' = pc /\ todo' = todo /\ cur' = cur /\ heap_popped_time' = heap_popped_time
          /\ overrun' = overrun /\ sbatch' = sbatch /\ slog' = slog /\ target_time' = target_time
          /\ target_map' = target_map /\ target_end' = target_end
          /\ UNCHANGED vars
      BY <2>2, Zenon DEF vars, kernelVars, ringKernelVars, streamVars, userVars, ringVars, mmapVars, heapVars, sortVars,
         callVars, targetVars, seenVars
    <3>a. EndBound'
      BY <2>2, <3>0, Zenon DEF LossInv, EndBound
    <3>b. LostTimes'
      BY <2>2, <3>0, LostTimesStutter, Zenon DEF LossInv
    <3>1. EndBound' /\ LostTimes'
      BY <3>a, <3>b, Zenon
    <3>2. TailLag' /\ Predicted' /\ NotEmptied'
      <4>1. ASSUME NEW m
            PROVE  /\ (Full(m)' <=> Full(m)) /\ Base(m)' = Base(m) /\ Processed(m)' = Processed(m)
                   /\ (Queued(m)' <=> Queued(m)) /\ Ahead(m)' = Ahead(m)
        BY <3>0, ZenonT(60) DEF Base, Full, Ahead, One, IsLost, Queued, Processed
      <4> QED
        BY <2>2, <3>0, <4>1, ZenonT(60) DEF LossInv, TailLag, Predicted, NotEmptied
    <3>c. Remembered'
      BY <2>2, <3>0, Zenon DEF LossInv, Remembered, IsLost
    <3>d. SeenEmptyLost'
      <4>1. SeenEmptyLost
        BY <2>2, Zenon DEF LossInv
      <4>2. (Running' <=> Running) /\ \A x \in Nat : Limit(x)' <=> Limit(x)
        BY <3>0, Zenon DEF Running, Limit, IsSample
      <4> QED
        BY <3>0, <4>1, <4>2, Zenon DEF SeenEmptyLost
    <3>3. Remembered' /\ SeenEmptyLost'
      BY <3>c, <3>d, Zenon
    <3>4. Sensed' /\ LossCovered'
      BY <2>2, <3>0, Zenon DEF LossInv, Sensed, LossCovered
    <3> QED
      BY <3>1, <3>2, <3>3, <3>4, Zenon DEF LossInv
  <2> QED
    BY <2>1, <2>2, Zenon
<1> QED
  BY <1>1, <1>2, Inductive, OnceInductive, CausalInductive, PTL DEF Spec

\* The prediction of perf_mmap_event_maybe_lost() is sufficient: with a watermark
\* that leaves it room, no event later than a lost one is processed before the
\* loss is reported, whatever the sizes and the rates of the ring buffers, except
\* by a call that had lost its limit.
THEOREM LossSensed ==
  ASSUME Prompt, Roomy
  PROVE  Spec => []LossSensedInTime
<1>1. TypeOK /\ Control /\ SpaceSafe /\ LossInv => LossSensedInTime
  <2> SUFFICES ASSUME TypeOK, Control, SpaceSafe, LossInv, NEW l \in Unreported
               PROVE  heap_popped_time <= Max2(l[2], overrun)
    BY Zenon DEF LossSensedInTime
  <2>1. \/ l \in lost
        \/ \E m \in Maps : l \in klost[m]
        \/ \E m \in Maps : \E i \in (start[m] + 1) .. head(m) : l \in rb[m][i].lost
    BY SMTT(60) DEF Unreported
  <2>2. overrun < heap_popped_time => heap_popped_time <= l[2]
    BY <2>1, Zenon DEF LossInv, Sensed
  <2>3. l[2] \in Nat
    <3>1. ASSUME NEW m \in Maps, NEW i \in (start[m] + 1) .. head(m), l \in rb[m][i].lost PROVE l \in Maps \X Nat
      <4>1. i \in 1 .. head(m)
        BY ProcessedBound, Beyond, Zenon
      <4>2. rb[m][i].lost \in SUBSET (Maps \X Nat)
        BY <4>1, RecordAt, Zenon
      <4> QED
        BY <3>1, <4>2, Zenon
    <3>2. l \in Maps \X Nat
      BY <2>1, <3>1, Zenon DEF TypeOK, CallTypeOK, KernelTypeOK
    <3> QED
      BY <3>2
  <2>4. heap_popped_time \in Nat /\ overrun \in Nat
    BY Zenon DEF TypeOK, SortTypeOK
  <2> QED
    BY <2>2, <2>3, <2>4, SMTT(60) DEF Max2
<1> QED
  BY <1>1, LossInductive, Inductive, PTL

\* The range that prof->lost() is given covers every event that was lost, but for
\* what a call without a limit has overrun.
THEOREM LossIsCovered ==
  ASSUME Prompt, Roomy
  PROVE  Spec => []LossCovered
<1>1. LossInv => LossCovered
  BY Zenon DEF LossInv
<1> QED
  BY <1>1, LossInductive, PTL
=============================================================================
