------------------------- MODULE SatProcessorProofs -------------------------
(***************************************************************************)
(* Proofs about SatProcessor for every processing limit and every bound on *)
(* bus failures: the type invariant, and that the published readings carry *)
(* the sequence ids 0, 1, 2, ... with no gap or repetition.                *)
(***************************************************************************)
EXTENDS SatProcessor, TLAPS

(***************************************************************************)
(* SequenceIdsGapFree alone is not inductive: it says nothing of the id    *)
(* the next publish will use.  IdsTrackCount ties it to the number of      *)
(* readings published: sequence_id is that number, until the last publish *)
(* sets operation_status and leaves the id in place; and once the status   *)
(* is set, the loop has been left.                                         *)
(***************************************************************************)
IdsTrackCount ==
  /\ Len(published) = IF status THEN seq + 1 ELSE seq
  /\ status => pc \in {"shutdown", "done"}

\* TypeOK in parts, each within one prover's reach: the string-valued
\* scalars and the numbers (SMT), the flags (Zenon), and the functions and
\* the history.
TypeStr ==
  /\ pc \in Labels
  /\ gateway \in GatewayStates
  /\ faults \subseteq {"uninit_read"}

TypeNum ==
  /\ seq \in 0 .. Limit
  /\ cur \in 1 .. 3
  /\ busFaults \in 0 .. MaxBusFaults

TypeBool ==
  /\ status \in BOOLEAN
  /\ split \in BOOLEAN
  /\ aggStale \in BOOLEAN
  /\ aggTorn \in BOOLEAN

TypeMaps ==
  /\ i2c \in [Devices -> ContextStates]
  /\ on \subseteq Sensors
  /\ ready \in [Sensors -> BOOLEAN]
  /\ avail \in [Sensors -> BOOLEAN]
  /\ published \in Seq(Records)

IInv == TypeStr /\ TypeNum /\ TypeBool /\ TypeMaps /\ SequenceIdsGapFree
          /\ IdsTrackCount

LEMMA TypeSplit == TypeOK <=> TypeStr /\ TypeNum /\ TypeBool /\ TypeMaps
BY DEF TypeOK, TypeStr, TypeNum, TypeBool, TypeMaps, ReadOrder

\* The readings that may be appended.
LEMMA RecordType ==
  ASSUME NEW n \in Nat, NEW b1 \in BOOLEAN, NEW b2 \in BOOLEAN
  PROVE  [id |-> n, stale |-> b1, torn |-> b2] \in Records
BY DEF Records

\* A flag map updated at one sensor stays a flag map.
LEMMA FlagUpdate ==
  ASSUME NEW f \in [Sensors -> BOOLEAN], NEW x \in Sensors, NEW b \in BOOLEAN
  PROVE  [f EXCEPT ![x] = b] \in [Sensors -> BOOLEAN]
BY Zenon

LEMMA InitIInv == Init => IInv
<1> SUFFICES ASSUME Init PROVE IInv
  OBVIOUS
<1>1. TypeStr
  BY DEF Init, TypeStr, Labels, GatewayStates
<1>2. TypeNum
  BY SatAssumptions DEF Init, TypeNum
<1>3. TypeBool
  BY Zenon DEF Init, TypeBool
<1>4. TypeMaps
  <2>1. ready \in [Sensors -> BOOLEAN] /\ avail \in [Sensors -> BOOLEAN]
    BY Zenon DEF Init, NoneReady
  <2> QED
    BY <2>1 DEF Init, TypeMaps, Devices, ContextStates
<1>5. SequenceIdsGapFree /\ IdsTrackCount
  BY DEF Init, SequenceIdsGapFree, IdsTrackCount
<1> QED
  BY <1>1, <1>2, <1>3, <1>4, <1>5 DEF IInv

\* The rest of a poll pass keeps every part of the invariant, for any flag
\* map a: it touches only avail, cur, pc and the aggregate's flags.
LEMMA PollStepIInv ==
  ASSUME IInv, NEW a \in [Sensors -> BOOLEAN], PollStep(a),
         UNCHANGED <<seq, status, i2c, gateway, on, ready, split, published,
                     faults>>,
         busFaults' \in 0 .. MaxBusFaults, pc = "poll"
  PROVE  IInv'
<1> USE DEF IInv
<1>1. CASE cur < Len(ReadOrder)
  <2>1. avail' = a /\ cur' = cur + 1 /\ pc' = "poll"
        /\ UNCHANGED <<aggStale, aggTorn>>
    BY <1>1 DEF PollStep
  <2>2. TypeStr' /\ TypeNum'
    BY <1>1, <2>1 DEF TypeStr, TypeNum, Labels, ReadOrder
  <2>3. TypeBool' /\ TypeMaps'
    BY <2>1, Zenon DEF TypeBool, TypeMaps
  <2> QED
    BY <2>1, <2>2, <2>3 DEF SequenceIdsGapFree, IdsTrackCount
<1>2. CASE ~(cur < Len(ReadOrder)) /\ \E s \in Sensors : a[s]
  <2>1. avail' = NoneReady /\ cur' = 1 /\ pc' = "readLow"
        /\ aggStale' = FALSE /\ aggTorn' = FALSE
    BY <1>2 DEF PollStep
  <2>2. TypeStr' /\ TypeNum'
    BY <2>1 DEF TypeStr, TypeNum, Labels
  <2>3. TypeBool' /\ TypeMaps'
    BY <2>1, Zenon DEF TypeBool, TypeMaps, NoneReady
  <2> QED
    BY <2>1, <2>2, <2>3 DEF SequenceIdsGapFree, IdsTrackCount
<1>3. CASE ~(cur < Len(ReadOrder)) /\ ~\E s \in Sensors : a[s]
  <2>1. avail' = a /\ cur' = 1 /\ pc' = "poll" /\ UNCHANGED <<aggStale, aggTorn>>
    BY <1>3 DEF PollStep
  <2>2. TypeStr' /\ TypeNum'
    BY <2>1 DEF TypeStr, TypeNum, Labels
  <2>3. TypeBool' /\ TypeMaps'
    BY <2>1, Zenon DEF TypeBool, TypeMaps
  <2> QED
    BY <2>1, <2>2, <2>3 DEF SequenceIdsGapFree, IdsTrackCount
<1> QED
  BY <1>1, <1>2, <1>3

LEMMA PollIInv == IInv /\ Poll => IInv'
<1> SUFFICES ASSUME IInv, Poll PROVE IInv'
  OBVIOUS
<1> DEFINE s == ReadOrder[cur]
<1>1. s \in Sensors
  BY DEF IInv, TypeNum, ReadOrder, Sensors
<1>2. CASE /\ PollStep([avail EXCEPT ![s] = ready[s]])
           /\ UNCHANGED busFaults
  <2>1. [avail EXCEPT ![s] = ready[s]] \in [Sensors -> BOOLEAN]
    BY <1>1, FlagUpdate DEF IInv, TypeMaps
  <2>2. busFaults' \in 0 .. MaxBusFaults
    BY <1>2 DEF IInv, TypeNum
  <2> QED
    BY <1>2, <2>1, <2>2, PollStepIInv DEF Poll, sensor, IInv, TypeMaps
<1>3. CASE /\ busFaults < MaxBusFaults
           /\ busFaults' = busFaults + 1
           /\ PollStep(avail)
  <2>1. busFaults' \in 0 .. MaxBusFaults
    BY <1>3, SatAssumptions DEF IInv, TypeNum
  <2> QED
    BY <1>3, <2>1, PollStepIInv DEF Poll, sensor, IInv, TypeMaps
<1> QED
  BY <1>2, <1>3 DEF Poll

LEMMA ReadLowIInv == IInv /\ ReadLow => IInv'
<1> SUFFICES ASSUME IInv, ReadLow PROVE IInv'
  OBVIOUS
<1> USE DEF IInv
<1>1. ReadOrder[cur] \in Sensors
  BY DEF TypeNum, ReadOrder, Sensors
<1>2. ready[ReadOrder[cur]] \in BOOLEAN
  BY <1>1 DEF TypeMaps
<1>3. TypeStr' /\ TypeNum'
  BY DEF ReadLow, TypeStr, TypeNum, Labels
<1>4. TypeBool'
  BY <1>2, Zenon DEF ReadLow, TypeBool
<1>5. TypeMaps' /\ SequenceIdsGapFree' /\ IdsTrackCount'
  BY DEF ReadLow, TypeMaps, SequenceIdsGapFree, IdsTrackCount
<1> QED
  BY <1>3, <1>4, <1>5

LEMMA ReadHighIInv == IInv /\ ReadHigh => IInv'
<1> SUFFICES ASSUME IInv, ReadHigh PROVE IInv'
  OBVIOUS
<1> USE DEF IInv
<1>1. ReadOrder[cur] \in Sensors /\ cur \in 1 .. 3
  BY DEF TypeNum, ReadOrder, Sensors
<1>2. split' = FALSE /\ UNCHANGED <<seq, status, i2c, gateway, on, avail,
                                    aggStale, published, faults>>
  BY DEF ReadHigh
<1>3. CASE /\ ready' = [ready EXCEPT ![ReadOrder[cur]] = FALSE]
           /\ aggTorn' = (aggTorn \/ split)
           /\ IF cur < Len(ReadOrder)
                THEN cur' = cur + 1 /\ pc' = "readLow"
                ELSE cur' = 1 /\ pc' = "publish"
           /\ UNCHANGED busFaults
  <2>1. TypeStr' /\ TypeNum'
    BY <1>1, <1>2, <1>3 DEF TypeStr, TypeNum, Labels, ReadOrder
  <2>2. TypeBool'
    BY <1>2, <1>3, Zenon DEF TypeBool
  <2>3. TypeMaps'
    BY <1>1, <1>2, <1>3, FlagUpdate DEF TypeMaps
  <2> QED
    BY <1>2, <2>1, <2>2, <2>3 DEF ReadHigh, SequenceIdsGapFree, IdsTrackCount
<1>4. CASE /\ busFaults < MaxBusFaults
           /\ busFaults' = busFaults + 1
           /\ cur' = 1 /\ pc' = "poll"
           /\ UNCHANGED <<ready, aggTorn>>
  <2>1. TypeStr' /\ TypeNum'
    BY <1>2, <1>4, SatAssumptions DEF TypeStr, TypeNum, Labels
  <2>2. TypeBool' /\ TypeMaps'
    BY <1>2, <1>4, Zenon DEF TypeBool, TypeMaps
  <2> QED
    BY <1>2, <2>1, <2>2 DEF ReadHigh, SequenceIdsGapFree, IdsTrackCount
<1> QED
  BY <1>3, <1>4 DEF ReadHigh

(***************************************************************************)
(* The publish step: the new reading is tagged with sequence_id, which is  *)
(* the number of readings before it, so it lands at position seq + 1 with *)
(* id seq; then either the status is set or the id advances.               *)
(***************************************************************************)
LEMMA PublishIInv == IInv /\ Publish => IInv'
<1> SUFFICES ASSUME IInv, Publish PROVE IInv'
  OBVIOUS
<1> USE DEF IInv
<1>1. ~status /\ Len(published) = seq
  BY DEF Publish, IdsTrackCount, TypeStr, Labels
<1>0. UNCHANGED <<i2c, gateway, on, ready, split, avail, cur, aggStale,
                  aggTorn, busFaults, faults>>
  BY DEF Publish, sensor
<1> DEFINE r == [id |-> seq, stale |-> aggStale, torn |-> aggTorn]
<1>2. r \in Records
  BY RecordType DEF TypeNum, TypeBool
<1>3. published' = Append(published, r)
  BY DEF Publish, PublishTelemetry, TelemetryReading
<1>4. published' \in Seq(Records) /\ Len(published') = seq + 1
  BY <1>1, <1>2, <1>3 DEF TypeMaps
<1>5. SequenceIdsGapFree'
  <2> SUFFICES ASSUME NEW i \in 1 .. Len(published') PROVE published'[i].id = i - 1
    BY DEF SequenceIdsGapFree
  <2>1. CASE i <= Len(published)
    BY <2>1, <1>3 DEF SequenceIdsGapFree, TypeMaps
  <2>2. CASE i = Len(published) + 1
    BY <2>2, <1>1, <1>3 DEF TypeMaps
  <2> QED
    BY <2>1, <2>2, <1>4, <1>1
<1>6. CASE seq = Limit
  <2>1. status' = TRUE /\ pc' = "shutdown" /\ seq' = seq
    BY <1>6 DEF Publish
  <2>2. TypeStr' /\ TypeNum'
    BY <1>0, <2>1 DEF TypeStr, TypeNum, Labels
  <2>3. TypeBool'
    BY <1>0, <2>1, Zenon DEF TypeBool
  <2>4. TypeMaps' /\ IdsTrackCount'
    BY <1>0, <1>4, <2>1 DEF TypeMaps, IdsTrackCount
  <2> QED
    BY <1>5, <2>2, <2>3, <2>4
<1>7. CASE seq # Limit
  <2>1. seq' = seq + 1 /\ pc' = "poll" /\ status' = status
    BY <1>7 DEF Publish
  <2>2. TypeStr' /\ TypeNum'
    BY <1>0, <1>7, <2>1, SatAssumptions DEF TypeStr, TypeNum, Labels
  <2>3. TypeBool'
    BY <1>0, <2>1, Zenon DEF TypeBool
  <2>4. TypeMaps' /\ IdsTrackCount'
    BY <1>0, <1>1, <1>4, <2>1 DEF TypeMaps, IdsTrackCount
  <2> QED
    BY <1>5, <2>2, <2>3, <2>4
<1> QED
  BY <1>6, <1>7

\* The initialisation steps leave seq, status, published and the flags
\* alone, and send pc to the next init step, to poll or to shutdown.
LEMMA InitStepsIInv ==
  IInv /\ (InitAccelMagnetoDevice \/ InitGyroDevice \/ InitSensors \/ InitGateway)
    => IInv'
<1> SUFFICES ASSUME IInv,
                    InitAccelMagnetoDevice \/ InitGyroDevice \/ InitSensors
                      \/ InitGateway
             PROVE IInv'
  OBVIOUS
<1> USE DEF IInv
<1>1. ASSUME NEW d \in Devices, NEW nx \in Labels \ {"shutdown", "done"},
             pc \notin {"shutdown", "done"}, InitI2cDevice(d, nx)
      PROVE  IInv'
  <2>1. TypeStr' /\ TypeNum'
    BY <1>1 DEF InitI2cDevice, sensor, TypeStr, TypeNum, Labels
  <2>2. TypeBool'
    BY <1>1, Zenon DEF InitI2cDevice, sensor, TypeBool
  <2>3. TypeMaps'
    BY <1>1, Zenon DEF InitI2cDevice, sensor, TypeMaps, ContextStates
  <2>4. SequenceIdsGapFree' /\ IdsTrackCount'
    BY <1>1 DEF InitI2cDevice, sensor, SequenceIdsGapFree, IdsTrackCount
  <2> QED
    BY <2>1, <2>2, <2>3, <2>4
<1>2. CASE InitAccelMagnetoDevice
  BY <1>1, <1>2 DEF InitAccelMagnetoDevice, Devices, Labels
<1>3. CASE InitGyroDevice
  BY <1>1, <1>3 DEF InitGyroDevice, Devices, Labels
<1>4. CASE InitSensors
  <2>1. PICK k \in 0 .. 3 : /\ on' = {InitOrder[i] : i \in 1 .. k}
                            /\ pc' = IF k = 3 THEN "initGateway" ELSE "shutdown"
    BY <1>4 DEF InitSensors
  <2>2. on' \subseteq Sensors
    BY <2>1 DEF InitOrder, Sensors
  <2>3. TypeStr' /\ TypeNum'
    BY <1>4, <2>1 DEF InitSensors, TypeStr, TypeNum, Labels
  <2>4. TypeBool' /\ TypeMaps'
    BY <1>4, <2>2, Zenon DEF InitSensors, TypeBool, TypeMaps
  <2>5. SequenceIdsGapFree' /\ IdsTrackCount'
    BY <1>4, <2>1 DEF InitSensors, SequenceIdsGapFree, IdsTrackCount
  <2> QED
    BY <2>3, <2>4, <2>5
<1>5. CASE InitGateway
  <2>1. TypeStr' /\ TypeNum'
    BY <1>5 DEF InitGateway, sensor, TypeStr, TypeNum, Labels, GatewayStates
  <2>2. TypeBool' /\ TypeMaps'
    BY <1>5, Zenon DEF InitGateway, sensor, TypeBool, TypeMaps
  <2>3. SequenceIdsGapFree' /\ IdsTrackCount'
    BY <1>5 DEF InitGateway, sensor, SequenceIdsGapFree, IdsTrackCount
  <2> QED
    BY <2>1, <2>2, <2>3
<1> QED
  BY <1>2, <1>3, <1>4, <1>5

LEMMA ShutdownIInv == IInv /\ Shutdown => IInv'
<1> SUFFICES ASSUME IInv, Shutdown PROVE IInv'
  OBVIOUS
<1> USE DEF IInv
<1>1. TypeStr' /\ TypeNum'
  BY DEF Shutdown, sensor, GatewayDisconnect, TypeStr, TypeNum, Labels,
     GatewayStates
<1>2. TypeBool' /\ TypeMaps'
  BY Zenon DEF Shutdown, sensor, TypeBool, TypeMaps
<1>3. SequenceIdsGapFree' /\ IdsTrackCount'
  BY DEF Shutdown, sensor, SequenceIdsGapFree, IdsTrackCount, TypeStr
<1> QED
  BY <1>1, <1>2, <1>3

LEMMA SampleIInv == ASSUME NEW s \in Sensors PROVE IInv /\ Sample(s) => IInv'
<1> SUFFICES ASSUME IInv, Sample(s) PROVE IInv'
  OBVIOUS
<1> USE DEF IInv
<1>1. TypeStr' /\ TypeNum'
  BY DEF Sample, TypeStr, TypeNum
<1>2. TypeBool'
  BY Zenon DEF Sample, TypeBool
<1>3. TypeMaps'
  BY FlagUpdate DEF Sample, TypeMaps
<1>4. SequenceIdsGapFree' /\ IdsTrackCount'
  BY DEF Sample, SequenceIdsGapFree, IdsTrackCount
<1> QED
  BY <1>1, <1>2, <1>3, <1>4

LEMMA StutterIInv == IInv /\ UNCHANGED vars => IInv'
BY DEF IInv, TypeStr, TypeNum, TypeBool, TypeMaps, SequenceIdsGapFree,
   IdsTrackCount, vars

LEMMA NextIInv == IInv /\ [Next]_vars => IInv'
BY InitStepsIInv, PollIInv, ReadLowIInv, ReadHighIInv, PublishIInv,
   ShutdownIInv, SampleIInv, StutterIInv DEF Next, Program

\* perform_lsm9ds0_sat keeps every variable within its type.
THEOREM SatTypeCorrect == Spec => []TypeOK
<1>1. IInv => TypeOK
  BY TypeSplit DEF IInv
<1> QED
  BY InitIInv, NextIInv, <1>1, PTL DEF Spec

\* The readings perform_lsm9ds0_sat hands to the gateway carry the
\* sequence ids 0, 1, 2, ... in order, whatever reads fail in between.
THEOREM IdsGapFree == Spec => []SequenceIdsGapFree
<1>1. IInv => SequenceIdsGapFree
  BY DEF IInv
<1> QED
  BY InitIInv, NextIInv, <1>1, PTL DEF Spec


=============================================================================
