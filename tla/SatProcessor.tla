---------------------------- MODULE SatProcessor ----------------------------
(***************************************************************************)
(* perform_lsm9ds0_sat (processor/lsm9ds0processor.c): initialise the      *)
(* LSM9DS0 board over I2C and the AWS IoT device gateway, then loop: poll  *)
(* the three sensors' status registers, read the three x/y/z samples,      *)
(* convert and publish them with a sequence id, and stop once the id       *)
(* reaches the processing limit.                                           *)
(*                                                                         *)
(* The sensor is a second process: at its output data rate each configured *)
(* sensor overwrites its output registers and sets its data-ready bit.     *)
(* CTRL_REG1_XM is written 0x67 (lsm9ds0.c:90) and CTRL_REG4_G 0x00, so    *)
(* block data update is off: a sample may land between the bytes of a     *)
(* multi-byte read.  Reading the output registers clears data-ready.       *)
(*                                                                         *)
(* The file passes the LSM9DS0 and IOT_DEVICE_GATEWAY structs by value     *)
(* where pointers are expected (lines 34, 40, 44-46, 85); the model        *)
(* follows the evident intent, a pointer to the local struct.              *)
(***************************************************************************)
EXTENDS Naturals, Sequences

CONSTANTS
  Limit,          \* desired_processing_limit (main.c: 3000)
  MaxBusFaults,   \* bound on the I2C transfers that fail while running
  IoMayFail       \* whether mraa and AWS initialisation calls may fail

ASSUME SatAssumptions ==
  /\ Limit \in Nat
  /\ MaxBusFaults \in Nat
  /\ IoMayFail \in BOOLEAN

\* The LSM9DS0_SENSOR values, in the order the loop polls and reads them
\* (lines 44-46 and 126-140).
ReadOrder == <<"ACCEL", "MAGNETO", "GYRO">>
Sensors == {"ACCEL", "MAGNETO", "GYRO"}

\* init_lsm9ds0 configures the gyro, then the accelerometer, then the
\* magnetometer (lsm9ds0.c:20).
InitOrder == <<"GYRO", "ACCEL", "MAGNETO">>

\* The two I2C_DEVICE handles of the LSM9DS0 struct.
Devices == {"accel_magneto", "gyro"}

\* State of an mraa i2c context: never created, open, or stopped.
ContextStates == {"none", "open", "stopped"}

\* State of the IOT_DEVICE_GATEWAY local: uninitialised memory, client
\* initialised but not connected, connected, disconnected.
GatewayStates == {"undef", "initialised", "connected", "disconnected"}

Labels == {"initAM", "initG", "initSensors", "initGateway", "poll",
           "readLow", "readHigh", "publish", "shutdown", "done"}

\* One call of publish_telemetry_to_device_gateway: the reading's sequence
\* id, and whether one of its three samples was not new (data-ready clear
\* when read) or torn (a sample landed during the read).
Records == [id : Nat, stale : BOOLEAN, torn : BOOLEAN]

NoneReady == [s \in Sensors |-> FALSE]

VARIABLES
  pc,         \* where perform_lsm9ds0_sat is
  seq,        \* sequence_id
  status,     \* operation_status
  i2c,        \* the mraa context of each I2C device
  gateway,    \* the device gateway's client state
  on,         \* sensors whose control registers have been written
  ready,      \* each sensor's data-ready (ZYXDA) status bit
  avail,      \* poll_for_signal_readings' three availability flags
  cur,        \* index in ReadOrder of the sensor being polled or read
  split,      \* a sample landed during the current read_bytes transfer
  aggStale,   \* signal_reading_aggregate holds a sample that was not new
  aggTorn,    \* signal_reading_aggregate holds a torn sample
  published,  \* the telemetry readings handed to the gateway, in order
  busFaults,  \* I2C transfers that have failed so far
  faults      \* undefined behaviours performed

sensor == <<on, ready, split>>
vars == <<pc, seq, status, i2c, gateway, on, ready, avail, cur, split,
          aggStale, aggTorn, published, busFaults, faults>>

\* Outcomes of a library call that may fail.
IoOutcomes == IF IoMayFail THEN BOOLEAN ELSE {TRUE}

(***************************************************************************)
(* init_i2c_device (i2cdevice.c:23-48): mraa_i2c_init may return NULL; a   *)
(* failed mraa_i2c_address stops the context again.  init_lsm9ds0 chains   *)
(* the two devices with &&, so a failure of the second leaves the first    *)
(* open; a failure of either skips init_iot_device_gateway.                *)
(***************************************************************************)
InitI2cDevice(d, next) ==
  /\ \E outcome \in IF IoMayFail THEN ContextStates ELSE {"open"} :
       /\ i2c' = [i2c EXCEPT ![d] = outcome]
       /\ pc' = IF outcome = "open" THEN next ELSE "shutdown"
  /\ UNCHANGED <<seq, status, gateway, sensor, avail, cur, aggStale, aggTorn,
                 published, busFaults, faults>>

InitAccelMagnetoDevice == pc = "initAM" /\ InitI2cDevice("accel_magneto", "initG")

InitGyroDevice == pc = "initG" /\ InitI2cDevice("gyro", "initSensors")

(***************************************************************************)
(* init_gyro, init_accel, init_magneto (lsm9ds0.c:51-127): each is a chain *)
(* of write_byte calls; the first k sensors of InitOrder get configured,   *)
(* and they start sampling whether or not the rest succeed.  The scale     *)
(* factors set on success carry no state the properties distinguish.      *)
(***************************************************************************)
InitSensors ==
  /\ pc = "initSensors"
  /\ \E k \in IF IoMayFail THEN 0 .. 3 ELSE {3} :
       /\ on' = {InitOrder[i] : i \in 1 .. k}
       /\ pc' = IF k = 3 THEN "initGateway" ELSE "shutdown"
  /\ UNCHANGED <<seq, status, i2c, gateway, ready, avail, cur, split,
                 aggStale, aggTorn, published, busFaults, faults>>

(***************************************************************************)
(* init_iot_device_gateway (iotdevicegateway.c:19-78): aws_iot_mqtt_init,  *)
(* then aws_iot_mqtt_connect.  On success the loop starts with            *)
(* display_sensor_info, whose WHO_AM_I reads only print.                   *)
(***************************************************************************)
InitGateway ==
  /\ pc = "initGateway"
  /\ \E ok \in IoOutcomes :
       /\ gateway' = IF ok THEN "connected" ELSE "initialised"
       /\ pc' = IF ok THEN "poll" ELSE "shutdown"
  /\ UNCHANGED <<seq, status, i2c, sensor, avail, cur, aggStale, aggTorn,
                 published, busFaults, faults>>

\* The rest of one pass of the polling loop once the flags are a: the next
\* sensor, or, after the gyro, the loop test of line 124, which exits as
\* soon as ANY flag is set.
PollStep(a) ==
  IF cur < Len(ReadOrder)
    THEN /\ avail' = a /\ cur' = cur + 1 /\ pc' = "poll"
         /\ UNCHANGED <<aggStale, aggTorn>>
    ELSE IF \E s \in Sensors : a[s]
      THEN /\ avail' = NoneReady /\ cur' = 1 /\ pc' = "readLow"
           /\ aggStale' = FALSE /\ aggTorn' = FALSE
      ELSE /\ avail' = a /\ cur' = 1 /\ pc' = "poll"
           /\ UNCHANGED <<aggStale, aggTorn>>

\* Fault-injected variant of Poll: the data-ready mask selects a bit the
\* status register never sets, so no flag is ever raised.
PollWrongMask ==
  /\ pc = "poll"
  /\ LET s == ReadOrder[cur] IN
       \/ /\ PollStep([avail EXCEPT ![s] = FALSE])
          /\ UNCHANGED busFaults
       \/ /\ busFaults < MaxBusFaults
          /\ busFaults' = busFaults + 1
          /\ PollStep(avail)
  /\ UNCHANGED <<seq, status, i2c, gateway, sensor, published, faults>>

(***************************************************************************)
(* check_signal_reading_availability (lsm9ds0.c:307-354) inside the loop   *)
(* of poll_for_signal_readings (lsm9ds0processor.c:113-143): read_byte of  *)
(* the status register sets the flag to ZYXDA; when it fails the error is  *)
(* printed and the flag keeps its value.                                   *)
(***************************************************************************)
Poll ==
  /\ pc = "poll"
  /\ LET s == ReadOrder[cur] IN
       \/ /\ PollStep([avail EXCEPT ![s] = ready[s]])
          /\ UNCHANGED busFaults
       \/ /\ busFaults < MaxBusFaults
          /\ busFaults' = busFaults + 1
          /\ PollStep(avail)
  /\ UNCHANGED <<seq, status, i2c, gateway, sensor, published, faults>>

(***************************************************************************)
(* get_latest_signal_reading (lsm9ds0.c:171-254), first half: the overrun  *)
(* check only prints; read_bytes starts its auto-increment transfer of the *)
(* six output bytes.  Whether the sample is new is decided here.           *)
(***************************************************************************)
ReadLow ==
  /\ pc = "readLow"
  /\ aggStale' = (aggStale \/ ~ready[ReadOrder[cur]])
  /\ split' = FALSE
  /\ pc' = "readHigh"
  /\ UNCHANGED <<seq, status, i2c, gateway, on, ready, avail, cur, aggTorn,
                 published, busFaults, faults>>

(***************************************************************************)
(* Second half: read_bytes (i2cdevice.c:96-111) completes, which clears    *)
(* data-ready, and the three words are assembled.  If it fails, the &&     *)
(* chain of lines 44-46 fails: the error is printed and the loop polls     *)
(* again without publishing or advancing the sequence id.                  *)
(***************************************************************************)
ReadHigh ==
  /\ pc = "readHigh"
  /\ split' = FALSE
  /\ \/ /\ ready' = [ready EXCEPT ![ReadOrder[cur]] = FALSE]
        /\ aggTorn' = (aggTorn \/ split)
        /\ IF cur < Len(ReadOrder)
             THEN cur' = cur + 1 /\ pc' = "readLow"
             ELSE cur' = 1 /\ pc' = "publish"
        /\ UNCHANGED busFaults
     \/ /\ busFaults < MaxBusFaults
        /\ busFaults' = busFaults + 1
        /\ cur' = 1 /\ pc' = "poll"
        /\ UNCHANGED <<ready, aggTorn>>
  /\ UNCHANGED <<seq, status, i2c, gateway, on, avail, aggStale, published,
                 faults>>

(***************************************************************************)
(* convert_lsm9ds0_signal_reading_aggregate_to_telemetry_reading           *)
(* (lines 147-206): the JSON payload, abstracted to the sequence id it is  *)
(* tagged with and whether its samples were new and whole.  Its inputs are *)
(* never NULL, so it always succeeds.                                       *)
(***************************************************************************)
TelemetryReading(id) == [id |-> id, stale |-> aggStale, torn |-> aggTorn]

(***************************************************************************)
(* publish_telemetry_to_device_gateway (iotdevicegateway.c:103-135): one   *)
(* aws_iot_mqtt_publish at QoS0; the reading is handed to the client and   *)
(* the caller ignores the result.                                          *)
(***************************************************************************)
PublishTelemetry(r) == published' = Append(published, r)

(***************************************************************************)
(* shutdown_iot_device_gateway (iotdevicegateway.c:82-99): one             *)
(* aws_iot_mqtt_disconnect; a client that was not connected reports an     *)
(* error, which is printed.                                                *)
(***************************************************************************)
GatewayDisconnect(g) == IF g = "connected" THEN "disconnected" ELSE g

\* Fault-injected variant of Publish: the sequence id is advanced before
\* the reading is tagged with it.
PublishAdvanceFirst ==
  /\ pc = "publish"
  /\ PublishTelemetry(TelemetryReading(seq + 1))
  /\ IF seq = Limit
       THEN status' = TRUE /\ pc' = "shutdown" /\ UNCHANGED seq
       ELSE seq' = seq + 1 /\ pc' = "poll" /\ UNCHANGED status
  /\ UNCHANGED <<i2c, gateway, sensor, avail, cur, aggStale, aggTorn,
                 busFaults, faults>>

\* Fault-injected variant of Publish: the limit is never tested.
PublishNoLimitCheck ==
  /\ pc = "publish"
  /\ PublishTelemetry(TelemetryReading(seq))
  /\ seq' = seq + 1 /\ pc' = "poll"
  /\ UNCHANGED <<status, i2c, gateway, sensor, avail, cur, aggStale, aggTorn,
                 busFaults, faults>>

(***************************************************************************)
(* Lines 51-66: the conversion cannot fail (its arguments are never NULL); *)
(* the reading is published with QoS0 and the result is ignored; the loop  *)
(* breaks with success when the id equals the limit, else the id advances. *)
(***************************************************************************)
Publish ==
  /\ pc = "publish"
  /\ PublishTelemetry(TelemetryReading(seq))
  /\ IF seq = Limit
       THEN status' = TRUE /\ pc' = "shutdown" /\ UNCHANGED seq
       ELSE seq' = seq + 1 /\ pc' = "poll" /\ UNCHANGED status
  /\ UNCHANGED <<i2c, gateway, sensor, avail, cur, aggStale, aggTorn,
                 busFaults, faults>>

(***************************************************************************)
(* Line 85: shutdown_iot_device_gateway on every path, also when the       *)
(* gateway was never initialised, so aws_iot_mqtt_disconnect reads an      *)
(* uninitialised client context.  shutdown_lsm9ds0 is never called.        *)
(***************************************************************************)
Shutdown ==
  /\ pc = "shutdown"
  /\ faults' = IF gateway = "undef" THEN faults \cup {"uninit_read"}
                                    ELSE faults
  /\ gateway' = GatewayDisconnect(gateway)
  /\ pc' = "done"
  /\ UNCHANGED <<seq, status, i2c, sensor, avail, cur, aggStale, aggTorn,
                 published, busFaults>>

(***************************************************************************)
(* The sensor, at its output data rate: a configured sensor overwrites its *)
(* output registers and sets data-ready.  With block data update off the   *)
(* write also lands in the middle of a transfer that is reading it.  The   *)
(* samples stop mattering once the program has returned.                   *)
(***************************************************************************)
Sample(s) ==
  /\ pc # "done"
  /\ s \in on
  /\ ready' = [ready EXCEPT ![s] = TRUE]
  /\ split' = (split \/ (pc = "readHigh" /\ ReadOrder[cur] = s))
  /\ UNCHANGED <<pc, seq, status, i2c, gateway, on, avail, cur, aggStale,
                 aggTorn, published, busFaults, faults>>

Init ==
  /\ pc = "initAM"
  /\ seq = 0
  /\ status = FALSE
  /\ i2c = [d \in Devices |-> "none"]
  /\ gateway = "undef"
  /\ on = {}
  /\ ready = NoneReady
  /\ avail = NoneReady
  /\ cur = 1
  /\ split = FALSE
  /\ aggStale = FALSE
  /\ aggTorn = FALSE
  /\ published = <<>>
  /\ busFaults = 0
  /\ faults = {}

\* The steps of the program's single thread.
Program ==
  \/ InitAccelMagnetoDevice
  \/ InitGyroDevice
  \/ InitSensors
  \/ InitGateway
  \/ Poll
  \/ ReadLow
  \/ ReadHigh
  \/ Publish
  \/ Shutdown

Next == Program \/ \E s \in Sensors : Sample(s)

(***************************************************************************)
(* The program thread is never descheduled for ever, and every configured  *)
(* sensor keeps sampling at its data rate: weak fairness for both.  Bus    *)
(* failures are bounded by MaxBusFaults, not by fairness.                  *)
(***************************************************************************)
Spec == Init /\ [][Next]_vars /\ WF_vars(Program)
                              /\ \A s \in Sensors : WF_vars(Sample(s))

-----------------------------------------------------------------------------
(* Properties *)

\* Type invariant.
TypeOK ==
  /\ pc \in Labels
  /\ seq \in 0 .. Limit
  /\ status \in BOOLEAN
  /\ i2c \in [Devices -> ContextStates]
  /\ gateway \in GatewayStates
  /\ on \subseteq Sensors
  /\ ready \in [Sensors -> BOOLEAN]
  /\ avail \in [Sensors -> BOOLEAN]
  /\ cur \in 1 .. Len(ReadOrder)
  /\ split \in BOOLEAN
  /\ aggStale \in BOOLEAN
  /\ aggTorn \in BOOLEAN
  /\ published \in Seq(Records)
  /\ busFaults \in 0 .. MaxBusFaults
  /\ faults \subseteq {"uninit_read"}

\* The readings handed to the gateway carry the sequence ids 0, 1, 2, ...
\* in order, with no id skipped or repeated, whatever reads failed in
\* between (lines 51-66: the id advances only after a publish).
SequenceIdsGapFree ==
  \A i \in 1 .. Len(published) : published[i].id = i - 1

\* perform_lsm9ds0_sat returns: the loop reaches its limit and every
\* failure path reaches the shutdown, given fair scheduling, a sensor that
\* keeps sampling, and I2C failures that do not persist.
Termination == <>(pc = "done")


\* main.c:10 and the comment at line 57: the process stops after it has
\* sent the desired number of messages.
PublishCountWithinLimit == Len(published) <= Limit

UntornReadingsPublished == \A i \in 1 .. Len(published) : ~published[i].torn

=============================================================================
