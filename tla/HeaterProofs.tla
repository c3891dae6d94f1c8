---------------------------- MODULE HeaterProofs ----------------------------
(* For every lease: heat is taken away in time, has an owner, and stays away *)
(* from those who need the sensors cold.                                     *)
EXTENDS Heater, TLAPS

(* The part of the type invariant the arguments need. *)
Typed ==
    /\ hw \in Leases /\ pwm \in BOOLEAN /\ alone \in Nat
    /\ obs \in Readings /\ sensor \in Sensors

\* A write in progress is under an armed lease, and the timer of an armed
\* lease runs.
Guarded ==
    /\ Writing => hw.armed
    /\ hw.armed => hw.on

\* The counter knows how long the CPU has been gone.
Counts == pwm => hw.on /\ alone <= hw.count

\* Outside a write CC0 is the deadline of the sample.
Timed ==
    ~Writing /\ hw.armed /\ ~hw.ev =>
        /\ hw.proof + hw.cc0 = Lease + hw.count
        /\ hw.count < hw.cc0

\* In a write the lease wanted is the deadline, unless it has passed.
Wanted ==
    /\ Writing => sensor.want > 0
    /\ Writing /\ ~hw.ev =>
        /\ hw.proof <= Lease => hw.proof + sensor.want = Lease + hw.count
        /\ hw.proof > Lease => sensor.want <= hw.count
        /\ sensor.at # "set" => hw.cc0 = sensor.want

\* Outside a write the output is driven only under a lease not yet over.
Live == ~Writing /\ pwm => hw.armed /\ ~hw.ev

LeaseInv == Typed /\ Guarded /\ Counts /\ Timed /\ Wanted /\ Live

\* After an off nothing is armed and nothing is driven.
LEMMA OffKeeps ==
    ASSUME LeaseInv, NEW ok \in BOOLEAN, hw' = OffHw(ok), Cold,
           sensor' \in Sensors, ~Writing', obs' \in Readings
    PROVE  LeaseInv'
<1>1. Expired \in BOOLEAN /\ (~ok) \in BOOLEAN
  BY Zenon DEF LeaseInv, Typed, Leases, Expired
<1>2. hw \in Leases /\ 0 \in Ages /\ Lease \in 1..Lease /\ 0 \in 0..(Lease - 1)
  BY LeaseAssumption DEF LeaseInv, Typed, Ages
<1>3. /\ (hw.on /\ ~ok) \in BOOLEAN /\ (hw.ev /\ ~ok) \in BOOLEAN
      /\ (IF ok THEN 0 ELSE hw.count) \in 0..(Lease - 1)
      /\ (IF ok THEN Lease ELSE hw.cc0) \in 1..Lease
  BY <1>2 DEF Leases
<1>4. hw' \in Leases /\ hw'.armed = FALSE
  BY <1>1, <1>2, <1>3 DEF OffHw, Leases
<1>5. pwm' = FALSE /\ alone' = 0
  BY DEF Cold
<1> QED
  BY <1>4, <1>5 DEF LeaseInv, Typed, Guarded, Counts, Timed, Wanted, Live, Writing

\* A step that leaves the lease alone and neither starts nor moves a write.
LEMMA LeaseKept ==
    ASSUME LeaseInv, UNCHANGED <<hw, pwm, alone>>,
           sensor' \in Sensors, obs' \in Readings,
           \/ ~Writing /\ ~Writing'
           \/ sensor'.at = sensor.at /\ sensor'.want = sensor.want
    PROVE  LeaseInv'
<1> QED
  BY DEF LeaseInv, Typed, Guarded, Counts, Timed, Wanted, Live, Writing

\* The timer: nothing fires unnoticed, and what fires takes the heat away.
LEMMA TickKeeps ==
    ASSUME LeaseInv, Tick
    PROVE  LeaseInv'
<1> DEFINE age == IF hw.armed THEN Older(hw.proof) ELSE 0
<1>1. /\ Lease \in Nat /\ Lease > 0
      /\ hw.proof \in 0..(Lease + 1) /\ hw.count \in 0..(Lease - 1) /\ hw.cc0 \in 1..Lease
      /\ alone \in Nat /\ sensor.want \in 0..Lease
  BY LeaseAssumption DEF LeaseInv, Typed, Leases, Sensors, Ages
<1>2. Counted \in 0..(Lease - 1) /\ (~Fires /\ hw.on => Counted = hw.count + 1)
  BY <1>1 DEF Counted, Fires, Compares
<1>3. ~Fires /\ hw.on => hw.count + 1 # hw.cc0 /\ hw.count + 1 # Lease
  BY DEF Fires, Compares
<1>4. \A n \in 0..(Lease + 1) : Older(n) \in 0..(Lease + 1) /\ (n <= Lease => Older(n) = n + 1)
                                /\ (n > Lease => Older(n) = n)
  BY <1>1 DEF Older
<1>5. hw.ev \in BOOLEAN /\ (hw.ev \/ Fires) \in BOOLEAN /\ age \in Ages
  BY <1>1, <1>4 DEF LeaseInv, Typed, Leases, Ages
<1>6. hw' = [hw EXCEPT !.count = Counted, !.ev = hw.ev \/ Fires, !.proof = age]
  BY Zenon DEF Tick
<1>7. hw' \in Leases
  <2> HIDE DEF age
  <2> QED
    BY <1>2, <1>5, <1>6 DEF LeaseInv, Typed, Leases
<1>8. /\ hw'.armed = hw.armed /\ hw'.on = hw.on /\ hw'.cc0 = hw.cc0
      /\ hw'.count = Counted /\ hw'.ev = (hw.ev \/ Fires) /\ hw'.proof = age
  <2> HIDE DEF age
  <2> QED
    BY <1>6 DEF LeaseInv, Typed, Leases
<1>9. /\ sensor' \in Sensors /\ sensor'.at = sensor.at /\ sensor'.want = sensor.want
      /\ obs' \in Readings
  <2>1. sensor.age \in 0..(Lease + 1) /\ obs.age \in 0..(Lease + 1)
    BY DEF LeaseInv, Typed, Sensors, Readings, Ages
  <2>2. Older(sensor.age) \in Ages /\ Older(obs.age) \in Ages
    BY <1>4, <2>1 DEF Ages
  <2>3. sensor' \in Sensors /\ sensor'.at = sensor.at /\ sensor'.want = sensor.want
    BY <2>2 DEF Tick, LeaseInv, Typed, Sensors
  <2> QED
    BY <2>2, <2>3 DEF Tick, LeaseInv, Typed, Readings
<1>10. /\ pwm' = (pwm /\ ~Fires) /\ pwm' \in BOOLEAN
       /\ alone' \in Nat /\ alone' <= alone + 1
  BY <1>1 DEF Tick, Older, LeaseInv, Typed
<1>11. Typed' /\ Guarded'
  BY <1>7, <1>8, <1>9, <1>10 DEF LeaseInv, Typed, Guarded, Writing
<1>12. Counts'
  <2> SUFFICES ASSUME pwm'
               PROVE  hw'.on /\ alone' <= hw'.count
    BY DEF Counts
  <2>1. ~Fires /\ hw.on /\ alone <= hw.count
    BY <1>10 DEF LeaseInv, Counts
  <2>2. hw'.on /\ hw'.count = hw.count + 1
    BY <1>2, <1>8, <2>1
  <2> HIDE DEF age
  <2> QED
    BY <1>1, <1>10, <2>1, <2>2
<1>13. Timed'
  <2> SUFFICES ASSUME ~Writing', hw'.armed, ~hw'.ev
               PROVE  hw'.proof + hw'.cc0 = Lease + hw'.count /\ hw'.count < hw'.cc0
    BY DEF Timed
  <2>1. ~Writing /\ hw.armed /\ hw.on /\ ~hw.ev /\ ~Fires
    BY <1>8, <1>9 DEF LeaseInv, Guarded, Writing
  <2>2. hw.proof + hw.cc0 = Lease + hw.count /\ hw.count < hw.cc0
    BY <2>1 DEF LeaseInv, Timed
  <2>3. hw'.count = hw.count + 1 /\ hw'.proof = Older(hw.proof) /\ hw'.cc0 = hw.cc0
    BY <1>2, <1>8, <2>1
  <2>4. hw'.proof = hw.proof + 1 /\ hw.count + 1 # hw.cc0
    BY <1>1, <1>3, <1>4, <2>1, <2>2, <2>3
  <2> HIDE DEF age
  <2> QED
    BY <1>1, <2>2, <2>3, <2>4
<1>14. Wanted'
  <2>1. Writing' => Writing /\ sensor'.want > 0
    BY <1>9 DEF LeaseInv, Wanted, Writing
  <2>2. ASSUME Writing', ~hw'.ev
        PROVE  /\ hw'.proof <= Lease => hw'.proof + sensor'.want = Lease + hw'.count
               /\ hw'.proof > Lease => sensor'.want <= hw'.count
               /\ sensor'.at # "set" => hw'.cc0 = sensor'.want
    <3>1. Writing /\ hw.armed /\ hw.on /\ ~hw.ev /\ ~Fires
      BY <2>1, <2>2, <1>8 DEF LeaseInv, Guarded
    <3>2. hw'.count = hw.count + 1 /\ hw'.proof = Older(hw.proof)
      BY <3>1, <1>2, <1>8
    <3> QED
      BY <3>1, <3>2, <1>1, <1>4, <1>8, <1>9 DEF LeaseInv, Wanted
  <2> QED
    BY <2>1, <2>2 DEF Wanted
<1>15. Live'
  BY <1>8, <1>9, <1>10 DEF LeaseInv, Live, Writing
<1> QED
  BY <1>11, <1>12, <1>13, <1>14, <1>15 DEF LeaseInv

\* The first step of a write: the deadline is the sample's.
LEMMA UpdateWritesKeeps ==
    ASSUME LeaseInv, UpdateWrites
    PROVE  LeaseInv'
<1>1. PICK drive \in BOOLEAN :
          /\ obs.age < Lease /\ hw.armed
          /\ sensor' = [Waiting EXCEPT !.at = "set", !.want = Deadline(obs.age), !.drive = drive, !.next = After]
  BY Zenon DEF UpdateWrites
<1>2. /\ Lease \in Nat /\ Lease > 0 /\ obs.age \in 0..(Lease + 1)
      /\ Deadline(obs.age) \in 0..Lease /\ Deadline(obs.age) > 0
      /\ obs.age + Deadline(obs.age) = Lease
  BY <1>1, LeaseAssumption DEF LeaseInv, Typed, Readings, Ages, Deadline
<1>3. hw' \in Leases /\ hw'.armed = hw.armed /\ hw'.on = hw.on /\ hw'.proof = obs.age /\ hw'.count = 0
  <2>1. hw' = [hw EXCEPT !.proof = obs.age, !.count = 0]
    BY Zenon DEF UpdateWrites, Renewed
  <2>2. obs.age \in Ages /\ 0 \in 0..(Lease - 1)
    BY <1>2 DEF Ages
  <2> QED
    BY <2>1, <2>2 DEF LeaseInv, Typed, Leases
<1>4. /\ sensor' \in Sensors /\ sensor'.at = "set" /\ sensor'.want = Deadline(obs.age)
  <2>1. After \in {"idle", "apply"} /\ 0 \in Ages
    BY <1>2 DEF After, Ages
  <2> HIDE DEF Deadline
  <2> QED
    BY <1>1, <1>2, <2>1 DEF Waiting, Sensors, Places
<1>5. obs' \in Readings /\ pwm' = pwm /\ alone' = 0
  BY DEF UpdateWrites, LeaseInv, Typed, Readings
<1>6. Typed' /\ Guarded'
  BY <1>1, <1>3, <1>4, <1>5 DEF LeaseInv, Typed, Guarded, Writing
<1>7. Counts'
  BY <1>1, <1>3, <1>5 DEF LeaseInv, Counts, Guarded
<1>8. Timed' /\ Wanted' /\ Live'
  BY <1>2, <1>3, <1>4 DEF Timed, Wanted, Live, Writing
<1> QED
  BY <1>6, <1>7, <1>8 DEF LeaseInv

\* CC0 is set; should the time have passed, the check before the drive says so.
LEMMA SetLeaseKeeps ==
    ASSUME LeaseInv, SetLease
    PROVE  LeaseInv'
<1>1. /\ Writing /\ sensor.want \in 1..Lease
      /\ sensor' = [sensor EXCEPT !.at = "check"] /\ hw' = [hw EXCEPT !.cc0 = sensor.want]
      /\ obs' = obs /\ pwm' = pwm /\ alone' = alone
  BY LeaseAssumption DEF SetLease, LeaseInv, Typed, Sensors, Wanted, Writing
<1>2. /\ hw' \in Leases /\ hw'.armed = hw.armed /\ hw'.on = hw.on /\ hw'.proof = hw.proof
      /\ hw'.count = hw.count /\ hw'.ev = hw.ev /\ hw'.cc0 = sensor.want
  BY <1>1 DEF LeaseInv, Typed, Leases
<1>3. sensor' \in Sensors /\ sensor'.at = "check" /\ sensor'.want = sensor.want
  BY <1>1 DEF LeaseInv, Typed, Sensors, Places
<1> QED
  BY <1>1, <1>2, <1>3 DEF LeaseInv, Typed, Guarded, Counts, Timed, Wanted, Live, Writing

\* The look at the lease changes nothing.
LEMMA CheckKeeps ==
    ASSUME LeaseInv, Check
    PROVE  LeaseInv'
<1>1. /\ Writing /\ hw' = hw /\ obs' = obs /\ pwm' = pwm /\ alone' = alone
      /\ sensor.at = "check" /\ sensor' = [sensor EXCEPT !.at = "drive"]
  BY DEF Check, Writing
<1>2. sensor' \in Sensors /\ sensor'.at = "drive" /\ sensor'.want = sensor.want
  BY <1>1 DEF LeaseInv, Typed, Sensors, Places
<1> QED
  BY <1>1, <1>2 DEF LeaseInv, Typed, Guarded, Counts, Timed, Wanted, Live, Writing

\* The output is driven under a timer that runs, whether or not it has just
\* fired.
LEMMA DriveKeeps ==
    ASSUME LeaseInv, Drive
    PROVE  LeaseInv'
<1>1. /\ Writing /\ hw.armed /\ hw.on /\ hw' = hw /\ obs' = obs /\ alone' = 0
      /\ sensor.at = "drive" /\ sensor' = [sensor EXCEPT !.at = "verify"] /\ pwm' = sensor.drive
  BY DEF Drive, LeaseInv, Guarded, Writing
<1>2. /\ sensor' \in Sensors /\ sensor'.at = "verify" /\ sensor'.want = sensor.want
      /\ pwm' \in BOOLEAN
  BY <1>1 DEF LeaseInv, Typed, Sensors, Places
<1>3. hw.count \in Nat
  BY LeaseAssumption DEF LeaseInv, Typed, Leases
<1> QED
  BY <1>1, <1>2, <1>3 DEF LeaseInv, Typed, Guarded, Counts, Timed, Wanted, Live, Writing

\* The places the thread can be put, outside a write.
LEMMA Placed ==
    /\ \A where \in Places : At(where) \in Sensors /\ At(where).at = where
    /\ Acquiring \in Sensors /\ Acquiring.at = "read"
    /\ NoReading \in Readings
    /\ \A b \in BOOLEAN : [NoReading EXCEPT !.enabled = b] \in Readings
<1>1. 0 \in Ages /\ 0 \in 0..Lease
  BY LeaseAssumption DEF Ages
<1> QED
  BY <1>1 DEF At, Waiting, Acquiring, Sensors, Places, NoReading, Readings

\* Some off of the output, as every way to end a session has it.
SomeOff == \E ok \in BOOLEAN : hw' = OffHw(ok) /\ Cold

\* Every way to end a session turns the output off first.
LEMMA Offed ==
    /\ \A h, ok : Finish(h, ok) => hw' = OffHw(ok) /\ Cold
    /\ \A h, ok : ok \in BOOLEAN /\ Freeze(h, ok) => SomeOff
    /\ \A ok \in Offs : ok \in BOOLEAN
    /\ \A h : (\E ok \in Offs : Finish(h, ok)) => SomeOff
    /\ \A h : (\E ok \in Offs : Freeze(h, ok)) => SomeOff
<1>1. \A h, ok : Finish(h, ok) => hw' = OffHw(ok) /\ Cold
  BY DEF Finish
<1>2. \A ok \in Offs : ok \in BOOLEAN
  BY DEF Offs
<1>3. \A h, ok : ok \in BOOLEAN /\ Freeze(h, ok) => SomeOff
  BY <1>1 DEF Freeze, SomeOff
<1> QED
  BY <1>1, <1>2, <1>3 DEF SomeOff

\* A step that ends outside a write, with the output off or as it was.
LEMMA OutsideKeeps ==
    ASSUME LeaseInv, sensor' \in Sensors, obs' \in Readings, ~Writing',
           SomeOff \/ (~Writing /\ UNCHANGED <<hw, pwm, alone>>)
    PROVE  LeaseInv'
BY OffKeeps, LeaseKept DEF SomeOff

\* A session starts under a fresh lease, or not at all.
LEMMA StartKeeps ==
    ASSUME LeaseInv, Start
    PROVE  LeaseInv'
<1>1. sensor' = sensor /\ ~Writing /\ ~Writing'
  BY DEF Start, Gate, Writing
<1>2. sensor' \in Sensors /\ obs' \in Readings
  BY <1>1 DEF Start, LeaseInv, Typed, Readings
<1>3. CASE hw' = Armed /\ Cold
  <2>1. /\ hw' \in Leases /\ hw'.armed /\ hw'.on /\ ~hw'.ev
        /\ hw'.proof = 0 /\ hw'.cc0 = Lease /\ hw'.count = 0
    <3>1. 0 \in Ages /\ 0 \in 0..(Lease - 1) /\ Lease \in 1..Lease
      BY LeaseAssumption DEF Ages
    <3> QED
      BY <1>3, <3>1 DEF Armed, Disarmed, Leases
  <2>2. pwm' = FALSE /\ alone' = 0
    BY <1>3 DEF Cold
  <2>3. Typed' /\ Guarded' /\ Counts' /\ Live'
    BY <1>1, <1>2, <2>1, <2>2 DEF Typed, Guarded, Counts, Live
  <2>4. Timed' /\ Wanted'
    BY <1>1, <2>1, LeaseAssumption DEF Timed, Wanted
  <2> QED
    BY <2>3, <2>4 DEF LeaseInv
<1>4. CASE SomeOff
  BY <1>1, <1>2, <1>4, OutsideKeeps
<1> QED
  BY <1>3, <1>4, Offed DEF Start, SomeOff

\* What passed the last check of the write is under the deadline.
LEMMA WrittenKeeps ==
    ASSUME LeaseInv, Written
    PROVE  LeaseInv'
<1>1. /\ sensor' \in Sensors /\ ~Writing' /\ obs' \in Readings
  <2>1. sensor.next \in Places /\ sensor.next \notin {"set", "check", "drive", "verify"}
    BY DEF LeaseInv, Typed, Sensors, Places
  <2> QED
    BY <2>1, Placed DEF Written, Writing, LeaseInv, Typed
<1>2. CASE SomeOff
  BY <1>1, <1>2, OutsideKeeps
<1>3. CASE UNCHANGED <<hw, pwm, alone>>
  <2>1. /\ Writing /\ hw.armed /\ hw.on /\ ~hw.ev /\ hw.proof < Lease
        /\ hw.cc0 = sensor.want /\ hw.proof + sensor.want = Lease + hw.count
    BY LeaseAssumption DEF Written, Expired, LeaseInv, Typed, Leases, Ages, Guarded, Wanted, Writing
  <2>2. hw.count < hw.cc0
    BY <2>1, LeaseAssumption DEF LeaseInv, Typed, Leases, Sensors, Ages
  <2> QED
    BY <1>1, <1>3, <2>1, <2>2 DEF LeaseInv, Typed, Guarded, Counts, Timed, Wanted, Live
<1> QED
  BY <1>2, <1>3, Offed DEF Written

\* A start has no lease.
LEMMA LeaseInit == Init => LeaseInv
<1> SUFFICES ASSUME Init
             PROVE  LeaseInv
  OBVIOUS
<1>1. hw = Disarmed /\ pwm = FALSE /\ alone = 0 /\ sensor = Waiting /\ ~Writing
  BY DEF Init, Writing, Waiting
<1>2. hw \in Leases /\ hw.armed = FALSE
  <2>1. 0 \in Ages /\ 0 \in 0..(Lease - 1) /\ Lease \in 1..Lease
    BY LeaseAssumption DEF Ages
  <2> QED
    BY <1>1, <2>1 DEF Disarmed, Leases
<1>3. sensor \in Sensors /\ obs \in Readings
  <2>1. sensor = At("idle") /\ "idle" \in Places
    BY <1>1 DEF At, Waiting, Places
  <2> QED
    BY <2>1, Placed DEF Init
<1> QED
  BY <1>1, <1>2, <1>3 DEF LeaseInv, Typed, Guarded, Counts, Timed, Wanted, Live

\* Every step keeps the lease in order.
LEMMA LeaseNext == LeaseInv /\ [Next]_vars => LeaseInv'
<1> SUFFICES ASSUME LeaseInv, [Next]_vars
             PROVE  LeaseInv'
  OBVIOUS
<1>1. sensor \in Sensors /\ obs \in Readings /\ sensor.next \in {"idle", "apply"}
  BY DEF LeaseInv, Typed, Sensors
\* steps that touch neither the thread nor the lease
<1>2. CASE UNCHANGED <<hw, pwm, alone, obs, sensor>>
  BY <1>1, <1>2, LeaseKept
<1>3. CASE TimeOut \/ ClearEnd \/ BeginChange \/ Held \/ Resume \/ BeginEnd \/ Shut
  BY <1>2, <1>3 DEF TimeOut, ClearEnd, BeginChange, Held, Resume, BeginEnd, Shut
<1>4. ASSUME NEW o \in Owners, Mark(o) \/ Quiet(o)
      PROVE  LeaseInv'
  BY <1>2, <1>4 DEF Mark, Quiet
\* steps of other threads under the lock
<1>5. CASE Gate /\ sensor' = sensor /\ obs' = obs /\ (SomeOff \/ UNCHANGED <<hw, pwm, alone>>)
  <2>1. ~Writing /\ ~Writing'
    BY <1>5 DEF Gate, Writing
  <2> QED
    BY <1>1, <1>5, <2>1, OutsideKeeps
<1>6. CASE Stop \/ ClearBegin \/ Poll \/ Finalize \/ PowerDown
  <2>1. Gate /\ sensor' = sensor /\ obs' = obs
    BY <1>6 DEF Stop, ClearBegin, Poll, Finalize, PowerDown
  <2>2. SomeOff \/ UNCHANGED <<hw, pwm, alone>>
    <3>1. CASE Stop
      <4>1. PICK ok \in Offs : Finish(heat, ok) \/ Freeze(heat, ok)
        BY <3>1 DEF Stop
      <4> QED
        BY <4>1, Offed
    <3>2. CASE ClearBegin
      BY <3>2, Offed DEF ClearBegin
    <3>3. CASE Poll
      BY <3>3, Offed DEF Poll
    <3>4. CASE Finalize
      BY <3>4, Offed DEF Finalize, SomeOff
    <3>5. CASE PowerDown
      BY <3>5, Offed DEF PowerDown
    <3> QED
      BY <1>6, <3>1, <3>2, <3>3, <3>4, <3>5
  <2> QED
    BY <1>5, <2>1, <2>2
<1>7. ASSUME NEW o \in Owners, Abort(o)
      PROVE  LeaseInv'
  <2>1. Gate /\ sensor' = sensor /\ obs' = obs /\ SomeOff
    BY <1>7, Offed DEF Abort
  <2> QED
    BY <1>5, <2>1
\* steps of the sensor thread outside a write, and the last of one
<1>8. CASE /\ ~Writing' /\ sensor' \in Sensors /\ obs' \in Readings
           /\ SomeOff \/ (~Writing /\ UNCHANGED <<hw, pwm, alone>>)
  BY <1>8, OutsideKeeps
<1>9. /\ At(After) \in Sensors /\ At(After).at \notin {"set", "check", "drive", "verify"}
      /\ At(sensor.next) \in Sensors /\ At(sensor.next).at \notin {"set", "check", "drive", "verify"}
  <2>1. /\ After \in Places /\ After \notin {"set", "check", "drive", "verify"}
        /\ sensor.next \in Places /\ sensor.next \notin {"set", "check", "drive", "verify"}
    BY <1>1 DEF After, Places
  <2> QED
    BY <2>1, Placed
<1>10. CASE Wake \/ Go
  <2>1. /\ At("go") \in Sensors /\ At("go").at = "go" /\ At("first") \in Sensors /\ At("first").at = "first"
    BY Placed DEF Places
  <2> QED
    BY <1>1, <1>8, <1>10, <2>1 DEF Wake, Go, Writing
<1>11. CASE UpdateNothing \/ UpdateHolds \/ UpdateStops
  <2>1. sensor' = At(After) /\ obs' = obs /\ ~Writing
    BY <1>11 DEF UpdateNothing, UpdateHolds, UpdateStops, MoveOn, Updating, Writing
  <2>2. SomeOff \/ UNCHANGED <<hw, pwm, alone>>
    BY <1>11, Offed DEF UpdateNothing, UpdateHolds, UpdateStops
  <2> QED
    BY <1>1, <1>8, <1>9, <2>1, <2>2 DEF Writing
<1>12. CASE UpdateKeeps \/ UpdateRefused
  <2>1. sensor' = At(After) /\ obs' = [obs EXCEPT !.new = FALSE] /\ ~Writing
    BY <1>12 DEF UpdateKeeps, UpdateRefused, MoveOn, Updating, Writing
  <2>2. SomeOff \/ UNCHANGED <<hw, pwm, alone>>
    BY <1>12, Offed DEF UpdateKeeps, UpdateRefused
  <2>3. obs' \in Readings
    BY <1>1, <2>1 DEF Readings
  <2> QED
    BY <1>8, <1>9, <2>1, <2>2, <2>3 DEF Writing
<1>13. CASE WriteFails
  <2>1. sensor' = At(sensor.next) /\ obs' = obs
    BY <1>13 DEF WriteFails
  <2>2. SomeOff
    BY <1>13, Offed DEF WriteFails, SomeOff
  <2> QED
    BY <1>1, <1>8, <1>9, <2>1, <2>2 DEF Writing
<1>14. CASE Apply \/ Publish \/ Reject \/ Unready
  <2>1. ~Writing
    BY <1>14 DEF Apply, Publish, Reject, Unready, Writing
  <2>2. sensor' \in Sensors /\ ~Writing'
    <3>1. /\ At("second") \in Sensors /\ At("second").at = "second"
          /\ At("reject") \in Sensors /\ At("reject").at = "reject"
          /\ Acquiring \in Sensors /\ Acquiring.at = "read"
      BY Placed DEF Places
    <3> QED
      BY <1>14, <3>1 DEF Apply, Publish, Reject, Unready, Writing
  <2>3. SomeOff \/ UNCHANGED <<hw, pwm, alone>>
    BY <1>14, Offed DEF Apply, Publish, Reject, Unready, SomeOff
  <2>4. obs' \in Readings
    <3>1. CASE Apply
      <4>1. CASE obs' = obs
        BY <1>1, <4>1
      <4>2. CASE \E ok \in Offs : obs' = [NoReading EXCEPT !.enabled = ok /\ env.mainOk /\ ~env.suspended]
        <5>1. PICK ok \in Offs : obs' = [NoReading EXCEPT !.enabled = ok /\ env.mainOk /\ ~env.suspended]
          BY <4>2
        <5>2. (ok /\ env.mainOk /\ ~env.suspended) \in BOOLEAN
          OBVIOUS
        <5> QED
          BY <5>1, <5>2, Placed
      <4> QED
        BY <3>1, <4>1, <4>2 DEF Apply
    <3>2. CASE Publish
      <4>1. PICK hot \in BOOLEAN :
              obs' = IF Accepted
                     THEN [obs EXCEPT !.valid = TRUE, !.age = sensor.age, !.hot = hot, !.new = TRUE]
                     ELSE obs
        BY <3>2 DEF Publish
      <4>2. sensor.age \in Ages
        BY <1>1 DEF Sensors
      <4> QED
        BY <1>1, <4>1, <4>2 DEF Readings
    <3>3. CASE Reject
      <4>1. obs.enabled \in BOOLEAN
        BY <1>1 DEF Readings
      <4> QED
        BY <3>3, <4>1, Placed DEF Reject
    <3>4. CASE Unready
      BY <1>1, <3>4 DEF Unready
    <3> QED
      BY <1>14, <3>1, <3>2, <3>3, <3>4
  <2> QED
    BY <1>8, <2>1, <2>2, <2>3, <2>4
\* steps that close the temperature may come in the middle of a write
<1>15. CASE /\ sensor' = [sensor EXCEPT !.current = FALSE] /\ obs' \in Readings
            /\ UNCHANGED <<hw, pwm, alone>>
  <2>1. sensor' \in Sensors /\ sensor'.at = sensor.at /\ sensor'.want = sensor.want
    BY <1>1, <1>15 DEF Sensors
  <2> QED
    BY <1>15, <2>1, LeaseKept
<1>16. ASSUME NEW o \in Owners, Close(o)
       PROVE  LeaseInv'
  BY <1>15, <1>16, Placed DEF Close
<1>17. CASE Open
  <2>1. (env.mainOk /\ ~env.suspended) \in BOOLEAN
    OBVIOUS
  <2> QED
    BY <1>15, <1>17, <2>1, Placed DEF Open

<1>18. CASE Boot
  <2>1. hw' = Disarmed /\ pwm' = FALSE /\ alone' = 0 /\ sensor' = Waiting /\ ~Writing'
    BY <1>18 DEF Boot, Writing, Waiting
  <2>2. hw' \in Leases /\ hw'.armed = FALSE
    <3>1. 0 \in Ages /\ 0 \in 0..(Lease - 1) /\ Lease \in 1..Lease
      BY LeaseAssumption DEF Ages
    <3> QED
      BY <2>1, <3>1 DEF Disarmed, Leases
  <2>3. sensor' \in Sensors /\ obs' \in Readings
    <3>1. sensor' = At("idle") /\ "idle" \in Places
      BY <2>1 DEF At, Waiting, Places
    <3> QED
      BY <1>18, <3>1, Placed DEF Boot
  <2> QED
    BY <2>1, <2>2, <2>3 DEF LeaseInv, Typed, Guarded, Counts, Timed, Wanted, Live
<1>19. CASE UNCHANGED vars
  BY <1>2, <1>19 DEF vars
<1> QED
  BY <1>3, <1>4, <1>6, <1>7, <1>10, <1>11, <1>12, <1>13, <1>14, <1>16, <1>17, <1>18, <1>19,
     TickKeeps, StartKeeps, UpdateWritesKeeps, SetLeaseKeeps, CheckKeeps, DriveKeeps, WrittenKeeps
  DEF Next, OwnerSteps, Worker, WriteSteps

\* However long the lease is: heat never outlives it by itself, and outside a
\* write never rests on a temperature that old.
THEOREM HeatRunsOut == Spec => []HeatIsLeased
<1>1. LeaseInv => HeatIsLeased
  <2> SUFFICES ASSUME LeaseInv, pwm
               PROVE  /\ hw.on /\ alone < Lease
                      /\ Writing \/ hw.proof < Lease
    BY DEF HeatIsLeased
  <2>1. hw.on /\ alone <= hw.count
    BY DEF LeaseInv, Counts
  <2>2. alone < Lease
    BY <2>1, LeaseAssumption DEF LeaseInv, Typed, Leases
  <2>3. ~Writing => hw.proof + hw.cc0 = Lease + hw.count /\ hw.count < hw.cc0
    BY DEF LeaseInv, Live, Timed
  <2>4. ~Writing => hw.proof < Lease
    BY <2>3, LeaseAssumption DEF LeaseInv, Typed, Leases, Ages
  <2> QED
    BY <2>1, <2>2, <2>4
<1> QED
  BY <1>1, LeaseInit, LeaseNext, PTL DEF Spec

-----------------------------------------------------------------------------
(* Who heats. *)

\* The slot goes with the session, and what is driven or about to be driven
\* belongs to a running session under an armed lease of sound hardware.
Owned ==
    /\ heat \in Heats /\ SlotMatchesSession
    /\ pwm \/ Writing => heat.state = "running" /\ hw.armed /\ ~hw.fatal

\* An ending, by whomever, of the session as it is.
LEMMA FinishOwns ==
    ASSUME Owned, NEW h \in Heats, NEW ok \in BOOLEAN,
           Busy(h) <=> Busy(heat), Finish(h, ok), ~Writing'
    PROVE  Owned'
<1>1. 0 \in Ages
  BY LeaseAssumption DEF Ages
<1>2. Ended(h, ok) \in Heats /\ (Busy(Ended(h, ok)) <=> ~ok)
  <2>1. "finished" \in SessionStates /\ "off_failed" \in SessionStates
    BY DEF SessionStates
  <2> QED
    BY <1>1, <2>1 DEF Ended, Heats, Busy, Active
<1>3. pwm' = FALSE
  BY DEF Finish, Cold
<1>4. CASE Busy(h)
  <2>1. heat' = Ended(h, ok) /\ slot' = Kept(ok) /\ slot = "heated"
    BY <1>4 DEF Finish, Owned, SlotMatchesSession
  <2> QED
    BY <1>2, <1>3, <2>1 DEF Owned, SlotMatchesSession, Kept
<1>5. CASE ~Busy(h)
  <2>1. heat' = h /\ slot' = slot
    BY <1>5 DEF Finish
  <2> QED
    BY <1>3, <1>5, <2>1 DEF Owned, SlotMatchesSession
<1> QED
  BY <1>4, <1>5

\* A session set aside for the worker.
LEMMA FreezeOwns ==
    ASSUME Owned, NEW h \in Heats, NEW ok \in BOOLEAN,
           Busy(h), Busy(heat), Freeze(h, ok), ~Writing'
    PROVE  Owned'
<1>1. CASE Finish(h, FALSE)
  BY <1>1, FinishOwns
<1>2. CASE /\ Cold /\ slot' = slot
           /\ heat' = [h EXCEPT !.state = "finalizing", !.duty = FALSE, !.control = 0]
  <2>1. 0 \in Ages /\ "finalizing" \in SessionStates
    BY LeaseAssumption DEF Ages, SessionStates
  <2>2. heat' \in Heats /\ heat'.state = "finalizing"
    BY <1>2, <2>1 DEF Heats
  <2>3. pwm' = FALSE /\ slot' = "heated"
    BY <1>2 DEF Cold, Owned, SlotMatchesSession
  <2> QED
    BY <2>2, <2>3 DEF Owned, SlotMatchesSession, Busy, Active
<1> QED
  BY <1>1, <1>2 DEF Freeze

\* A step that neither ends nor begins a session, and drives nothing new.
LEMMA SessionKept ==
    ASSUME Owned, heat' \in Heats, slot' = slot,
           \/ heat'.state = heat.state
           \/ heat'.state \in {"reserved", "running"} /\ heat.state \in {"reserved", "running"},
           (pwm \/ Writing)' => /\ heat.state = "running" => heat'.state = "running"
                                /\ pwm \/ Writing
                                /\ hw'.armed = hw.armed /\ hw'.fatal = hw.fatal
    PROVE  Owned'
BY DEF Owned, SlotMatchesSession, Busy, Active

\* A start has no session.
LEMMA OwnedInit == Init => Owned
<1>1. 0 \in Ages /\ "idle" \in SessionStates
  BY LeaseAssumption DEF Ages, SessionStates
<1> QED
  BY <1>1 DEF Init, Owned, SlotMatchesSession, Busy, Active, Idle, Heats, Waiting, Writing

\* Every step leaves heat with its owner.
LEMMA OwnedNext == LeaseInv /\ Owned /\ [Next]_vars => Owned'
<1> SUFFICES ASSUME LeaseInv, Owned, [Next]_vars
             PROVE  Owned'
  OBVIOUS
<1>1. heat \in Heats /\ 0 \in Ages /\ hw \in Leases
  BY LeaseAssumption DEF Owned, Ages, LeaseInv, Typed
<1>2. /\ Synced \in Heats /\ (Busy(Synced) <=> Busy(heat))
      /\ Synced.state = heat.state \/ (heat.state = "reserved" /\ Synced.state = "running")
  BY <1>1 DEF Synced, Heats, SessionStates, Busy, Active
<1>3. \A ok \in Offs : ok \in BOOLEAN
  BY DEF Offs
<1>4. \A b \in BOOLEAN :
         LET h == [heat EXCEPT !.ready = b]
         IN  h \in Heats /\ (Busy(h) <=> Busy(heat)) /\ h.state = heat.state
  BY <1>1 DEF Heats, Busy
\* nothing of it is touched
<1>5. CASE UNCHANGED <<heat, hw, pwm, slot>> /\ (Writing' => Writing)
  BY <1>1, <1>5, SessionKept
<1>6. CASE BeginChange \/ Held \/ Resume \/ BeginEnd \/ Shut \/ UNCHANGED vars
  BY <1>5, <1>6 DEF BeginChange, Held, Resume, BeginEnd, Shut, vars, Writing
<1>6a. CASE Open
  <2>1. sensor'.at = sensor.at
    BY <1>6a DEF Open, LeaseInv, Typed, Sensors
  <2> QED
    BY <1>5, <1>6a, <2>1 DEF Open, Writing
<1>7. ASSUME NEW o \in Owners, Mark(o) \/ Quiet(o) \/ Close(o)
      PROVE  Owned'
  <2>1. sensor'.at = sensor.at
    BY <1>7 DEF Mark, Quiet, Close, LeaseInv, Typed, Sensors
  <2> QED
    BY <1>5, <1>7, <2>1 DEF Mark, Quiet, Close, Writing
<1>8. CASE Wake \/ Go \/ UpdateNothing \/ UpdateHolds
  <2>1. After \in Places /\ After \notin {"set", "check", "drive", "verify"} /\ {"go", "first"} \subseteq Places
    BY DEF After, Places
  <2>2. ~Writing'
    BY <1>8, <2>1, Placed DEF Wake, Go, UpdateNothing, UpdateHolds, MoveOn, Writing
  <2> QED
    BY <1>5, <1>8, <2>2 DEF Wake, Go, UpdateNothing, UpdateHolds
\* the session changes, not its state
<1>9. CASE TimeOut \/ ClearEnd
  <2>1. heat' \in Heats /\ heat'.state = heat.state
    BY <1>1, <1>9 DEF TimeOut, ClearEnd, Heats
  <2> QED
    BY <1>9, <2>1, SessionKept DEF TimeOut, ClearEnd, Writing
<1>10. CASE Tick
  <2>1. heat' \in Heats /\ heat'.state = heat.state
    <3>1. heat.control \in Ages => Older(heat.control) \in Ages
      BY LeaseAssumption DEF Older, Ages
    <3> QED
      BY <1>1, <1>10, <3>1 DEF Tick, Heats
  <2>2. hw'.armed = hw.armed /\ hw'.fatal = hw.fatal
    BY <1>1, <1>10 DEF Tick, Leases
  <2>3. sensor'.at = sensor.at
    BY <1>10 DEF Tick, LeaseInv, Typed, Sensors
  <2>4. pwm' => pwm
    BY <1>10 DEF Tick
  <2> QED
    BY <1>10, <2>1, <2>2, <2>3, <2>4, SessionKept DEF Tick, Writing
<1>11. CASE Publish
  <2>1. heat' \in Heats /\ heat'.state = heat.state
    BY <1>1, <1>11 DEF Publish, Reopened, Heats
  <2>2. ~Writing'
    BY <1>11, Placed DEF Publish, Writing, Places
  <2> QED
    BY <1>11, <2>1, <2>2, SessionKept DEF Publish
\* other threads under the lock
<1>12. ASSUME NEW o \in Owners,
              Stop \/ ClearBegin \/ Poll \/ Finalize \/ PowerDown \/ Abort(o) \/ Start
       PROVE  Owned'
  <2>1. ~Writing'
    <3>1. Gate /\ sensor' = sensor
      BY <1>12 DEF Stop, ClearBegin, Poll, Finalize, PowerDown, Abort, Start
    <3> QED
      BY <3>1 DEF Gate, Writing
  <2>2. CASE Stop
    <3>1. PICK ok \in Offs :
            \/ Finish(heat, ok)
            \/ heat.state \in {"running", "finalizing"} /\ Freeze(heat, ok)
      BY <2>2 DEF Stop
    <3> QED
      BY <1>1, <1>3, <2>1, <3>1, FinishOwns, FreezeOwns DEF Busy, Active
  <2>3. CASE ClearBegin
    <3>1. PICK ok \in Offs : Finish([heat EXCEPT !.resetting = TRUE, !.ready = FALSE], ok)
      BY <2>3 DEF ClearBegin
    <3>2. LET h == [heat EXCEPT !.resetting = TRUE, !.ready = FALSE]
          IN  h \in Heats /\ (Busy(h) <=> Busy(heat))
      BY <1>1 DEF Heats, Busy
    <3> QED
      BY <1>3, <2>1, <3>1, <3>2, FinishOwns
  <2>4. CASE Poll
    <3>1. CASE \E ok \in Offs : Finish(heat, ok)
      BY <1>1, <1>3, <2>1, <3>1, FinishOwns
    <3>2. CASE UNCHANGED <<heat, hw, pwm, alone, slot>>
      BY <1>5, <2>1, <3>2
    <3> QED
      BY <2>4, <3>1, <3>2 DEF Poll
  <2>5. CASE Finalize
    <3>1. CASE UNCHANGED <<heat, hw, pwm, alone, slot>>
      BY <1>5, <2>1, <3>1
    <3>2. ASSUME NEW ok \in BOOLEAN, ~Unpublishable, heat' = Ended(heat, ok), slot' = Kept(ok),
                 pwm' = FALSE \/ pwm' = pwm
          PROVE  Owned'
      <4>1. heat.state = "finalizing" /\ ~pwm /\ slot = "heated"
        BY <3>2, Zenon DEF Unpublishable, Owned, SlotMatchesSession, Busy, Active
      <4>2. heat' \in Heats /\ (Busy(heat') <=> ~ok)
        <5>1. "finished" \in SessionStates /\ "off_failed" \in SessionStates
          BY DEF SessionStates
        <5> QED
          BY <1>1, <3>2, <5>1 DEF Ended, Heats, Busy, Active
      <4> QED
        BY <2>1, <3>2, <4>1, <4>2 DEF Owned, SlotMatchesSession, Kept, Busy
    <3>3. CASE \E ok \in Offs : /\ hw' = OffHw(ok) /\ Cold
                                /\ heat' = Ended(heat, ok) /\ slot' = Kept(ok) /\ ~Unpublishable
      BY <1>3, <3>2, <3>3 DEF Cold
    <3>4. CASE ~Unpublishable /\ heat' = Ended(heat, TRUE) /\ slot' = Kept(TRUE) /\ pwm' = pwm
      BY <3>2, <3>4
    <3> QED
      BY <2>5, <3>1, <3>3, <3>4 DEF Finalize
  <2>6. CASE PowerDown
    <3>1. PICK ok \in Offs : Finish(PowerAborted(heat), ok)
      BY <2>6 DEF PowerDown
    <3>2. PowerAborted(heat) \in Heats /\ (Busy(PowerAborted(heat)) <=> Busy(heat))
      BY <1>1 DEF PowerAborted, Heats, Busy
    <3> QED
      BY <1>3, <2>1, <3>1, <3>2, FinishOwns
  <2>7. CASE Abort(o)
    <3>1. PICK ok \in Offs : Finish([heat EXCEPT !.ready = FALSE], ok)
      BY <2>7 DEF Abort
    <3> QED
      BY <1>3, <1>4, <2>1, <3>1, FinishOwns
  <2>8. CASE Start
    <3> DEFINE h == [heat EXCEPT !.state = "reserved", !.control = 0, !.over = FALSE, !.duty = FALSE]
    <3>1. h \in Heats /\ h.state = "reserved"
      BY <1>1 DEF Heats, SessionStates
    <3>2. pwm' = FALSE /\ slot = "free"
      BY <2>8 DEF Start, Cold, Reservable
    <3>3. CASE heat' = h /\ slot' = "heated"
      BY <2>1, <3>1, <3>2, <3>3 DEF Owned, SlotMatchesSession, Busy, Active
    <3>4. ASSUME NEW ok \in BOOLEAN, heat' = Ended(h, ok), slot' = IF ok THEN "free" ELSE "heated"
          PROVE  Owned'
      <4>1. heat' \in Heats /\ (Busy(heat') <=> ~ok)
        <5>1. "finished" \in SessionStates /\ "off_failed" \in SessionStates
          BY DEF SessionStates
        <5> HIDE DEF h
        <5> QED
          BY <1>1, <3>1, <3>4, <5>1 DEF Ended, Heats, Busy, Active
      <4> QED
        BY <2>1, <3>2, <3>4, <4>1 DEF Owned, SlotMatchesSession, Busy
    <3> QED
      BY <1>3, <2>8, <3>3, <3>4 DEF Start
  <2> QED
    BY <1>12, <2>2, <2>3, <2>4, <2>5, <2>6, <2>7, <2>8
\* the sensor thread
<1>13. CASE UpdateStops \/ UpdateRefused
  <2>1. PICK ok \in Offs : Finish(Synced, ok)
    BY <1>13 DEF UpdateStops, UpdateRefused
  <2>2. sensor' = At(After) /\ After \in Places /\ After \notin {"set", "check", "drive", "verify"}
    BY <1>13 DEF UpdateStops, UpdateRefused, MoveOn, After, Places
  <2>3. ~Writing'
    BY <2>2, Placed DEF Writing
  <2> QED
    BY <1>2, <1>3, <2>1, <2>3, FinishOwns
<1>14. CASE UpdateKeeps
  <2>1. ~Writing'
    <3>1. sensor' = At(After) /\ After \in Places /\ After \notin {"set", "check", "drive", "verify"}
      BY <1>14 DEF UpdateKeeps, MoveOn, After, Places
    <3> QED
      BY <3>1, Placed DEF Writing
  <2>2. Synced.state = "running" /\ Busy(Synced) /\ Busy(heat)
    BY <1>2, <1>14 DEF UpdateKeeps, Busy, Active
  <2>3. CASE \E ok \in Offs : Freeze(Synced, ok)
    BY <1>2, <1>3, <2>1, <2>2, <2>3, FreezeOwns
  <2>4. CASE heat' = Synced /\ UNCHANGED <<hw, pwm, alone, slot, fin>>
    BY <1>2, <2>1, <2>2, <2>4, SessionKept
  <2> QED
    BY <1>14, <2>3, <2>4 DEF UpdateKeeps
<1>15. CASE UpdateWrites
  <2>1. PICK drive \in BOOLEAN :
          /\ hw.armed
          /\ heat' = [Synced EXCEPT !.duty = drive, !.control = IF Due THEN 0 ELSE Synced.control]
    BY <1>15, Zenon DEF UpdateWrites
  <2>2. Synced.state = "running" /\ hw.fatal = FALSE
    BY <1>1, <1>15 DEF UpdateWrites, MustStop, Leases
  <2>3. heat' \in Heats /\ heat'.state = "running"
    <3>1. (IF Due THEN 0 ELSE Synced.control) \in Ages
      BY <1>1, <1>2 DEF Heats
    <3> QED
      BY <1>2, <2>1, <2>2, <3>1 DEF Heats
  <2>4. hw'.armed /\ ~hw'.fatal /\ slot' = slot
    BY <1>1, <1>15, <2>1, <2>2 DEF UpdateWrites, Renewed, Leases
  <2>5. Busy(heat) /\ Busy(heat')
    BY <1>2, <2>2, <2>3 DEF Busy, Active
  <2> QED
    BY <2>3, <2>4, <2>5 DEF Owned, SlotMatchesSession, Busy
<1>16. CASE SetLease \/ Check \/ Drive
  <2>1. Writing /\ heat' = heat /\ slot' = slot
    BY <1>16 DEF SetLease, Check, Drive, Writing
  <2>2. hw'.armed = hw.armed /\ hw'.fatal = hw.fatal
    BY <1>1, <1>16 DEF SetLease, Check, Drive, Leases
  <2> QED
    BY <1>1, <2>1, <2>2, SessionKept
<1>17. CASE WriteFails \/ Written
  <2>1. ~Writing'
    <3>1. sensor' = At(sensor.next) /\ sensor.next \in Places /\ sensor.next \notin {"set", "check", "drive", "verify"}
      BY <1>17 DEF WriteFails, Written, LeaseInv, Typed, Sensors, Places
    <3> QED
      BY <3>1, Placed DEF Writing
  <2>2. Writing /\ heat.state = "running"
    BY <1>17 DEF WriteFails, Written, Writing, Owned
  <2>3. CASE \E ok \in BOOLEAN : Finish(heat, ok) \/ Freeze(heat, ok)
    BY <1>1, <2>1, <2>2, <2>3, FinishOwns, FreezeOwns DEF Busy, Active
  <2>4. CASE UNCHANGED <<heat, hw, pwm, alone, slot, fin>>
    BY <1>5, <2>1, <2>4
  <2> QED
    BY <1>3, <1>17, <2>3, <2>4 DEF WriteFails, Written
<1>18. CASE Apply \/ Reject \/ Unready
  <2>1. ~Writing'
    <3>1. {"second", "reject"} \subseteq Places
      BY DEF Places
    <3> QED
      BY <1>18, <3>1, Placed DEF Apply, Reject, Unready, Writing
  <2>2. CASE \E ok \in Offs : Finish(heat, ok) \/ Finish([heat EXCEPT !.ready = FALSE], ok)
    BY <1>1, <1>3, <1>4, <2>1, <2>2, FinishOwns
  <2>3. CASE UNCHANGED <<heat, hw, pwm, slot>>
    BY <1>5, <2>1, <2>3
  <2> QED
    BY <1>18, <2>2, <2>3 DEF Apply, Reject, Unready
<1>19. CASE Boot
  <2>1. "idle" \in SessionStates
    BY DEF SessionStates
  <2> QED
    BY <1>1, <1>19, <2>1 DEF Boot, Owned, SlotMatchesSession, Busy, Active, Idle, Heats, Waiting, Writing
<1>20. "end" \in Owners
  BY DEF Owners
<1> QED
  BY <1>6, <1>6a, <1>7, <1>8, <1>9, <1>10, <1>11, <1>12, <1>13, <1>14, <1>15, <1>16, <1>17, <1>18, <1>19, <1>20
  DEF Next, OwnerSteps, Worker, WriteSteps

\* Whatever the lease: only a running session that holds the slot, under an
\* armed lease and sound hardware, has the output driven.
THEOREM HeatIsOwned == Spec => []HeatHasOwner
<1>1. Owned => HeatHasOwner
  BY DEF Owned, HeatHasOwner, SlotMatchesSession, Busy, Active
<1> QED
  BY <1>1, LeaseInit, LeaseNext, OwnedInit, OwnedNext, PTL DEF Spec

\* The slot is never given back before a confirmed off, nor kept after one.
THEOREM SlotIsMatched == Spec => []SlotMatchesSession
<1>1. Owned => SlotMatchesSession
  BY DEF Owned
<1> QED
  BY <1>1, LeaseInit, LeaseNext, OwnedInit, OwnedNext, PTL DEF Spec

-----------------------------------------------------------------------------
(* Who keeps it cold. *)

Inactive == heat.state \notin Active

Placings ==
    /\ pos \in [Owners -> 1..11] /\ life \in Owners \cup {"free", "sensor"}
    /\ env \in [cut : BOOLEAN, ota : BOOLEAN, suspended : BOOLEAN, mainOk : BOOLEAN]
    /\ env.ota => pos["end"] \in 1..9

\* Whoever aborts, or has rejected a temperature, has the lifecycle lock.
Locking ==
    /\ \A o \in Owners : Doing(o, "abort") => life = o
    /\ sensor.at = "reject" => life = "sensor"

\* From its close to its mark no temperature is published that a start would
\* trust; from its mark on the suspension refuses a start.
ChangeHolds ==
    /\ pos["change"] \in {3, 4} => ~obs.enabled /\ ~obs.valid
    /\ pos["change"] \in 5..10 => env.suspended
    /\ pos["change"] \in 4..10 => Inactive

\* The place of an ending owner behind its abort.
Aborted == IF env.ota THEN 4 ELSE 5

\* The latch or the update refuses a start before the abort and for ever after.
EndHolds ==
    /\ pos["end"] > 1 => env.cut \/ env.ota
    /\ pos["end"] >= Aborted => Inactive
    /\ heat.terminal => env.cut /\ Inactive

ColdInv == Placings /\ Locking /\ ChangeHolds /\ EndHolds

\* What each place of the procedures does.
LEMMA Steps ==
    ASSUME Placings, NEW step \in {"begin", "powerdown", "close", "abort", "mark", "quiet", "held",
                                   "shut", "open", "resume", "down"}
    PROVE  /\ Doing("change", step) <=>
                 \/ step = "begin" /\ pos["change"] = 1
                 \/ step = "close" /\ pos["change"] \in {2, 7}
                 \/ step = "abort" /\ pos["change"] \in {3, 8}
                 \/ step = "mark" /\ pos["change"] = 4
                 \/ step = "quiet" /\ pos["change"] = 5
                 \/ step = "held" /\ pos["change"] = 6
                 \/ step = "open" /\ pos["change"] \in {9, 11}
                 \/ step = "resume" /\ pos["change"] = 10
           /\ ~env.ota => (Doing("end", step) <=>
                 \/ step = "begin" /\ pos["end"] = 1
                 \/ step = "powerdown" /\ pos["end"] \in {2, 10}
                 \/ step = "close" /\ pos["end"] \in {3, 8}
                 \/ step = "abort" /\ pos["end"] \in {4, 9}
                 \/ step = "mark" /\ pos["end"] = 5
                 \/ step = "quiet" /\ pos["end"] = 6
                 \/ step = "shut" /\ pos["end"] = 7
                 \/ step = "down" /\ pos["end"] = 11)
           /\ env.ota => (Doing("end", step) <=>
                 \/ step = "begin" /\ pos["end"] = 1
                 \/ step = "close" /\ pos["end"] \in {2, 7}
                 \/ step = "abort" /\ pos["end"] \in {3, 8}
                 \/ step = "mark" /\ pos["end"] = 4
                 \/ step = "quiet" /\ pos["end"] = 5
                 \/ step = "shut" /\ pos["end"] = 6
                 \/ step = "down" /\ pos["end"] = 9)
<1>1. pos["change"] \in 1..11 /\ pos["end"] \in 1..11 /\ (env.ota => pos["end"] \in 1..9)
  BY DEF Placings, Owners
<1>2. Procedure("change") = Change
  BY DEF Procedure
<1>3. Procedure("end") = IF env.ota THEN OtaBegin ELSE PowerOff
  BY DEF Procedure
<1>4. Doing("change", step) <=> Change[pos["change"]] = step
  BY <1>2 DEF Doing
<1>5. ~env.ota => (Doing("end", step) <=> PowerOff[pos["end"]] = step)
  BY <1>3 DEF Doing
<1>6. env.ota => (Doing("end", step) <=> OtaBegin[pos["end"]] = step)
  BY <1>3 DEF Doing
<1>7. QED
  BY <1>1, <1>4, <1>5, <1>6 DEF Change, PowerOff, OtaBegin

\* An ending leaves no session running, and the marks of the power owner alone.
LEMMA FinishRests ==
    ASSUME NEW h \in Heats, NEW ok \in BOOLEAN, Finish(h, ok)
    PROVE  /\ heat'.state \notin Active /\ heat'.terminal = h.terminal
<1>1. CASE Busy(h)
  <2>1. heat' = Ended(h, ok)
    BY <1>1 DEF Finish
  <2> QED
    BY <2>1 DEF Ended, Heats, Active
<1>2. CASE ~Busy(h)
  BY <1>2 DEF Finish, Busy
<1> QED
  BY <1>1, <1>2

LEMMA FreezeMarks ==
    ASSUME NEW h \in Heats, NEW ok \in BOOLEAN, Freeze(h, ok)
    PROVE  heat'.terminal = h.terminal
<1>1. CASE Finish(h, FALSE)
  BY <1>1, FinishRests
<1>2. CASE heat' = [h EXCEPT !.state = "finalizing", !.duty = FALSE, !.control = 0]
  BY <1>2 DEF Heats
<1> QED
  BY <1>1, <1>2 DEF Freeze

\* Only a start begins a session, and only the power owner's abort is terminal.
LEMMA OnlyAStart ==
    ASSUME LeaseInv, Owned, [Next]_vars
    PROVE  /\ Inactive => Inactive' \/ Start
           /\ heat'.terminal => heat.terminal \/ PowerDown
<1> DEFINE Rests == /\ Inactive => Inactive'
                    /\ heat'.terminal => heat.terminal
<1>1. heat \in Heats /\ Synced \in Heats /\ heat' \in Heats
  <2>1. Owned'
    BY OwnedNext
  <2> QED
    BY <2>1 DEF Owned, Synced, Heats, SessionStates
<1>2. /\ Synced.terminal = heat.terminal
      /\ Synced.state \in Active <=> heat.state \in Active
  BY <1>1 DEF Synced, Heats, Active
<1>3. \A ok \in Offs : ok \in BOOLEAN
  BY DEF Offs
<1>4. ASSUME NEW h \in Heats, NEW ok \in Offs, Finish(h, ok), h.terminal => heat.terminal
      PROVE  Rests
  BY <1>3, <1>4, FinishRests DEF Inactive
<1>5. ASSUME NEW ok \in Offs, Freeze(Synced, ok), Synced.state \in Active
      PROVE  Rests
  BY <1>1, <1>2, <1>3, <1>5, FreezeMarks DEF Inactive
<1>6. ASSUME NEW ok \in Offs, Freeze(heat, ok), heat.state \in Active
      PROVE  Rests
  BY <1>1, <1>3, <1>6, FreezeMarks DEF Inactive
<1>7. /\ [heat EXCEPT !.ready = FALSE] \in Heats
      /\ [heat EXCEPT !.ready = FALSE].terminal = heat.terminal
      /\ [heat EXCEPT !.resetting = TRUE, !.ready = FALSE] \in Heats
      /\ [heat EXCEPT !.resetting = TRUE, !.ready = FALSE].terminal = heat.terminal
  BY <1>1 DEF Heats
<1>8. CASE UNCHANGED heat
  BY <1>8 DEF Inactive
<1>9. CASE \/ Wake \/ Go \/ UpdateNothing \/ UpdateHolds \/ SetLease \/ Check \/ Drive
           \/ BeginChange \/ BeginEnd \/ Held \/ Shut \/ Resume \/ Open
           \/ UNCHANGED vars
           \/ \E o \in Owners : Close(o) \/ Mark(o) \/ Quiet(o)
  BY <1>8, <1>9 DEF Wake, Go, UpdateNothing, UpdateHolds, SetLease, Check, Drive, BeginChange, BeginEnd,
     Held, Shut, Resume, Open, vars, Close, Mark, Quiet
<1>10. CASE Tick \/ TimeOut \/ ClearEnd
  BY <1>1, <1>10 DEF Tick, TimeOut, ClearEnd, Heats, Inactive
<1>11. CASE Publish
  BY <1>1, <1>11 DEF Publish, Reopened, Heats, Inactive
<1>12. CASE Stop
  BY <1>1, <1>4, <1>6, <1>12 DEF Stop, Active
<1>13. CASE ClearBegin
  BY <1>4, <1>7, <1>13 DEF ClearBegin
<1>14. CASE Poll
  BY <1>1, <1>4, <1>8, <1>14 DEF Poll
<1>15. CASE Finalize
  <2>1. ASSUME NEW ok \in BOOLEAN, heat' = Ended(heat, ok)
        PROVE  Rests
    BY <1>1, <2>1 DEF Ended, Heats, Inactive, Active
  <2> QED
    BY <1>3, <1>8, <1>15, <2>1 DEF Finalize
<1>16. CASE UpdateStops \/ UpdateRefused
  BY <1>1, <1>2, <1>4, <1>16 DEF UpdateStops, UpdateRefused
<1>17. CASE UpdateKeeps
  <2>1. CASE heat' = Synced
    BY <1>2, <2>1 DEF Inactive
  <2>2. Synced.state \in Active
    BY <1>17 DEF UpdateKeeps, Active
  <2> QED
    BY <1>5, <1>17, <2>1, <2>2 DEF UpdateKeeps
<1>18. CASE UpdateWrites
  <2>1. PICK drive \in BOOLEAN :
          heat' = [Synced EXCEPT !.duty = drive, !.control = IF Due THEN 0 ELSE Synced.control]
    BY <1>18, Zenon DEF UpdateWrites
  <2>2. heat'.state = Synced.state /\ heat'.terminal = Synced.terminal
    BY <1>1, <2>1 DEF Heats
  <2> QED
    BY <1>2, <2>2 DEF Inactive
<1>19. CASE WriteFails \/ Written
  <2>1. heat.state \in Active
    BY <1>19 DEF WriteFails, Written, Writing, Owned, Active
  <2>2. CASE Finish(heat, FALSE)
    <3>1. FALSE \in Offs
      BY DEF Offs
    <3> QED
      BY <1>1, <1>4, <2>2, <3>1
  <2> QED
    BY <1>1, <1>4, <1>6, <1>8, <1>19, <2>1, <2>2 DEF WriteFails, Written
<1>20. CASE Apply \/ Reject \/ Unready \/ (\E o \in Owners : Abort(o))
  BY <1>1, <1>4, <1>7, <1>8, <1>20 DEF Apply, Reject, Unready, Abort
<1>21. CASE PowerDown
  <2>1. PICK ok \in Offs : Finish(PowerAborted(heat), ok)
    BY <1>21 DEF PowerDown
  <2>2. PowerAborted(heat) \in Heats
    BY <1>1 DEF PowerAborted, Heats
  <2>3. Inactive'
    BY <1>3, <2>1, <2>2, FinishRests DEF Inactive
  <2> QED
    BY <1>21, <2>3
<1>22. CASE Start
  <2> DEFINE h == [heat EXCEPT !.state = "reserved", !.control = 0, !.over = FALSE, !.duty = FALSE]
  <2>1. h.terminal = heat.terminal
    BY <1>1 DEF Heats
  <2>2. h \in Heats
    <3>1. 0 \in Ages /\ "reserved" \in SessionStates
      BY LeaseAssumption DEF Ages, SessionStates
    <3> QED
      BY <1>1, <3>1 DEF Heats
  <2>3. \A ok \in Offs : Ended(h, ok).terminal = h.terminal
    <3> HIDE DEF h
    <3> QED
      BY <2>2 DEF Ended, Heats
  <2>4. heat' = h \/ \E ok \in Offs : heat' = Ended(h, ok)
    BY <1>22 DEF Start
  <2> QED
    BY <1>22, <2>1, <2>3, <2>4
<1>23. CASE Boot
  BY <1>23 DEF Boot, Idle, Inactive, Active
<1> HIDE DEF Rests
<1> QED
  <2>1. Rests => (Inactive => Inactive' \/ Start) /\ (heat'.terminal => heat.terminal \/ PowerDown)
    BY DEF Rests
  <2> QED
    BY <2>1, <1>9, <1>10, <1>11, <1>12, <1>13, <1>14, <1>15, <1>16, <1>17, <1>18, <1>19, <1>20, <1>21,
       <1>22, <1>23 DEF Next, OwnerSteps, Worker, WriteSteps

\* What a step of nobody but the owners may do to what they rely on.
Outside ==
    /\ UNCHANGED <<pos, env>>
    /\ \/ life' = life /\ (sensor'.at = "reject" => sensor.at = "reject")
       \/ life = "free" /\ life' = "sensor"
       \/ sensor.at = "reject" /\ life' = "free" /\ sensor'.at # "reject"
    /\ obs'.enabled => obs.enabled \/ (life = "free" /\ ~Doing("change", "mark"))
    /\ obs'.valid => obs.valid \/ obs.enabled

LEMMA OwnersStay ==
    ASSUME LeaseInv, Next
    PROVE  OwnerSteps \/ Outside
<1>1. sensor \in Sensors /\ obs \in Readings
  BY DEF LeaseInv, Typed
<1>2. /\ After \in Places /\ After # "reject"
      /\ sensor.next \in Places /\ sensor.next # "reject"
      /\ \A where \in {"idle", "go", "first", "read", "second", "reject"} : where \in Places
  BY <1>1 DEF After, Places, Sensors
<1>3. CASE UNCHANGED <<sensor, obs, pos, env, life>>
  BY <1>3 DEF Outside
<1>4. CASE \/ TimeOut \/ Stop \/ ClearBegin \/ ClearEnd \/ Worker
  BY <1>3, <1>4 DEF TimeOut, Stop, ClearBegin, ClearEnd, Worker, Poll, Finalize
<1>5. CASE Tick
  <2>1. obs'.enabled = obs.enabled /\ obs'.valid = obs.valid /\ sensor'.at = sensor.at
    BY <1>1, <1>5 DEF Tick, Readings, Sensors
  <2> QED
    BY <1>5, <2>1 DEF Tick, Outside
<1>6. CASE Start
  <2>1. obs'.enabled = obs.enabled /\ obs'.valid = obs.valid
    BY <1>1, <1>6 DEF Start, Readings
  <2> QED
    BY <1>6, <2>1 DEF Start, Outside
<1>7. CASE Wake \/ Go \/ UpdateNothing \/ UpdateHolds \/ UpdateStops \/ WriteFails \/ Written
  <2>1. sensor'.at # "reject"
    BY <1>2, <1>7, Placed DEF Wake, Go, UpdateNothing, UpdateHolds, UpdateStops, MoveOn, WriteFails, Written
  <2> QED
    BY <1>7, <2>1 DEF Wake, Go, UpdateNothing, UpdateHolds, UpdateStops, WriteFails, Written, Outside
<1>8. CASE UpdateKeeps \/ UpdateRefused
  <2>1. sensor'.at # "reject"
    BY <1>2, <1>8, Placed DEF UpdateKeeps, UpdateRefused, MoveOn
  <2>2. obs'.enabled = obs.enabled /\ obs'.valid = obs.valid
    BY <1>1, <1>8 DEF UpdateKeeps, UpdateRefused, Readings
  <2> QED
    BY <1>8, <2>1, <2>2 DEF UpdateKeeps, UpdateRefused, Outside
<1>9. CASE UpdateWrites
  <2>1. sensor'.at # "reject"
    BY <1>9 DEF UpdateWrites, Waiting
  <2>2. obs'.enabled = obs.enabled /\ obs'.valid = obs.valid
    BY <1>1, <1>9 DEF UpdateWrites, Readings
  <2> QED
    BY <1>9, <2>1, <2>2 DEF UpdateWrites, Outside
<1>10. CASE SetLease \/ Check \/ Drive
  <2>1. sensor'.at # "reject"
    BY <1>1, <1>10 DEF SetLease, Check, Drive, Sensors
  <2> QED
    BY <1>10, <2>1 DEF SetLease, Check, Drive, Outside
<1>11. CASE Apply
  <2>1. sensor'.at # "reject"
    BY <1>11 DEF Apply, Acquiring, Waiting
  <2>2. obs' = obs \/ (life = "free" /\ ~Doing("change", "mark") /\ obs'.valid = FALSE)
    BY <1>11 DEF Apply, NoReading
  <2> QED
    BY <1>11, <2>1, <2>2 DEF Apply, Outside
<1>12. CASE Publish
  <2>1. sensor'.at # "reject"
    BY <1>2, <1>12, Placed DEF Publish
  <2>2. obs'.enabled = obs.enabled /\ (obs'.valid => obs.valid \/ obs.enabled)
    BY <1>1, <1>12 DEF Publish, Accepted, Readings
  <2> QED
    BY <1>12, <2>1, <2>2 DEF Publish, Outside
<1>13. CASE Reject
  BY <1>1, <1>13 DEF Reject, NoReading, Outside
<1>14. CASE Unready
  <2>1. sensor'.at # "reject"
    BY <1>2, <1>14, Placed DEF Unready
  <2> QED
    BY <1>14, <2>1 DEF Unready, Outside
<1> QED
  BY <1>4, <1>5, <1>6, <1>7, <1>8, <1>9, <1>10, <1>11, <1>12, <1>13, <1>14 DEF Next, WriteSteps

\* How an owner moves on.
LEMMA Moves ==
    ASSUME Placings, NEW o \in Owners
    PROVE  /\ Next1(o) = IF pos[o] = (IF o = "change" \/ ~env.ota THEN 11 ELSE 9) THEN 1 ELSE pos[o] + 1
           /\ \A n \in 1..11 : StepTo(o, n) => /\ pos' \in [Owners -> 1..11] /\ pos'[o] = n
                                               /\ \A p \in Owners \ {o} : pos'[p] = pos[p]
<1>1. Len(Change) = 11 /\ Len(PowerOff) = 11 /\ Len(OtaBegin) = 9
  BY DEF Change, PowerOff, OtaBegin
<1>2. o \in {"change", "end"}
  BY DEF Owners
<1>3. Len(Procedure(o)) = IF o = "change" \/ ~env.ota THEN 11 ELSE 9
  BY <1>1, <1>2 DEF Procedure
<1>4. Next1(o) = IF pos[o] = (IF o = "change" \/ ~env.ota THEN 11 ELSE 9) THEN 1 ELSE pos[o] + 1
  BY <1>3 DEF Next1
<1> QED
  BY <1>4 DEF StepTo, Placings

\* Where each step of an owner leads to.
LEMMA Leads ==
    ASSUME Placings, OwnerSteps
    PROVE  Placings'
<1>1. pos["change"] \in 1..11 /\ pos["end"] \in 1..11 /\ "change" \in Owners /\ "end" \in Owners
  BY DEF Placings, Owners
<1>2. ASSUME NEW o \in Owners, Done(o)
      PROVE  pos' \in [Owners -> 1..11] /\ (o = "end" /\ env.ota => pos'["end"] \in 1..9)
             /\ (o = "change" => pos'["end"] = pos["end"])
  <2>1. pos[o] \in 1..11 /\ (o = "end" /\ env.ota => pos["end"] \in 1..9)
    BY DEF Placings
  <2>2. o = "change" \/ o = "end"
    BY DEF Owners
  <2>3. Next1(o) \in 1..11 /\ (o = "end" /\ env.ota => Next1(o) \in 1..9)
    BY <2>1, <2>2, Moves
  <2> QED
    BY <1>1, <1>2, <2>2, <2>3, Moves DEF Done
<1>3. ASSUME NEW o \in Owners, StepTo(o, 1)
      PROVE  pos' \in [Owners -> 1..11] /\ (o = "end" => pos'["end"] \in 1..9)
             /\ (o = "change" => pos'["end"] = pos["end"])
  BY <1>1, <1>3, Moves DEF Owners
<1>4. CASE BeginChange \/ Resume \/ Open
  BY <1>1, <1>2, <1>4 DEF BeginChange, Resume, Open, Placings
<1>5. CASE Held
  <2>1. pos["change"] = 6
    BY <1>5, Steps DEF Held
  <2>2. PICK n \in {7, 10} : StepTo("change", n)
    BY <1>5, <2>1 DEF Held
  <2>3. n \in 1..11
    OBVIOUS
  <2>4. pos' \in [Owners -> 1..11] /\ pos'["end"] = pos["end"]
    BY <1>1, <2>2, <2>3, Moves DEF Owners
  <2> QED
    BY <1>5, <2>4 DEF Held, Placings
<1>6. CASE BeginEnd
  <2>1. pos' \in [Owners -> 1..11] /\ pos'["end"] = 2
    BY <1>1, <1>6, Moves DEF BeginEnd
  <2>2. env' \in [cut : BOOLEAN, ota : BOOLEAN, suspended : BOOLEAN, mainOk : BOOLEAN]
    BY <1>6 DEF BeginEnd, Placings
  <2> QED
    BY <1>6, <2>1, <2>2 DEF BeginEnd, Placings
<1>7. CASE PowerDown
  <2>1. Done("end") \/ StepTo("end", 1)
    BY <1>7 DEF PowerDown
  <2> QED
    BY <1>1, <1>2, <1>3, <1>7, <2>1 DEF PowerDown, Placings
<1>8. CASE Shut
  BY <1>1, <1>2, <1>8 DEF Shut, Placings
<1>9. CASE Boot
  <2>1. pos' \in [Owners -> 1..11] /\ life' = "free"
    BY <1>9 DEF Boot
  <2>2. env' \in [cut : BOOLEAN, ota : BOOLEAN, suspended : BOOLEAN, mainOk : BOOLEAN] /\ env'.ota = FALSE
    BY <1>9 DEF Boot, Placings
  <2> QED
    BY <2>1, <2>2 DEF Placings
<1>10. ASSUME NEW o \in Owners, Close(o) \/ Mark(o) \/ Quiet(o)
       PROVE  Placings'
  <2>1. Done(o) /\ life' \in Owners \cup {"free", "sensor"}
    BY <1>10 DEF Close, Mark, Quiet, Placings
  <2>2. env' \in [cut : BOOLEAN, ota : BOOLEAN, suspended : BOOLEAN, mainOk : BOOLEAN] /\ env'.ota = env.ota
    BY <1>10 DEF Close, Mark, Quiet, Placings
  <2> QED
    BY <1>2, <2>1, <2>2 DEF Placings, Owners
<1>11. ASSUME NEW o \in Owners, Abort(o)
       PROVE  Placings'
  <2>1. (Done(o) \/ StepTo(o, 1)) /\ life' \in Owners \cup {"free", "sensor"}
    BY <1>11 DEF Abort
  <2>2. env' \in [cut : BOOLEAN, ota : BOOLEAN, suspended : BOOLEAN, mainOk : BOOLEAN] /\ env'.ota = env.ota
    BY <1>11 DEF Abort, Placings
  <2> QED
    BY <1>2, <1>3, <2>1, <2>2 DEF Placings, Owners
<1> QED
  BY <1>4, <1>5, <1>6, <1>7, <1>8, <1>9, <1>10, <1>11 DEF OwnerSteps

\* What a start asks for, and where it cannot happen.
LEMMA NoStart ==
    ASSUME LeaseInv, Owned, ColdInv, [Next]_vars
    PROVE  /\ pos["change"] \in 4..10 => Inactive'
           /\ pos["end"] >= Aborted => Inactive'
           /\ heat.terminal => Inactive'
<1>1. Start => ~env.cut /\ ~env.ota /\ ~heat.terminal /\ obs.valid /\ ~env.suspended
  BY DEF Start, Admitted, Reservable, Fresh
<1>2. pos["change"] \in 4..10 => ~obs.valid \/ env.suspended
  <2>1. pos["change"] \in 4..10 => pos["change"] \in {3, 4} \/ pos["change"] \in 5..10
    OBVIOUS
  <2> QED
    BY <2>1 DEF ColdInv, ChangeHolds
<1>3. pos["end"] >= Aborted => env.cut \/ env.ota
  <2>1. pos["end"] \in 1..11
    BY DEF ColdInv, Placings, Owners
  <2> QED
    BY <2>1 DEF ColdInv, EndHolds, Aborted
<1>4. pos["change"] \in 4..10 \/ pos["end"] >= Aborted \/ heat.terminal => Inactive
  BY DEF ColdInv, ChangeHolds, EndHolds
<1> QED
  BY <1>1, <1>2, <1>3, <1>4, OnlyAStart

LEMMA ColdInit == Init => ColdInv
<1> SUFFICES ASSUME Init
             PROVE  ColdInv
  OBVIOUS
<1>1. Placings
  BY DEF Init, Placings
<1>2. pos["change"] = 1 /\ pos["end"] = 1
  BY DEF Init, Owners
<1>3. Locking
  BY <1>1, <1>2, Steps DEF Init, Locking, Waiting, Owners
<1>4. ChangeHolds /\ EndHolds
  BY <1>2 DEF Init, ChangeHolds, EndHolds, Aborted, Idle, Inactive, Active
<1> QED
  BY <1>1, <1>3, <1>4 DEF ColdInv

\* A step of nobody but the owners keeps what they rely on.
LEMMA ColdOutside ==
    ASSUME LeaseInv, Owned, ColdInv, Next, Outside
    PROVE  ColdInv'
<1>1. \A o \in Owners : Doing(o, "abort")' <=> Doing(o, "abort")
  BY DEF Doing, Procedure, Outside
<1>2. Placings'
  BY DEF ColdInv, Placings, Outside
<1>3. Locking'
  BY <1>1 DEF ColdInv, Locking, Outside, Owners
<1>4. pos["change"] \in 1..11 /\ pos["end"] \in 1..11
  BY DEF ColdInv, Placings, Owners
<1>5. pos["change"] = 3 => life = "change"
  BY Steps DEF ColdInv, Locking, Owners
<1>6. pos["change"] = 4 => Doing("change", "mark")
  BY Steps DEF ColdInv
<1>7. ChangeHolds'
  BY <1>5, <1>6, NoStart DEF ColdInv, ChangeHolds, Outside
<1>8. heat'.terminal => heat.terminal \/ PowerDown
  BY OnlyAStart
<1>9. ~PowerDown
  <2>1. \A n \in 1..11 : pos["end"] = n => ~(StepTo("end", n + 1) \/ (n > 1 /\ StepTo("end", 1)))
    BY <1>4 DEF Outside, StepTo, ColdInv, Placings, Owners
  <2>2. PowerDown => pos["end"] \in {2, 10} /\ ~env.ota
    BY Steps DEF PowerDown, ColdInv
  <2>3. PowerDown => StepTo("end", pos["end"] + 1) \/ StepTo("end", 1)
    BY <2>2, Moves DEF PowerDown, Done, ColdInv, Owners
  <2> QED
    BY <2>1, <2>2, <2>3
<1>10. EndHolds'
  BY <1>8, <1>9, NoStart DEF ColdInv, EndHolds, Outside, Aborted
<1> QED
  BY <1>2, <1>3, <1>7, <1>10 DEF ColdInv

\* A change behind its suspension, and an owner that ends, each for itself.
LEMMA ColdOwners ==
    ASSUME LeaseInv, Owned, ColdInv, OwnerSteps
    PROVE  ColdInv'
<1>1. /\ pos["change"] \in 1..11 /\ pos["end"] \in 1..11 /\ (env.ota => pos["end"] \in 1..9)
      /\ "change" \in Owners /\ "end" \in Owners /\ Placings /\ heat \in Heats /\ obs \in Readings
  BY DEF ColdInv, Placings, Owners, Owned, LeaseInv, Typed
<1>2. Placings' /\ Next
  BY <1>1, Leads DEF Next
<1>3. /\ pos["change"] \in 4..10 => Inactive'
      /\ pos["end"] >= Aborted => Inactive'
      /\ heat.terminal => Inactive'
      /\ heat'.terminal => heat.terminal \/ PowerDown
  BY <1>2, NoStart, OnlyAStart
<1>4. /\ Done("change") => /\ pos'["end"] = pos["end"]
                           /\ pos'["change"] = IF pos["change"] = 11 THEN 1 ELSE pos["change"] + 1
      /\ Done("end") => /\ pos'["change"] = pos["change"]
                        /\ pos'["end"] = IF pos["end"] = (IF env.ota THEN 9 ELSE 11) THEN 1 ELSE pos["end"] + 1
  <2>1. ASSUME NEW o \in Owners, Done(o)
        PROVE  pos'[o] = Next1(o) /\ \A p \in Owners \ {o} : pos'[p] = pos[p]
    <3>1. Next1(o) \in 1..11
      BY <1>1, Moves DEF Owners
    <3> QED
      BY <1>1, <2>1, <3>1, Moves DEF Done
  <2> QED
    BY <1>1, <2>1, Moves DEF Owners
<1>5. /\ \A n \in 1..11 : StepTo("change", n) => pos'["change"] = n /\ pos'["end"] = pos["end"]
      /\ \A n \in 1..11 : StepTo("end", n) => pos'["end"] = n /\ pos'["change"] = pos["change"]
  BY <1>1, Moves DEF Owners
\* an owner is at an abort
<1>6. /\ Doing("change", "abort") <=> pos["change"] \in {3, 8}
      /\ Doing("end", "abort") <=> pos["end"] \in (IF env.ota THEN {3, 8} ELSE {4, 9})
  BY <1>1, Steps
<1>7. /\ Doing("change", "abort")' <=> pos'["change"] \in {3, 8}
      /\ Doing("end", "abort")' <=> pos'["end"] \in (IF env'.ota THEN {3, 8} ELSE {4, 9})
  <2>1. /\ pos'["change"] \in 1..11 /\ pos'["end"] \in 1..11 /\ (env'.ota => pos'["end"] \in 1..9)
    BY <1>2 DEF Placings, Owners
  <2>2. Doing("change", "abort")' <=> Change[pos'["change"]] = "abort"
    BY DEF Doing, Procedure
  <2>3. Doing("end", "abort")' <=> (IF env'.ota THEN OtaBegin ELSE PowerOff)[pos'["end"]] = "abort"
    BY DEF Doing, Procedure
  <2> QED
    BY <2>1, <2>2, <2>3 DEF Change, OtaBegin, PowerOff
<1>8. CASE BeginChange
  <2>1. pos["change"] = 1 /\ pos'["change"] = 2 /\ pos'["end"] = pos["end"]
    BY <1>1, <1>4, <1>8, Steps DEF BeginChange
  <2> QED
    BY <1>2, <1>3, <1>6, <1>7, <1>8, <2>1 DEF BeginChange, ColdInv, Locking, ChangeHolds, EndHolds, Aborted, Owners, Inactive
<1>9. CASE Held
  <2>1. pos["change"] = 6
    BY <1>1, <1>9, Steps DEF Held
  <2>2. pos'["change"] \in {7, 10} /\ pos'["end"] = pos["end"]
    BY <1>5, <1>9, <2>1 DEF Held
  <2> QED
    BY <1>2, <1>3, <1>6, <1>7, <1>9, <2>1, <2>2 DEF Held, ColdInv, Locking, ChangeHolds, EndHolds, Aborted, Owners, Inactive
<1>10. CASE Resume
  <2>1. pos["change"] = 10 /\ pos'["change"] = 11 /\ pos'["end"] = pos["end"]
    BY <1>1, <1>4, <1>10, Steps DEF Resume
  <2>2. env'.ota = env.ota /\ env'.cut = env.cut
    BY <1>1, <1>10 DEF Resume, Placings
  <2> QED
    BY <1>2, <1>3, <1>6, <1>7, <1>10, <2>1, <2>2 DEF Resume, ColdInv, Locking, ChangeHolds, EndHolds, Aborted, Owners, Inactive
<1>11. CASE Open
  <2>1. pos["change"] \in {9, 11} /\ pos'["change"] = (IF pos["change"] = 9 THEN 10 ELSE 1)
        /\ pos'["end"] = pos["end"]
    BY <1>1, <1>4, <1>11, Steps DEF Open
  <2>2. sensor'.at = sensor.at
    BY <1>11 DEF Open, LeaseInv, Typed, Sensors
  <2> QED
    BY <1>2, <1>3, <1>6, <1>7, <1>11, <2>1, <2>2 DEF Open, ColdInv, Locking, ChangeHolds, EndHolds, Aborted, Owners, Inactive
<1>12. CASE BeginEnd
  <2>1. pos["end"] = 1 /\ pos'["end"] = 2 /\ pos'["change"] = pos["change"]
    BY <1>1, <1>5, <1>12, Steps DEF BeginEnd
  <2>2. (env'.cut \/ env'.ota) /\ env'.suspended = env.suspended /\ (env.cut => env'.cut)
    BY <1>1, <1>12 DEF BeginEnd, Placings
  <2> QED
    BY <1>2, <1>3, <1>6, <1>7, <1>12, <2>1, <2>2 DEF BeginEnd, ColdInv, Locking, ChangeHolds, EndHolds, Aborted, Owners, Inactive
<1>13. CASE PowerDown
  <2>1. pos["end"] \in {2, 10} /\ ~env.ota /\ env.cut
    BY <1>1, <1>13, Steps DEF PowerDown, ColdInv, EndHolds
  <2>2. pos'["end"] \in {1, pos["end"] + 1} /\ pos'["change"] = pos["change"]
    BY <1>4, <1>5, <1>13, <2>1 DEF PowerDown
  <2>3. Inactive'
    <3>1. PICK ok \in Offs : Finish(PowerAborted(heat), ok)
      BY <1>13 DEF PowerDown
    <3>2. PowerAborted(heat) \in Heats /\ ok \in BOOLEAN
      BY <1>1 DEF PowerAborted, Heats, Offs
    <3> QED
      BY <3>1, <3>2, FinishRests DEF Inactive
  <2> QED
    BY <1>2, <1>3, <1>6, <1>7, <1>13, <2>1, <2>2, <2>3 DEF PowerDown, ColdInv, Locking, ChangeHolds, EndHolds, Aborted, Owners
<1>14. CASE Shut
  <2>1. pos["end"] = (IF env.ota THEN 6 ELSE 7) /\ pos'["end"] = pos["end"] + 1 /\ pos'["change"] = pos["change"]
    BY <1>1, <1>4, <1>14, Steps DEF Shut
  <2>2. env'.ota = env.ota /\ env'.cut = env.cut /\ env'.suspended = env.suspended
    BY <1>1, <1>14 DEF Shut, Placings
  <2> QED
    BY <1>1, <1>2, <1>3, <1>6, <1>7, <1>14, <2>1, <2>2 DEF Shut, ColdInv, Locking, ChangeHolds, EndHolds, Aborted, Owners, Inactive
<1>15. CASE Boot
  <2>1. pos'["end"] = 1 /\ pos'["change"] = 1 /\ sensor'.at = "idle" /\ heat'.terminal = FALSE
    BY <1>1, <1>15 DEF Boot, Waiting, Idle
  <2> QED
    BY <1>2, <1>7, <2>1 DEF ColdInv, Locking, ChangeHolds, EndHolds, Aborted, Owners
<1>16. ASSUME NEW o \in Owners, Close(o)
       PROVE  ColdInv'
  <2>1. sensor'.at = sensor.at /\ obs'.enabled = FALSE /\ obs'.valid = FALSE
    BY <1>16 DEF Close, LeaseInv, Typed, Sensors, NoReading
  <2>2. CASE o = "change"
    <3>1. pos["change"] \in {2, 7} /\ pos'["change"] = pos["change"] + 1 /\ pos'["end"] = pos["end"]
      BY <1>1, <1>4, <1>16, <2>2, Steps DEF Close
    <3> QED
      BY <1>2, <1>3, <1>6, <1>7, <1>16, <2>1, <2>2, <3>1 DEF Close, ColdInv, Locking, ChangeHolds, EndHolds, Aborted, Owners, Inactive
  <2>3. CASE o = "end"
    <3>1. pos["end"] \in (IF env.ota THEN {2, 7} ELSE {3, 8}) /\ pos'["end"] = pos["end"] + 1
          /\ pos'["change"] = pos["change"]
      BY <1>1, <1>4, <1>16, <2>3, Steps DEF Close
    <3> QED
      BY <1>2, <1>3, <1>6, <1>7, <1>16, <2>1, <2>3, <3>1 DEF Close, ColdInv, Locking, ChangeHolds, EndHolds, Aborted, Owners, Inactive
  <2> QED
    BY <2>2, <2>3 DEF Owners
<1>17. ASSUME NEW o \in Owners, Abort(o)
       PROVE  ColdInv'
  <2>1. Inactive' /\ heat'.terminal = heat.terminal
    <3>1. PICK ok \in Offs : Finish([heat EXCEPT !.ready = FALSE], ok)
      BY <1>17 DEF Abort
    <3>2. /\ [heat EXCEPT !.ready = FALSE] \in Heats /\ ok \in BOOLEAN
          /\ [heat EXCEPT !.ready = FALSE].terminal = heat.terminal
      BY <1>1 DEF Heats, Offs
    <3> QED
      BY <3>1, <3>2, FinishRests DEF Inactive
  <2>2. env'.ota = env.ota /\ env'.cut = env.cut /\ env'.suspended = env.suspended
    BY <1>1, <1>17 DEF Abort, Placings
  <2>3. Doing(o, "abort") /\ life = o /\ life' = "free" /\ sensor'.at # "reject" /\ obs' = obs
    BY <1>17 DEF Abort, ColdInv, Locking, Owners
  <2>4. CASE o = "change"
    <3>1. pos["change"] \in {3, 8} /\ pos'["change"] \in {1, pos["change"] + 1} /\ pos'["end"] = pos["end"]
      BY <1>4, <1>5, <1>6, <1>17, <2>3, <2>4 DEF Abort
    <3>2. pos["end"] \notin (IF env.ota THEN {3, 8} ELSE {4, 9})
      BY <1>1, <1>6, <2>3, <2>4 DEF ColdInv, Locking
    <3> QED
      BY <1>2, <1>3, <1>6, <1>7, <2>1, <2>2, <2>3, <2>4, <3>1, <3>2 DEF ColdInv, Locking, ChangeHolds, EndHolds, Aborted, Owners
  <2>5. CASE o = "end"
    <3>1. pos["end"] \in (IF env.ota THEN {3, 8} ELSE {4, 9}) /\ pos'["end"] \in {1, pos["end"] + 1}
          /\ pos'["change"] = pos["change"]
      BY <1>4, <1>5, <1>6, <1>17, <2>3, <2>5 DEF Abort
    <3>2. pos["change"] \notin {3, 8}
      BY <1>1, <1>6, <2>3, <2>5 DEF ColdInv, Locking
    <3> QED
      BY <1>1, <1>2, <1>3, <1>6, <1>7, <2>1, <2>2, <2>3, <2>5, <3>1, <3>2 DEF ColdInv, Locking, ChangeHolds, EndHolds, Aborted, Owners
  <2> QED
    BY <2>4, <2>5 DEF Owners
<1>18. ASSUME NEW o \in Owners, Mark(o) \/ Quiet(o)
       PROVE  ColdInv'
  <2>1. /\ env'.ota = env.ota /\ env'.cut = env.cut /\ (env.suspended => env'.suspended)
        /\ (Doing(o, "mark") => env'.suspended)
    BY <1>1, <1>18, Steps DEF Mark, Quiet, Placings, Doing
  <2>2. CASE o = "change"
    <3>1. /\ pos["change"] \in {4, 5} /\ pos'["change"] = pos["change"] + 1 /\ pos'["end"] = pos["end"]
          /\ pos["change"] = 4 => Doing(o, "mark")
      BY <1>1, <1>4, <1>18, <2>2, Steps DEF Mark, Quiet
    <3> QED
      BY <1>2, <1>3, <1>6, <1>7, <1>18, <2>1, <2>2, <3>1 DEF Mark, Quiet, ColdInv, Locking, ChangeHolds, EndHolds, Aborted, Owners, Inactive
  <2>3. CASE o = "end"
    <3>1. pos["end"] \in (IF env.ota THEN {4, 5} ELSE {5, 6}) /\ pos'["end"] = pos["end"] + 1
          /\ pos'["change"] = pos["change"]
      BY <1>1, <1>4, <1>18, <2>3, Steps DEF Mark, Quiet
    <3> QED
      BY <1>2, <1>3, <1>6, <1>7, <1>18, <2>1, <2>3, <3>1 DEF Mark, Quiet, ColdInv, Locking, ChangeHolds, EndHolds, Aborted, Owners, Inactive
  <2> QED
    BY <2>2, <2>3 DEF Owners
<1> QED
  BY <1>8, <1>9, <1>10, <1>11, <1>12, <1>13, <1>14, <1>15, <1>16, <1>17, <1>18 DEF OwnerSteps

\* Whatever the lease: an owner behind its suspension works without heat,
\* also when the other one resumes the sensor thread meanwhile, and a latch of
\* the power owner that has aborted the session stands until the next boot.
THEOREM HeldIsCold == Spec => []ColdWhenHeld
<1>1. Owned /\ ColdInv => ColdWhenHeld
  <2> SUFFICES ASSUME Owned, ColdInv
               PROVE  ColdWhenHeld
    OBVIOUS
  <2>1. pos["change"] \in 1..11 /\ pos["end"] \in 1..11 /\ Placings
    BY DEF ColdInv, Placings, Owners
  <2>2. Holds("change") => Inactive
    <3>1. Holds("change") => pos["change"] \in 6..10
      BY DEF Holds
    <3> QED
      BY <3>1 DEF ColdInv, ChangeHolds
  <2>3. Holds("end") => Inactive
    <3> SUFFICES ASSUME NEW n \in 1..(pos["end"] - 1), Procedure("end")[n] = "quiet"
                 PROVE  pos["end"] >= Aborted
      BY DEF Holds, ColdInv, EndHolds
    <3>1. n \in 1..10 /\ (env.ota => n \in 1..8) /\ n < pos["end"]
      BY <2>1 DEF Placings
    <3>2. n >= (IF env.ota THEN 5 ELSE 6)
      BY <3>1 DEF Procedure, OtaBegin, PowerOff
    <3> QED
      BY <2>1, <3>1, <3>2 DEF Aborted
  <2>4. env.cut /\ heat.terminal => Inactive
    BY DEF ColdInv, EndHolds
  <2>5. Inactive => ~pwm
    BY DEF Owned, Inactive, Active
  <2> QED
    BY <2>2, <2>3, <2>4, <2>5 DEF ColdWhenHeld, Inactive, Owners
<1>2. LeaseInv /\ Owned /\ ColdInv /\ [Next]_vars => ColdInv'
  <2>1. CASE UNCHANGED vars
    BY <2>1 DEF vars, ColdInv, Placings, Locking, ChangeHolds, EndHolds, Aborted, Inactive, Doing, Procedure
  <2> QED
    BY <2>1, OwnersStay, ColdOutside, ColdOwners
<1> QED
  BY <1>1, <1>2, LeaseInit, LeaseNext, OwnedInit, OwnedNext, ColdInit, PTL DEF Spec

=============================================================================
