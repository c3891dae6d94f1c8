------------------------------ MODULE Heater ------------------------------
(* The heated temperature calibration: the lease that keeps the PWM from    *)
(* outliving its owner (heater.c), the session and its controller           *)
(* (tcal_heated.c), the temperature it trusts (sensor.c), the worker that   *)
(* ends a session, and the owners that stop the sensor thread: a            *)
(* magnetometer change, an update and the power owner.                      *)
(*                                                                          *)
(* calibration_request_lock serializes everything but time: other threads'  *)
(* operations are one step, the sensor thread's write is five, because the  *)
(* timer runs on between them. heater_lock is only taken under it.          *)
EXTENDS Integers, Sequences

CONSTANTS
    Lease,      \* HEATER_HW_LEASE_MS and HEAT_FRESH_MS, in ticks
    Control     \* HEAT_CONTROL_MS, in ticks

ASSUME LeaseAssumption ==
    /\ Lease \in Nat \ {0}
    /\ Control \in 1..Lease

VARIABLES
    heat,       \* the session: state, ready, resetting, terminal, control
                \* (age of control_ms), over (past its time limit), duty
    hw,         \* the lease: fatal, armed, expired, proof (age of the last
                \* admitted sample), and TIMER4: on, count, cc0, ev (sticky)
    pwm,        \* the output is driven
    alone,      \* ticks since the CPU last renewed or drove the output
    obs,        \* temperature_observation
    sensor,     \* where the sensor thread is, the acquisition it has in hand
                \* (current, age) and the write (want, drive, next)
    pos,        \* where each owner is in its procedure
    life,       \* who holds temperature_lifecycle_lock
    env,        \* cut (heater_power_terminal), ota, suspended, mainOk
    slot,       \* requested_calibration: free, or taken by this session; other
                \* takers only refuse a start
    fin         \* the worker between its two looks at the session

vars == <<heat, hw, pwm, alone, obs, sensor, pos, life, env, slot, fin>>

Active == {"reserved", "running", "finalizing"}
Busy(h) == h.state \in Active \cup {"off_failed"}

Idle == [state |-> "idle", ready |-> FALSE, resetting |-> FALSE, terminal |-> FALSE,
         control |-> 0, over |-> FALSE, duty |-> FALSE]
Disarmed == [fatal |-> FALSE, armed |-> FALSE, expired |-> FALSE, proof |-> 0,
             on |-> FALSE, count |-> 0, cc0 |-> Lease, ev |-> FALSE]
NoReading == [enabled |-> FALSE, valid |-> FALSE, age |-> 0, hot |-> FALSE, new |-> FALSE]
Waiting == [at |-> "idle", current |-> FALSE, age |-> 0, want |-> 0, drive |-> FALSE, next |-> "idle"]

At(where) == [Waiting EXCEPT !.at = where]
Writing == sensor.at \in {"set", "check", "drive", "verify"}

\* mutant: a stop does not wait for the lock
Ungated == TRUE

\* calibration_request_lock is free
Gate == ~Writing

-----------------------------------------------------------------------------
(* TIMER4 counts on its own: at CC0 or at the fixed backstop CC1 it stops   *)
(* the PWM, sets its event and starts again from zero.                      *)

Older(n) == IF n > Lease THEN n ELSE n + 1

\* mutant: no backstop behind CC0
CompareOnce == {hw.cc0}

Compares == {hw.cc0, Lease}
Fires == hw.on /\ hw.count + 1 \in Compares
Counted == IF Fires \/ ~hw.on THEN 0 ELSE hw.count + 1

Tick ==
    /\ hw' = [hw EXCEPT !.count = Counted, !.ev = @ \/ Fires,
                        !.proof = IF hw.armed THEN Older(@) ELSE 0]
    /\ pwm' = (pwm /\ ~Fires)
    /\ alone' = IF pwm' THEN Older(alone) ELSE 0
    /\ obs' = IF obs.valid THEN [obs EXCEPT !.age = Older(@)] ELSE obs
    /\ sensor' = IF sensor.at = "read" THEN [sensor EXCEPT !.age = Older(@)] ELSE sensor
    /\ heat' = IF heat.state \in {"reserved", "running"}
               THEN [heat EXCEPT !.control = Older(@)] ELSE heat
    /\ UNCHANGED <<pos, life, env, slot, fin>>

\* The time limit of the session passes, or its external power goes. Without
\* external power a start is refused.
TimeOut ==
    /\ heat.state \in Active /\ ~heat.over
    /\ heat' = [heat EXCEPT !.over = TRUE]
    /\ UNCHANGED <<hw, pwm, alone, obs, sensor, pos, life, env, slot, fin>>

\* check_expired
Expired == hw.expired \/ (hw.armed /\ (hw.ev \/ hw.proof >= Lease))

\* off_locked succeeds, or the PWM fails to stop; a failure is for ever
Offs == IF hw.fatal THEN {FALSE} ELSE BOOLEAN

\* An emergency keeps the timer running.
OffHw(ok) ==
    [hw EXCEPT !.expired = Expired, !.armed = FALSE, !.proof = 0, !.fatal = ~ok,
               !.on = @ /\ ~ok, !.count = IF ok THEN 0 ELSE @,
               !.cc0 = IF ok THEN Lease ELSE @, !.ev = @ /\ ~ok]

Cold == pwm' = FALSE /\ alone' = 0

-----------------------------------------------------------------------------
(* The session. Finish is finish_locked: the hardware first, then the       *)
(* session; only a confirmed off gives the calibration slot back.           *)

\* mutant: the slot is given back whether or not the off succeeded
KeptNever(ok) == "free"

Kept(ok) == IF ok THEN "free" ELSE slot
Ended(h, ok) ==
    [h EXCEPT !.state = IF ok THEN "finished" ELSE "off_failed",
              !.control = 0, !.over = FALSE, !.duty = FALSE]

Finish(h, ok) ==
    /\ hw' = OffHw(ok) /\ Cold
    /\ heat' = IF Busy(h) THEN Ended(h, ok) ELSE h
    /\ slot' = IF Busy(h) THEN Kept(ok) ELSE slot
    /\ fin' = IF Busy(h) /\ fin = "wait" THEN "late" ELSE fin

\* the output is off and the session waits for the worker
Freeze(h, ok) ==
    \/ ok /\ hw' = OffHw(TRUE) /\ Cold
          /\ heat' = [h EXCEPT !.state = "finalizing", !.duty = FALSE, !.control = 0]
          /\ UNCHANGED <<slot, fin>>
    \/ ~ok /\ Finish(h, FALSE)

Fresh == obs.valid /\ obs.age <= Lease

\* check_locked; "hot" stands for every verdict on the temperatures themselves
MustStop(h) ==
    \/ env.ota \/ env.cut
    \/ Expired \/ hw.fatal
    \/ ~Fresh \/ obs.hot
    \/ h.over
    \/ h.state \in {"reserved", "running"} /\ h.control >= Lease

\* the conditions of sensor_tcal_heated_start
Admitted ==
    /\ ~heat.terminal /\ ~env.cut
    /\ ~heat.resetting /\ ~Busy(heat) /\ ~env.ota
    /\ heat.ready /\ ~hw.fatal
    /\ Fresh /\ ~obs.hot

\* sensor_calibration_heated_reserve_locked
Reservable == slot = "free" /\ ~env.suspended /\ env.mainOk

Armed == [Disarmed EXCEPT !.armed = TRUE, !.on = TRUE]

Start ==
    /\ Gate /\ Admitted /\ Reservable
    /\ LET h == [heat EXCEPT !.state = "reserved", !.control = 0, !.over = FALSE, !.duty = FALSE]
       IN  \/ hw' = Armed /\ Cold /\ heat' = h /\ slot' = "heated" /\ UNCHANGED fin
           \/ \E ok \in Offs :
                /\ hw' = OffHw(ok) /\ Cold
                /\ heat' = Ended(h, ok)
                /\ slot' = IF ok THEN "free" ELSE "heated"
                /\ UNCHANGED fin
    /\ obs' = [obs EXCEPT !.new = FALSE]
    /\ UNCHANGED <<sensor, pos, life, env>>

Stop ==
    /\ Gate
    /\ \E ok \in Offs :
         \/ Finish(heat, ok)
         \/ /\ heat.state \in {"running", "finalizing"} /\ ~MustStop(heat)
            /\ Freeze(heat, ok)
    /\ UNCHANGED <<obs, sensor, pos, life, env>>

\* sensor_tcal_heated_abort of the power owner
PowerAborted(h) == [h EXCEPT !.ready = FALSE, !.terminal = TRUE]

\* sensor_tcal_heated_clear_begin and _end, around an erase of the settings
ClearBegin ==
    /\ Gate /\ ~heat.resetting
    /\ \E ok \in Offs : Finish([heat EXCEPT !.resetting = TRUE, !.ready = FALSE], ok)
    /\ UNCHANGED <<obs, sensor, pos, life, env>>

ClearEnd ==
    /\ Gate /\ heat.resetting
    /\ heat' = [heat EXCEPT !.resetting = FALSE]
    /\ UNCHANGED <<hw, pwm, alone, obs, sensor, pos, life, env, slot, fin>>

-----------------------------------------------------------------------------
(* The worker polls the session, and publishes a frozen one after it has    *)
(* waited for the store.                                                    *)

\* mutant: a session the sensor thread has not taken over is not polled
PolledRunning == {"running"}

Polled == {"reserved", "running"}

Poll ==
    /\ Gate /\ fin = "no"
    /\ \/ /\ heat.state \in Polled /\ MustStop(heat)
          /\ \E ok \in Offs : Finish(heat, ok)
       \/ /\ heat.state = "finalizing" /\ fin' = "wait"
          /\ UNCHANGED <<heat, hw, pwm, alone, slot>>
    /\ UNCHANGED <<obs, sensor, pos, life, env>>

Unpublishable == fin = "late" \/ heat.state # "finalizing" \/ heat.resetting \/ heat.terminal

Finalize ==
    /\ Gate /\ fin # "no"
    /\ fin' = "no"
    /\ \/ Unpublishable /\ UNCHANGED <<heat, hw, pwm, alone, slot>>
       \/ /\ ~Unpublishable              \* stopped, or not enough of it
          /\ \E ok \in Offs :
               /\ hw' = OffHw(ok) /\ Cold
               /\ heat' = Ended(heat, ok) /\ slot' = Kept(ok)
       \/ /\ ~Unpublishable /\ ~MustStop(heat) /\ heat.ready
          /\ heat' = Ended(heat, TRUE) /\ slot' = Kept(TRUE)
          /\ UNCHANGED <<hw, pwm, alone>>
    /\ UNCHANGED <<obs, sensor, pos, life, env>>

-----------------------------------------------------------------------------
(* The sensor thread: past the suspension check, an update of the heater,   *)
(* an acquisition, its temperature, the updates after it.                   *)

Wake ==
    /\ sensor.at = "idle" /\ ~env.suspended /\ env.mainOk
    /\ sensor' = At("go")
    /\ UNCHANGED <<heat, hw, pwm, alone, obs, pos, life, env, slot, fin>>

Go ==
    /\ sensor.at = "go"
    /\ sensor' = At("first")
    /\ UNCHANGED <<heat, hw, pwm, alone, obs, pos, life, env, slot, fin>>

\* after the first update the thread applies what calibration has for it
After == IF sensor.at = "first" THEN "apply" ELSE "idle"
Acquiring == [Waiting EXCEPT !.at = "read", !.current = TRUE]
MoveOn == sensor' = At(After)

\* a session is taken over by the thread the first time it looks
Synced == IF heat.state = "reserved" THEN [heat EXCEPT !.state = "running"] ELSE heat
Updating == sensor.at \in {"first", "second"}

UpdateNothing ==
    /\ Updating /\ Synced.state \notin {"running", "finalizing"}
    /\ MoveOn
    /\ UNCHANGED <<heat, hw, pwm, alone, obs, pos, life, env, slot, fin>>

UpdateStops ==
    /\ Updating /\ Synced.state \in {"running", "finalizing"} /\ MustStop(Synced)
    /\ \E ok \in Offs : Finish(Synced, ok)
    /\ MoveOn
    /\ UNCHANGED <<obs, pos, life, env>>

UpdateHolds ==
    /\ Updating /\ Synced.state = "finalizing" /\ ~MustStop(Synced)
    /\ MoveOn
    /\ UNCHANGED <<heat, hw, pwm, alone, obs, pos, life, env, slot, fin>>

Due == obs.new /\ heat.control >= Control

\* no new command; the target may have been held long enough
UpdateKeeps ==
    /\ Updating /\ Synced.state = "running" /\ ~MustStop(Synced) /\ ~Due
    /\ \/ heat' = Synced /\ UNCHANGED <<hw, pwm, alone, slot, fin>>
       \/ \E ok \in Offs : Freeze(Synced, ok)
    /\ obs' = [obs EXCEPT !.new = FALSE]
    /\ MoveOn
    /\ UNCHANGED <<pos, life, env>>

Deadline(age) == Lease - age
Renewed == [hw EXCEPT !.proof = obs.age, !.count = 0]

\* The first half of heater_hw_write: a command is due, or the rise was too
\* steep and the output must drop at once. The deadline is the sample's, the
\* counter restarts, CC0 is still the old one.
UpdateWrites ==
    /\ Updating /\ Synced.state = "running" /\ ~MustStop(Synced) /\ obs.new
    /\ \E drive \in BOOLEAN :
         /\ Due \/ (heat.duty /\ ~drive)
         /\ obs.age < Lease /\ hw.armed
         /\ heat' = [Synced EXCEPT !.duty = drive, !.control = IF Due THEN 0 ELSE @]
         /\ sensor' = [Waiting EXCEPT !.at = "set", !.want = Deadline(obs.age), !.drive = drive, !.next = After]
    /\ hw' = Renewed
    /\ alone' = 0
    /\ obs' = [obs EXCEPT !.new = FALSE]
    /\ UNCHANGED <<pwm, pos, life, env, slot, fin>>

\* the write is refused: a sample at its limit, a PWM that is not active
UpdateRefused ==
    /\ Updating /\ Synced.state = "running" /\ ~MustStop(Synced) /\ obs.new
    /\ Due \/ heat.duty
    /\ \E ok \in Offs : Finish(Synced, ok)
    /\ obs' = [obs EXCEPT !.new = FALSE]
    /\ MoveOn
    /\ UNCHANGED <<pos, life, env>>

SetLease ==
    /\ sensor.at = "set"
    /\ hw' = [hw EXCEPT !.cc0 = sensor.want]
    /\ sensor' = [sensor EXCEPT !.at = "check"]
    /\ UNCHANGED <<heat, pwm, alone, obs, pos, life, env, slot, fin>>

\* the last look at the lease before the output is driven
Check ==
    /\ sensor.at = "check" /\ ~Expired
    /\ sensor' = [sensor EXCEPT !.at = "drive"]
    /\ UNCHANGED <<heat, hw, pwm, alone, obs, pos, life, env, slot, fin>>

\* The timer may have fired since that look: a late restart of the output,
\* which the next compare ends.
Drive ==
    /\ sensor.at = "drive"
    /\ pwm' = sensor.drive /\ alone' = 0
    /\ sensor' = [sensor EXCEPT !.at = "verify"]
    /\ UNCHANGED <<heat, hw, obs, pos, life, env, slot, fin>>

\* the lease ran out under the write, or the PWM driver reports an error
WriteFails ==
    /\ Writing
    /\ \/ sensor.at # "drive" /\ Expired /\ (\E ok \in Offs : Finish(heat, ok))
       \/ (sensor.at = "drive" \/ (sensor.at = "verify" /\ ~sensor.drive)) /\ Finish(heat, FALSE)
    /\ sensor' = At(sensor.next)
    /\ UNCHANGED <<obs, pos, life, env>>

Written ==
    /\ sensor.at = "verify" /\ ~Expired
    /\ \/ UNCHANGED <<heat, hw, pwm, alone, slot, fin>>
       \/ \E ok \in Offs : Freeze(heat, ok)
    /\ sensor' = At(sensor.next)
    /\ UNCHANGED <<obs, pos, life, env>>

\* mutant: a closed temperature or one of an earlier epoch is published
AcceptedAnyway == env.mainOk /\ ~env.suspended

\* sensor_temperature_publish and sensor_tcal_heated_set_ready(true)
Accepted == obs.enabled /\ sensor.current /\ env.mainOk /\ ~env.suspended
Reopened(h) ==
    LET terminal == h.terminal /\ env.cut
    IN  [h EXCEPT !.terminal = terminal, !.ready = ~h.resetting /\ ~terminal /\ ~env.cut]

Publish ==
    /\ sensor.at = "read" /\ life = "free"
    /\ \E hot \in BOOLEAN :
         obs' = IF Accepted
                THEN [obs EXCEPT !.valid = TRUE, !.age = sensor.age, !.hot = hot, !.new = TRUE]
                ELSE obs
    /\ heat' = IF Accepted /\ ~env.cut /\ ~env.ota THEN Reopened(heat) ELSE heat
    /\ sensor' = At("second")
    /\ UNCHANGED <<hw, pwm, alone, pos, life, env, slot, fin>>

\* a temperature that cannot be used: abort, then set_ready(false)
Reject ==
    /\ sensor.at = "read" /\ life = "free"
    /\ obs' = [NoReading EXCEPT !.enabled = obs.enabled]
    /\ \E ok \in Offs : Finish(heat, ok)
    /\ life' = "sensor" /\ sensor' = At("reject")
    /\ UNCHANGED <<pos, env>>

Unready ==
    /\ sensor.at = "reject"
    /\ \E ok \in Offs : Finish([heat EXCEPT !.ready = FALSE], ok)
    /\ life' = "free" /\ sensor' = At("second")
    /\ UNCHANGED <<obs, pos, env>>

-----------------------------------------------------------------------------
(* The owners: a change suspends the sensor thread, restarts fusion and     *)
(* resumes; the power owner and an update suspend it and shut it down.      *)

Owners == {"change", "end"}
Change == <<"begin", "close", "abort", "mark", "quiet", "held", "close", "abort", "open", "resume", "open">>
PowerOff == <<"begin", "powerdown", "close", "abort", "mark", "quiet", "shut", "close", "abort", "powerdown", "down">>
OtaBegin == <<"begin", "close", "abort", "mark", "quiet", "shut", "close", "abort", "down">>
Procedure(o) == IF o = "change" THEN Change ELSE IF env.ota THEN OtaBegin ELSE PowerOff

Doing(o, step) == Procedure(o)[pos[o]] = step
Next1(o) == IF pos[o] = Len(Procedure(o)) THEN 1 ELSE pos[o] + 1
StepTo(o, n) == pos' = [pos EXCEPT ![o] = n]
Done(o) == StepTo(o, Next1(o))

\* a calibration frame is applied; a fusion reset closes and reopens the
\* temperature around it. The threads that change the magnetometer have the
\* higher priority: this cannot run between their abort and their mark.
Apply ==
    /\ sensor.at = "apply"
    /\ \/ UNCHANGED <<heat, hw, pwm, alone, obs, slot, fin>>
       \/ /\ life = "free" /\ ~Doing("change", "mark")
          /\ \E ok \in Offs :
               /\ Finish([heat EXCEPT !.ready = FALSE], ok)
               /\ obs' = [NoReading EXCEPT !.enabled = ok /\ env.mainOk /\ ~env.suspended]
    /\ sensor' = Acquiring
    /\ UNCHANGED <<pos, life, env>>

BeginChange ==
    /\ Doing("change", "begin") /\ Done("change")
    /\ UNCHANGED <<heat, hw, pwm, alone, obs, sensor, life, env, slot, fin>>

\* the latch of the power owner, or the session of an update
BeginEnd ==
    /\ Doing("end", "begin")
    /\ \/ ~env.ota /\ env' = [env EXCEPT !.cut = TRUE]
       \/ ~env.cut /\ env' = [env EXCEPT !.ota = TRUE]
    /\ StepTo("end", 2)
    /\ UNCHANGED <<heat, hw, pwm, alone, obs, sensor, life, slot, fin>>

\* sensor_temperature_invalidate
Close(o) ==
    /\ Doing(o, "close") /\ life = "free"
    /\ life' = o /\ obs' = NoReading
    /\ sensor' = [sensor EXCEPT !.current = FALSE]
    /\ Done(o)
    /\ UNCHANGED <<heat, hw, pwm, alone, env, slot, fin>>

\* a refused change gives up, the others are tried again
Abort(o) ==
    /\ Doing(o, "abort") /\ Gate
    /\ \E ok \in Offs :
         /\ Finish([heat EXCEPT !.ready = FALSE], ok)
         /\ IF ok THEN Done(o) ELSE StepTo(o, 1)
         /\ env' = IF ~ok /\ o = "end" THEN [env EXCEPT !.mainOk = TRUE] ELSE env
    /\ life' = "free"
    /\ UNCHANGED <<obs, sensor>>

PowerDown ==
    /\ Doing("end", "powerdown") /\ Gate
    /\ \E ok \in Offs :
         /\ Finish(PowerAborted(heat), ok)
         /\ IF ok \/ pos["end"] > 2 THEN Done("end") ELSE StepTo("end", 1)
    /\ UNCHANGED <<obs, sensor, life, env>>

Mark(o) ==
    /\ Doing(o, "mark") /\ Done(o)
    /\ env' = [env EXCEPT !.suspended = TRUE]
    /\ UNCHANGED <<heat, hw, pwm, alone, obs, sensor, life, slot, fin>>

\* the thread is outside its processing, possibly past the suspension check
Quiet(o) ==
    /\ Doing(o, "quiet") /\ sensor.at \in {"idle", "go"}
    /\ Done(o)
    /\ UNCHANGED <<heat, hw, pwm, alone, obs, sensor, life, env, slot, fin>>

\* a retrim and a failed change resume at once, the others restart fusion
Held ==
    /\ Doing("change", "held")
    /\ \E n \in {pos["change"] + 1, pos["change"] + 4} : StepTo("change", n)
    /\ UNCHANGED <<heat, hw, pwm, alone, obs, sensor, life, env, slot, fin>>

Shut ==
    /\ Doing("end", "shut") /\ Done("end")
    /\ env' = [env EXCEPT !.mainOk = FALSE]
    /\ UNCHANGED <<heat, hw, pwm, alone, obs, sensor, life, slot, fin>>

Resume ==
    /\ Doing("change", "resume") /\ Done("change")
    /\ env' = [env EXCEPT !.suspended = FALSE]
    /\ UNCHANGED <<heat, hw, pwm, alone, obs, sensor, life, slot, fin>>

\* sensor_temperature_resume
Open ==
    /\ Doing("change", "open") /\ life = "free" /\ Done("change")
    /\ obs' = [NoReading EXCEPT !.enabled = env.mainOk /\ ~env.suspended]
    /\ sensor' = [sensor EXCEPT !.current = FALSE]
    /\ UNCHANGED <<heat, hw, pwm, alone, life, env, slot, fin>>

Init ==
    /\ heat = Idle /\ hw = Disarmed /\ pwm = FALSE /\ alone = 0
    /\ obs = [NoReading EXCEPT !.enabled = TRUE]
    /\ sensor = Waiting /\ pos = [o \in Owners |-> 1] /\ life = "free"
    /\ env = [cut |-> FALSE, ota |-> FALSE, suspended |-> FALSE, mainOk |-> TRUE]
    /\ slot = "free" /\ fin = "no"

\* the tracker powers off or reboots, and starts
Boot ==
    /\ Doing("end", "down")
    /\ heat' = Idle /\ hw' = Disarmed /\ pwm' = FALSE /\ alone' = 0
    /\ obs' = [NoReading EXCEPT !.enabled = TRUE]
    /\ sensor' = Waiting /\ pos' = [o \in Owners |-> 1] /\ life' = "free"
    /\ env' = [env EXCEPT !.cut = FALSE, !.ota = FALSE, !.suspended = FALSE, !.mainOk = TRUE]
    /\ slot' = "free" /\ fin' = "no"

WriteSteps == SetLease \/ Check \/ Drive \/ WriteFails \/ Written
Worker == Poll \/ Finalize
OwnerSteps ==
    \/ \E o \in Owners : Close(o) \/ Abort(o) \/ Mark(o) \/ Quiet(o)
    \/ BeginChange \/ Held \/ Resume \/ Open
    \/ BeginEnd \/ PowerDown \/ Shut \/ Boot

Next ==
    \/ Tick \/ TimeOut
    \/ Start \/ Stop \/ ClearBegin \/ ClearEnd
    \/ Worker
    \/ Wake \/ Go \/ UpdateNothing \/ UpdateStops \/ UpdateHolds \/ UpdateKeeps
    \/ UpdateWrites \/ UpdateRefused \/ WriteSteps
    \/ Apply \/ Publish \/ Reject \/ Unready
    \/ OwnerSteps

Spec == Init /\ [][Next]_vars

\* The worker looks at the session at least every 100 ms, the steps of a
\* write are bounded, and time passes.
FairSpec == Spec /\ WF_vars(TimeOut) /\ WF_vars(WriteSteps) /\ SF_vars(Poll) /\ SF_vars(Finalize)

-----------------------------------------------------------------------------
(* Properties *)

Ages == 0..(Lease + 1)
SessionStates == {"idle", "reserved", "running", "finalizing", "finished", "off_failed"}

Heats == [state : SessionStates, ready : BOOLEAN, resetting : BOOLEAN, terminal : BOOLEAN,
          control : Ages, over : BOOLEAN, duty : BOOLEAN]
Leases == [fatal : BOOLEAN, armed : BOOLEAN, expired : BOOLEAN, proof : Ages,
           on : BOOLEAN, count : 0..(Lease - 1), cc0 : 1..Lease, ev : BOOLEAN]
Readings == [enabled : BOOLEAN, valid : BOOLEAN, age : Ages, hot : BOOLEAN, new : BOOLEAN]
Places == {"idle", "go", "first", "apply", "read", "second", "reject", "set", "check", "drive", "verify"}
Sensors == [at : Places, current : BOOLEAN, age : Ages, want : 0..Lease, drive : BOOLEAN,
            next : {"idle", "apply"}]

\* Every variable stays in its type.
TypeOK ==
    /\ heat \in Heats /\ hw \in Leases /\ pwm \in BOOLEAN /\ alone \in Ages
    /\ obs \in Readings /\ sensor \in Sensors
    /\ pos \in [Owners -> 1..Len(PowerOff)]
    /\ life \in Owners \cup {"free", "sensor"}
    /\ env \in [cut : BOOLEAN, ota : BOOLEAN, suspended : BOOLEAN, mainOk : BOOLEAN]
    /\ slot \in {"free", "heated"} /\ fin \in {"no", "wait", "late"}

\* However long the CPU stalls, and wherever in a write, the timer takes the
\* heat away within one lease of the CPU's last step; and but for a write in
\* progress nothing is heated on a temperature as old as the lease.
HeatIsLeased ==
    pwm => /\ hw.on /\ alone < Lease
           /\ Writing \/ hw.proof < Lease

\* Heat has an owner: a running session that holds the calibration slot and
\* an armed lease, under hardware that has not failed.
HeatHasOwner ==
    pwm => /\ heat.state = "running" /\ slot = "heated"
           /\ hw.armed /\ ~hw.fatal

\* The calibration slot is taken exactly while there is a session, or an off
\* that was not confirmed: no path gives it back early or leaves it behind.
SlotMatchesSession == slot = "heated" <=> Busy(heat)

\* past its suspension of the sensor thread
Holds(o) ==
    IF o = "change" THEN pos[o] \in 6..10
    ELSE \E n \in 1..(pos[o] - 1) : Procedure(o)[n] = "quiet"

\* An owner that has suspended the sensor thread works without heat, also
\* when another resumes the thread meanwhile; and once the power owner has
\* cut the heater nothing starts it again before the next boot.
ColdWhenHeld ==
    \/ (\E o \in Owners : Holds(o))
    \/ env.cut /\ heat.terminal
    => ~pwm /\ heat.state \notin Active

\* A session ends: the sensor thread may stall for ever, the worker's poll
\* and the time limit end it.
SessionEnds == heat.state \in Active ~> heat.state \notin Active

=============================================================================
