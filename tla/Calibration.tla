----------------------------- MODULE Calibration -----------------------------
(***************************************************************************)
(* The hand-off of IMU calibration coefficients (imu_calibration.c): a     *)
(* collector on the calibration worker, or a user's reset, submits one     *)
(* candidate; the sensor thread applies it at a frame boundary and lets    *)
(* the fusion take it over; the worker writes it; the power thread does    *)
(* what is left once the sensors are stopped; reset-all throws away what   *)
(* it overtakes.  The request slot and its generation (calibration.c) and  *)
(* the two collectors (cal_imu.c) are modelled with it.                    *)
(*                                                                         *)
(* A job is an accepted request or reset, numbered as it is accepted.      *)
(* Coefficients are the number of the job they come from, 0 the defaults.  *)
(* The build has T-Cal and the accelerometer matrix, and no heated T-Cal:  *)
(* a fusion restart cannot fail, and nothing else reserves the candidate.  *)
(***************************************************************************)
EXTENDS Naturals

CONSTANTS
    MaxJobs,     \* requests and resets accepted
    MaxClears,   \* reset-all operations
    MaxFaults    \* writes that fail

ASSUME BoundsAssumption == MaxJobs \in Nat /\ MaxClears \in Nat /\ MaxFaults \in Nat

Jobs == 1..MaxJobs
Coefficients == 0..MaxJobs
NotKept == MaxJobs + 1      \* retained memory keeps no fusion state (fusion_id = 0)

VARIABLES
    client,    \* who asked for a job: "user", "silent" (T-Cal), "reset", or "" (not accepted yet)
    slot,      \* the request slot: kind, job and generation
    gen,       \* calibration_generation
    flag,      \* closing, clearing, ready (consumer_ready), stale, save (fusion_save_pending)
    pending,   \* the one transaction
    receipt,   \* frame_completion: whose receipt waits for the fusion
    applied,   \* live coefficients; frame: how often the fusion had to follow
    base,      \* the frame the live fusion works on
    ram,       \* retained memory: coefficients and the frame of the fusion state it keeps
    flash,
    plock,     \* persistence_lock: its holder and the transaction the holder writes
    storage,   \* sys_storage_lock, the warm transaction
    worker,    \* calibration thread
    sensor,    \* sensor thread
    wanted,    \* FUSION_REQUEST_RESET
    power,     \* power thread
    clear,     \* the thread that runs sys_clear
    faults,
    end,       \* per job: what its END event says
    told,      \* per job: the result its requester was shown
    log        \* ghost: what has become of the jobs

vars == <<client, slot, gen, flag, pending, receipt, applied, base, ram, flash, plock, storage,
          worker, sensor, wanted, power, clear, faults, end, told, log>>

Empty == [id |-> 0, effect |-> "none", part |-> "bias", keep |-> FALSE, persist |-> FALSE,
          changed |-> FALSE, held |-> FALSE, op |-> FALSE, err |-> FALSE, gen |-> 0]
NoSlot == [kind |-> "none", id |-> 0, gen |-> 0]
NoWriter == [by |-> "free", next |-> Empty]
NoReceipt == [id |-> 0, err |-> FALSE]
Defaults == [bias |-> 0, matrix |-> 0, temp |-> 0, trim |-> 0]
Idle == [pc |-> "top", id |-> 0, gen |-> 0, kind |-> "none", err |-> FALSE, trimmed |-> FALSE,
         auto |-> FALSE]

Init ==
    /\ client = [j \in Jobs |-> ""]
    /\ slot = NoSlot /\ gen = 0
    /\ flag = [closing |-> FALSE, clearing |-> FALSE, ready |-> TRUE, stale |-> FALSE, save |-> FALSE]
    /\ pending = Empty /\ receipt = NoReceipt
    /\ applied = [bias |-> 0, matrix |-> 0, frame |-> 0] /\ base = 0
    /\ ram = [c \in {"bias", "matrix", "temp", "trim", "fusion"} |-> IF c = "fusion" THEN NotKept ELSE 0]
    /\ flash = Defaults
    /\ plock = NoWriter /\ storage = "free"
    /\ worker = Idle
    /\ sensor = [pc |-> "idle", suspended |-> FALSE, ok |-> TRUE, unread |-> FALSE]
    /\ wanted = FALSE
    /\ power = "run"
    /\ clear = [pc |-> "none", mark |-> 0, count |-> 0]
    /\ faults = 0
    /\ end = [j \in Jobs |-> "none"] /\ told = [j \in Jobs |-> "none"]
    /\ log = [admitted |-> {}, applied |-> {}, frame |-> [j \in Jobs |-> 0], saved |-> {}, unsaved |-> {}, withdrawn |-> {},
              fleeting |-> {}, erased |-> 0, revived |-> FALSE]

-----------------------------------------------------------------------------
\* The tracker is off, or a retrim that ended during the power-down has resumed
\* the sensor thread under it; nothing is said of what follows
Over == power = "off" \/ log.revived

Accepted == {j \in Jobs : client[j] # ""}
NextJob == CHOOSE j \in Jobs : j \notin Accepted /\ \A k \in Jobs : k < j => k \in Accepted

\* (mutant: whoever has begun may finish)
ValidOnceBegun(g) == TRUE
\* sensor_calibration_generation_valid: a reset names no generation
Valid(g) == g = 0 \/ g = gen
\* reserve_candidate, after the coefficients are loaded
Admits == /\ ~flag.closing /\ flag.ready /\ ~flag.clearing
          /\ pending.effect = "none" /\ ~pending.persist
\* (mutant: an applied candidate counts as written)
FusionStaleUntilApplied == flag.stale \/ pending.effect \in {"bias", "frame"}
FusionStale == \/ flag.stale \/ pending.effect \in {"bias", "frame"}
               \/ pending.persist /\ pending.changed

\* cal_event_end: only the first end of an operation counts, and only a user's has one
Ended(e, j, outcome) ==
    IF j # 0 /\ client[j] = "user" /\ e[j] = "none" THEN [e EXCEPT ![j] = outcome] ELSE e
\* led_result: the first terminal result of a session counts, silent jobs have none
Told(t, j, result) ==
    IF j # 0 /\ client[j] # "silent" /\ t[j] = "none" THEN [t EXCEPT ![j] = result] ELSE t
\* the result of a transaction that has reached the fusion and the flash
Verdict(err) == IF err THEN "unsaved" ELSE "success"
\* (mutant: only what concerns the fusion completes)
CompletesWithFusion(p, stale) == p.held /\ p.effect = "none" /\ ~p.persist /\ ~stale /\ p.changed
\* feedback_complete_locked with the transaction p and the staleness given
Completes(p, stale) == p.held /\ p.effect = "none" /\ ~p.persist /\ ~stale

Candidate(j, who, effect, part, keep, err, g) ==
    [id |-> j, effect |-> effect, part |-> part, keep |-> keep, persist |-> FALSE, changed |-> FALSE,
     held |-> who # "silent", op |-> who = "user", err |-> err, gen |-> g]
\* what the generations withdraw: the job in the slot, unless its candidate is in
Uncommitted == IF slot.id # 0 /\ ~(worker.id = slot.id /\ worker.pc \in {"tail", "clear"})
               THEN {slot.id} ELSE {}

-----------------------------------------------------------------------------
(* The clients *)

\* sensor_calibration_request, from a user or from T-Cal
Request(kind, who) ==
    /\ ~Over /\ slot.kind = "none" /\ Accepted # Jobs
    /\ kind = "poses" => who = "user"
    /\ client' = [client EXCEPT ![NextJob] = who]
    /\ gen' = gen + 1
    /\ slot' = [kind |-> kind, id |-> NextJob, gen |-> gen + 1]
    /\ UNCHANGED <<flag, pending, receipt, applied, base, ram, flash, plock, storage, worker, sensor,
                   wanted, power, clear, faults, end, told, log>>

\* sensor_calibration_reset_imu, sensor_calibration_reset_accel
Reset(kind) ==
    /\ ~Over /\ Accepted # Jobs /\ Admits
    /\ client' = [client EXCEPT ![NextJob] = "reset"]
    /\ gen' = IF slot.kind = kind THEN gen + 1 ELSE gen
    /\ pending' = IF kind = "imu"
                  THEN Candidate(NextJob, "reset", "frame", "bias", TRUE, FALSE, 0)
                  ELSE Candidate(NextJob, "reset", "coefficients", "matrix", TRUE, FALSE, 0)
    /\ log' = [log EXCEPT !.admitted = @ \cup {NextJob},
                          !.withdrawn = IF slot.kind = kind THEN @ \cup Uncommitted ELSE @]
    /\ UNCHANGED <<slot, flag, receipt, applied, base, ram, flash, plock, storage, worker, sensor,
                   wanted, power, clear, faults, end, told>>

-----------------------------------------------------------------------------
(* sys_clear *)

ClearAt(pc) == ~Over /\ clear.pc = pc
ClearStep(from, to) == ClearAt(from) /\ clear' = [clear EXCEPT !.pc = to]

\* sensor_calibration_clear_begin waits for a write in flight
ClearLock ==
    /\ clear.count < MaxClears /\ plock = NoWriter
    /\ ClearAt("none") /\ clear' = [clear EXCEPT !.pc = "invalidate", !.count = @ + 1]
    /\ plock' = [by |-> "clear", next |-> Empty]
    /\ UNCHANGED <<client, slot, gen, flag, pending, receipt, applied, base, ram, flash, storage,
                   worker, sensor, wanted, power, faults, end, told, log>>

\* sensor_calibration_invalidate_requests
ClearInvalidate ==
    /\ ClearAt("invalidate")
    /\ clear' = [clear EXCEPT !.pc = "wipe",
                              !.mark = IF Accepted = Jobs THEN MaxJobs ELSE NextJob - 1]
    /\ gen' = gen + 1
    /\ told' = Told(told, slot.id, "cancelled")
    /\ log' = [log EXCEPT !.withdrawn = @ \cup Uncommitted]
    /\ UNCHANGED <<client, slot, flag, pending, receipt, applied, base, ram, flash, plock, storage,
                   worker, sensor, wanted, power, faults, end>>

ClearWipe ==
    LET unfinished == IF pending.effect # "none" \/ pending.persist THEN {pending.id} ELSE {}
        answered == (IF pending.held THEN {pending.id} ELSE {}) \cup {receipt.id}
        owed == IF pending.held THEN Told(told, pending.id, "cancelled") ELSE told
    IN  /\ ClearStep("wipe", "gate")
        /\ flag' = [flag EXCEPT !.clearing = TRUE, !.save = FALSE]
        /\ end' = IF pending.effect # "none" /\ pending.op
                  THEN Ended(end, pending.id, "cancelled") ELSE end
        /\ told' = Told(owed, receipt.id, "cancelled")
        /\ pending' = Empty /\ receipt' = NoReceipt
        /\ log' = [log EXCEPT !.withdrawn = @ \cup ((unfinished \cup answered) \ {0})]
        /\ UNCHANGED <<client, slot, gen, applied, base, ram, flash, plock, storage, worker, sensor,
                       wanted, power, faults>>

\* sys_wom_timeout_change_begin refuses once a shutdown has started, and keeps
\* one from starting until the end
ClearGate ==
    /\ ClearAt("gate")
    /\ clear' = [clear EXCEPT !.pc = IF power = "run" THEN "erase" ELSE "end"]
    /\ UNCHANGED <<client, slot, gen, flag, pending, receipt, applied, base, ram, flash, plock, storage,
                   worker, sensor, wanted, power, faults, end, told, log>>

ClearErase ==
    /\ ClearStep("erase", "release") /\ storage = "free"
    /\ \/ /\ ram' = [c \in DOMAIN ram |-> IF c = "fusion" THEN NotKept ELSE 0]
          /\ flash' = Defaults
          /\ log' = [log EXCEPT !.erased = clear.mark]
          /\ UNCHANGED faults
       \/ /\ faults < MaxFaults /\ faults' = faults + 1
          /\ UNCHANGED <<ram, flash, log>>
    /\ UNCHANGED <<client, slot, gen, flag, pending, receipt, applied, base, plock, storage, worker,
                   sensor, wanted, power, end, told>>

\* sensor_calibration_clear_end
ClearEnd ==
    /\ (ClearAt("end") \/ ClearAt("release")) /\ clear' = [clear EXCEPT !.pc = "none", !.mark = 0]
    /\ flag' = [flag EXCEPT !.clearing = FALSE]
    /\ plock' = NoWriter
    /\ UNCHANGED <<client, slot, gen, pending, receipt, applied, base, ram, flash, storage, worker,
                   sensor, wanted, power, faults, end, told, log>>

Clear == ClearLock \/ ClearInvalidate \/ ClearWipe \/ ClearGate \/ ClearErase \/ ClearEnd

-----------------------------------------------------------------------------
(* sensor_calibration_apply_pending and sensor_calibration_persist_pending, *)
(* run by the worker, the sensor thread or the power thread                  *)

Effect ==
    CASE flag.clearing -> "none"
      [] ~flag.clearing /\ pending.effect # "none" -> pending.effect
      [] ~flag.clearing /\ pending.effect = "none" ->
            IF flag.stale THEN "frame" ELSE IF flag.save THEN "save" ELSE "none"

ApplyPending(close) ==
    IF ~flag.clearing /\ pending.effect # "none"
    THEN LET changed == pending.effect # "coefficients"
         IN  /\ applied' = [applied EXCEPT ![pending.part] = pending.id,
                                           !.frame = IF changed THEN @ + 1 ELSE @]
             /\ flag' = [flag EXCEPT !.stale = @ \/ changed, !.closing = @ \/ close]
             /\ pending' = [pending EXCEPT !.effect = "none", !.persist = TRUE, !.changed = changed]
             /\ end' = IF pending.op THEN Ended(end, pending.id, "success") ELSE end
             /\ log' = [log EXCEPT !.applied = @ \cup {pending.id},
                                   !.frame[pending.id] = applied'.frame]
    ELSE /\ flag' = [flag EXCEPT !.save = @ /\ Effect # "save", !.closing = @ \/ close]
         /\ UNCHANGED <<applied, pending, end, log>>

\* takes the lock for a transaction that is applied and not written
PersistBegin(t) ==
    /\ plock = NoWriter /\ pending.persist
    /\ plock' = [by |-> t, next |-> pending]
    /\ UNCHANGED <<client, slot, gen, flag, pending, receipt, applied, base, ram, flash, storage,
                   sensor, wanted, clear, faults, end, told, log>>

\* the write, inside the warm transaction; retained memory takes it even when flash does not
PersistWrite(t) ==
    LET next == plock.next
    IN  /\ plock.by = t /\ storage = "free" /\ storage' = t
        /\ \/ /\ next.keep
              /\ ram' = [ram EXCEPT ![next.part] = next.id]
              /\ \/ flash' = [flash EXCEPT ![next.part] = next.id] /\ UNCHANGED <<plock, faults>>
                 \/ /\ faults < MaxFaults /\ faults' = faults + 1
                    /\ plock' = [plock EXCEPT !.next.err = TRUE]
                    /\ UNCHANGED flash
           \/ ~next.keep /\ UNCHANGED <<ram, flash, plock, faults>>
        /\ UNCHANGED <<client, slot, gen, flag, pending, receipt, applied, base, sensor, wanted, clear,
                       end, told, log>>

\* frame_completion: the receipt of a transaction the fusion has not taken over yet
\* (mutant: it stays in the transaction)
ApartNever(p) == FALSE
Apart(p) == p.held /\ flag.stale /\ p.changed
\* the second half of sensor_calibration_persist_pending; the receipt of a
\* transaction the fusion has not taken over yet is set apart
PersistEnd(t) ==
    LET failed == plock.next.err
        done == [pending EXCEPT !.persist = FALSE, !.op = FALSE, !.err = @ \/ failed]
        apart == Apart(done)
        ends == ~apart /\ Completes(done, flag.stale)
    IN  /\ plock.by = t /\ storage = t
        /\ flag' = [flag EXCEPT !.save = @ \/ done.changed]
        /\ receipt' = IF apart THEN [id |-> done.id, err |-> done.err] ELSE receipt
        /\ pending' = [done EXCEPT !.held = @ /\ ~apart /\ ~ends]
        /\ told' = IF ends THEN Told(told, done.id, Verdict(done.err)) ELSE told
        /\ log' = IF done.err THEN [log EXCEPT !.unsaved = @ \cup {done.id}]
                              ELSE [log EXCEPT !.saved = @ \cup {done.id}]
        /\ plock' = NoWriter /\ storage' = "free"
        /\ UNCHANGED <<client, slot, gen, applied, base, ram, flash, sensor, wanted, clear, faults, end>>

-----------------------------------------------------------------------------
(* The calibration worker *)

At(pc) == ~Over /\ worker.pc = pc
Goes(pc) == worker' = [worker EXCEPT !.pc = pc]
\* the locals of a collector end with it
Leaves == worker' = [Idle EXCEPT !.pc = "clear", !.id = worker.id]

WorkerPersists ==
    /\ \/ At("top") /\ PersistBegin("worker") /\ Goes("write")
       \/ At("write") /\ PersistWrite("worker") /\ Goes("written")
       \/ At("written") /\ PersistEnd("worker") /\ Goes("look")
    /\ UNCHANGED power
\* (with the slot empty as well, the loop only waits)
WorkerHasNothing ==
    /\ At("top") /\ slot.kind # "none" /\ plock = NoWriter /\ ~pending.persist /\ Goes("look")
    /\ UNCHANGED <<client, slot, gen, flag, pending, receipt, applied, base, ram, flash, plock, storage,
                   sensor, wanted, power, clear, faults, end, told, log>>

\* the loop of calibration_thread: no request, one withdrawn before it was begun, or one to run
Look ==
    /\ At("look")
    /\ \/ /\ slot.kind = "none" /\ Goes("top")
          /\ UNCHANGED <<slot, end, told>>
       \/ /\ slot.kind # "none" /\ ~Valid(slot.gen)
          /\ told' = Told(told, slot.id, "cancelled")
          /\ end' = Ended(end, slot.id, "cancelled")
          /\ slot' = NoSlot /\ Goes("top")
       \/ /\ slot.kind # "none" /\ Valid(slot.gen)
          /\ worker' = [Idle EXCEPT !.pc = "collect", !.id = slot.id, !.gen = slot.gen, !.kind = slot.kind]
          /\ UNCHANGED <<slot, end, told>>
    /\ UNCHANGED <<client, gen, flag, pending, receipt, applied, base, ram, flash, plock, storage, sensor,
                   wanted, power, clear, faults, log>>

\* imu_failed, imu_cancelled
Stops(outcome) ==
    /\ end' = Ended(end, worker.id, outcome)
    /\ told' = Told(told, worker.id, outcome)
    /\ Leaves

\* motion, a timeout, too few samples, a fit that fails
CollectFails ==
    /\ At("collect") /\ Stops("failed")
    /\ UNCHANGED <<client, slot, gen, flag, pending, receipt, applied, base, ram, flash, plock, storage,
                   sensor, wanted, power, clear, faults, log>>

\* the component retrim of the BMI270: the sensors are suspended while it runs
RetrimBegin ==
    /\ At("collect") /\ worker.kind = "imu" /\ ~worker.trimmed
    /\ sensor.pc = "idle"
    /\ sensor' = [sensor EXCEPT !.suspended = TRUE]
    /\ flag' = [flag EXCEPT !.ready = FALSE]
    /\ Goes("retrim")
    /\ UNCHANGED <<client, slot, gen, pending, receipt, applied, base, ram, flash, plock, storage, wanted,
                   power, clear, faults, end, told, log>>
\* main_imu_resume, also of sensors somebody else has suspended since
RetrimResume(pc) ==
    /\ At("retrim")
    /\ sensor' = [sensor EXCEPT !.suspended = FALSE]
    /\ flag' = [flag EXCEPT !.ready = IF sensor.suspended THEN sensor.ok ELSE @]
    /\ IF pc = "clear" THEN Stops("failed") ELSE Goes(pc) /\ UNCHANGED <<end, told>>
    /\ log' = [log EXCEPT !.revived = @ \/ power # "run"]
    /\ UNCHANGED <<client, slot, gen, pending, receipt, applied, base, ram, flash, plock, storage, wanted,
                   power, clear, faults>>
RetrimStore ==
    /\ At("trimmed") /\ storage = "free"
    /\ \/ /\ ~Valid(worker.gen) /\ Stops("cancelled")
          /\ UNCHANGED <<ram, flash, faults, wanted>>
       \/ /\ Valid(worker.gen)
          /\ ram' = [ram EXCEPT !.trim = worker.id]
          /\ wanted' = TRUE
          /\ \/ /\ flash' = [flash EXCEPT !.trim = worker.id]
                /\ worker' = [worker EXCEPT !.pc = "collect", !.trimmed = TRUE]
                /\ UNCHANGED faults
             \/ /\ faults < MaxFaults /\ faults' = faults + 1
                /\ worker' = [worker EXCEPT !.pc = "collect", !.trimmed = TRUE, !.err = TRUE]
                /\ UNCHANGED flash
          /\ UNCHANGED <<end, told>>
    /\ UNCHANGED <<client, slot, gen, flag, pending, receipt, applied, base, plock, storage, sensor, power,
                   clear, log>>

\* the bias is measured: the warm transaction opens over the check, the commit and the T-Cal point
OpenTransaction ==
    /\ At("collect") /\ worker.kind = "imu" /\ storage = "free"
    /\ \/ /\ ~Valid(worker.gen) /\ Stops("cancelled")
          /\ UNCHANGED storage
       \/ /\ Valid(worker.gen) /\ Goes("commit") /\ storage' = "worker"
          /\ UNCHANGED <<end, told>>
    /\ UNCHANGED <<client, slot, gen, flag, pending, receipt, applied, base, ram, flash, plock, sensor,
                   wanted, power, clear, faults, log>>

\* sensor_calibration_commit_bias; without automatic T-Cal the bias itself is stored
CommitBias(keep) ==
    /\ At("commit") /\ worker.kind = "imu"
    /\ \/ /\ Valid(worker.gen) /\ Admits
          /\ pending' = Candidate(worker.id, client[worker.id], "bias", "bias", keep, worker.err, worker.gen)
          /\ log' = [log EXCEPT !.admitted = @ \cup {worker.id},
                                !.fleeting = IF keep THEN @ ELSE @ \cup {worker.id}]
          /\ worker' = [worker EXCEPT !.pc = "tail", !.auto = ~keep]
          /\ UNCHANGED <<storage, end, told>>
       \/ /\ ~(Valid(worker.gen) /\ Admits)
          /\ Stops(IF Valid(worker.gen) THEN "failed" ELSE "cancelled")
          /\ storage' = "free"
          /\ UNCHANGED <<pending, log>>
    /\ UNCHANGED <<client, slot, gen, flag, receipt, applied, base, ram, flash, plock, sensor, wanted,
                   power, clear, faults>>

\* the temperature and the T-Cal point of this measurement, then
\* sensor_calibration_record_storage_error and the end of the transaction
Tail ==
    LET mine == pending.gen = worker.gen /\ (pending.effect # "none" \/ pending.persist)
    IN  /\ At("tail") /\ storage' = "free" /\ Leaves
        /\ \/ /\ worker.auto
              /\ ram' = [ram EXCEPT !.temp = worker.id]
              /\ \/ flash' = [flash EXCEPT !.temp = worker.id] /\ UNCHANGED <<pending, faults, log>>
                 \/ /\ faults < MaxFaults /\ faults' = faults + 1
                    /\ pending' = IF mine THEN [pending EXCEPT !.err = TRUE] ELSE pending
                    /\ UNCHANGED <<flash, log>>
           \/ ~worker.auto /\ UNCHANGED <<ram, flash, pending, faults, log>>
        /\ UNCHANGED <<client, slot, gen, flag, receipt, applied, base, plock, sensor, wanted, power,
                       clear, end, told>>

\* sensor_calibration_commit_accel
CommitAccel ==
    /\ At("collect") /\ worker.kind = "poses"
    /\ \/ /\ Valid(worker.gen) /\ Admits
          /\ pending' = Candidate(worker.id, client[worker.id], "frame", "matrix", TRUE, FALSE, worker.gen)
          /\ log' = [log EXCEPT !.admitted = @ \cup {worker.id}]
          /\ Leaves /\ UNCHANGED <<end, told>>
       \/ /\ ~(Valid(worker.gen) /\ Admits)
          /\ Stops(IF Valid(worker.gen) THEN "failed" ELSE "cancelled")
          /\ UNCHANGED <<pending, log>>
    /\ UNCHANGED <<client, slot, gen, flag, receipt, applied, base, ram, flash, plock, storage, sensor,
                   wanted, power, clear, faults>>

\* CAL_REQUEST_CLEAR
Release ==
    /\ At("clear") /\ slot' = NoSlot /\ worker' = Idle
    /\ UNCHANGED <<client, gen, flag, pending, receipt, applied, base, ram, flash, plock, storage, sensor,
                   wanted, power, clear, faults, end, told, log>>

Worker == \/ WorkerPersists \/ WorkerHasNothing \/ Look
          \/ CollectFails \/ RetrimBegin \/ (\E pc \in {"trimmed", "clear"} : RetrimResume(pc))
          \/ RetrimStore \/ OpenTransaction \/ (\E keep \in BOOLEAN : CommitBias(keep))
          \/ Tail \/ CommitAccel \/ Release

-----------------------------------------------------------------------------
(* The sensor thread: sensor_apply_calibration_frame, once per loop *)

SensorRuns == ~Over /\ ~sensor.suspended
SensorAt(pc) == SensorRuns /\ sensor.pc = pc

\* the candidate becomes live; a fusion reset asked for meanwhile is taken with it
FrameApply ==
    /\ SensorAt("idle") /\ sensor.ok /\ (Effect # "none" \/ wanted)
    /\ ApplyPending(FALSE)
    /\ wanted' = FALSE
    /\ sensor' = [sensor EXCEPT !.pc = CASE wanted \/ Effect \in {"frame", "bias"} -> "consume"
                                      [] ~wanted /\ Effect = "coefficients" -> "applied"
                                      [] ~wanted /\ Effect = "save" -> "save"]
    /\ UNCHANGED <<client, slot, gen, receipt, base, ram, flash, plock, storage, worker, power, clear,
                   faults, told>>

\* main_imu_restart, or only the residual bias of the fusion; the next sample
\* has to take a new gyro reference
FrameConsume ==
    /\ SensorAt("consume")
    /\ base' = applied.frame
    /\ sensor' = [sensor EXCEPT !.pc = "applied", !.unread = TRUE]
    /\ UNCHANGED <<client, slot, gen, flag, pending, receipt, applied, ram, flash, plock, storage, worker,
                   wanted, power, clear, faults, end, told, log>>

\* sensor_calibration_fusion_applied
FrameApplied ==
    LET first == Told(told, receipt.id, Verdict(receipt.err))
        ends == Completes(pending, FALSE)
    IN  /\ SensorAt("applied")
        /\ flag' = [flag EXCEPT !.stale = FALSE]
        /\ receipt' = NoReceipt
        /\ told' = IF ends THEN Told(first, pending.id, Verdict(pending.err)) ELSE first
        /\ pending' = [pending EXCEPT !.held = @ /\ ~ends]
        /\ sensor' = [sensor EXCEPT !.pc = "save"]
        /\ UNCHANGED <<client, slot, gen, applied, base, ram, flash, plock, storage, worker, wanted, power,
                       clear, faults, end, log>>

\* sensor_retained_write, with the fusion resets asked for so far; the samples
\* that follow in the loop take the gyro reference again
Retains(asked) ==
    ram' = [ram EXCEPT !.fusion = IF asked \/ FusionStale \/ sensor.unread THEN NotKept ELSE base]
FrameSave ==
    /\ SensorAt("save") /\ Retains(wanted)
    /\ sensor' = [sensor EXCEPT !.pc = "idle", !.unread = FALSE]
    /\ UNCHANGED <<client, slot, gen, flag, pending, receipt, applied, base, flash, plock, storage, worker,
                   wanted, power, clear, faults, end, told, log>>

Sensor == FrameApply \/ FrameConsume \/ FrameApplied \/ FrameSave

-----------------------------------------------------------------------------
(* The power thread, from the end of its gate to the power-off *)

PowerAt(pc) == ~Over /\ power = pc
\* configure_system_off: main_imu_suspend and sensor_shutdown, with nothing clearing past its gate
PowerSuspend ==
    /\ PowerAt("run") /\ clear.pc \notin {"erase", "release"}
    /\ sensor.pc = "idle"
    /\ sensor' = [sensor EXCEPT !.suspended = TRUE, !.ok = FALSE]
    /\ flag' = [flag EXCEPT !.ready = FALSE]
    /\ power' = "apply"
    /\ UNCHANGED <<client, slot, gen, pending, receipt, applied, base, ram, flash, plock, storage, worker,
                   wanted, clear, faults, end, told, log>>
\* sensor_calibration_prepare_power_down, step by step.  (Closing is a critical
\* section of its own, in front of the one that applies; with the sensor stopped
\* nothing is admitted in either.)
PowerApply ==
    /\ PowerAt("apply") /\ power' = "persist"
    /\ ApplyPending(TRUE)
    /\ UNCHANGED <<client, slot, gen, receipt, base, ram, flash, plock, storage, worker, sensor, wanted,
                   clear, faults, told>>
PowerPersists ==
    /\ \/ PowerAt("persist") /\ PersistBegin("power") /\ power' = "write"
       \/ PowerAt("write") /\ PersistWrite("power") /\ power' = "written"
       \/ PowerAt("written") /\ PersistEnd("power") /\ power' = "drop"
    /\ UNCHANGED worker
\* (mutant: the power thread does not wait for the worker's lock)
PowerPassesBy ==
    /\ PowerAt("persist") /\ (plock # NoWriter \/ ~pending.persist) /\ power' = "drop"
    /\ UNCHANGED <<client, slot, gen, flag, pending, receipt, applied, base, ram, flash, plock, storage,
                   worker, sensor, wanted, clear, faults, end, told, log>>
PowerHasNothing ==
    /\ PowerAt("persist") /\ plock = NoWriter /\ ~pending.persist /\ power' = "drop"
    /\ UNCHANGED <<client, slot, gen, flag, pending, receipt, applied, base, ram, flash, plock, storage,
                   worker, sensor, wanted, clear, faults, end, told, log>>
PowerDrop ==
    /\ PowerAt("drop") /\ power' = "retain"
    /\ ram' = IF FusionStale THEN [ram EXCEPT !.fusion = NotKept] ELSE ram
    /\ UNCHANGED <<client, slot, gen, flag, pending, receipt, applied, base, flash, plock, storage, worker,
                   sensor, wanted, clear, faults, end, told, log>>
\* sensor_retained_write; a system off has asked for a fusion reset before it
PowerRetain(off) ==
    /\ PowerAt("retain") /\ power' = "off"
    /\ Retains(wanted \/ off)
    /\ UNCHANGED <<client, slot, gen, flag, pending, receipt, applied, base, flash, plock, storage, worker,
                   sensor, wanted, clear, faults, end, told, log>>

PowerStep == \/ PowerApply \/ PowerPersists \/ PowerHasNothing
             \/ PowerDrop \/ (\E off \in BOOLEAN : PowerRetain(off))

Next ==
    \/ \E kind \in {"imu", "poses"}, who \in {"user", "silent"} : Request(kind, who)
    \/ \E kind \in {"imu", "poses"} : Reset(kind)
    \/ Clear \/ Worker \/ Sensor \/ PowerSuspend \/ PowerStep

Spec == Init /\ [][Next]_vars

\* While a thread can run, some thread runs; nobody has to ask for anything, or shut down
Fairness == WF_vars(Worker \/ Sensor \/ PowerStep \/ (Clear /\ clear.pc # "none"))
FairSpec == Spec /\ Fairness

-----------------------------------------------------------------------------
TypeOK ==
    /\ client \in [Jobs -> {"", "user", "silent", "reset"}]
    /\ slot.kind \in {"none", "imu", "poses"} /\ slot.id \in Coefficients /\ slot.gen \in Nat /\ gen \in Nat
    /\ flag \in [{"closing", "clearing", "ready", "stale", "save"} -> BOOLEAN]
    /\ pending.id \in Coefficients /\ pending.effect \in {"none", "bias", "frame", "coefficients"}
    /\ receipt.id \in Coefficients
    /\ applied \in [{"bias", "matrix", "frame"} -> Coefficients] /\ base \in Coefficients
    /\ ram \in [{"bias", "matrix", "temp", "trim", "fusion"} -> Coefficients \cup {NotKept}]
    /\ flash \in [DOMAIN Defaults -> Coefficients]
    /\ plock.by \in {"free", "worker", "power", "clear"} /\ storage \in {"free", "worker", "power"}
    /\ faults \in 0..MaxFaults
    /\ end \in [Jobs -> {"none", "success", "failed", "cancelled"}]
    /\ told \in [Jobs -> {"none", "success", "unsaved", "failed", "cancelled"}]

\* What a user is told is what happened.  The END event says success exactly
\* of the candidates that went live (imu_calibration.c:381), and the local
\* result says success only when the fusion has taken the job over and every
\* write it promised was made; nobody whose job went live is forgotten: the
\* receipt is in the transaction or set apart (imu_calibration.c:54).
VerdictIsTrue ==
    \A j \in Accepted :
        /\ client[j] = "user" => (end[j] = "success" <=> j \in log.applied)
        /\ told[j] = "success" => /\ j \in log.applied \cap log.saved
                                  /\ j \notin log.unsaved
                                  /\ base >= log.frame[j]
        /\ told[j] = "unsaved" => j \in log.applied \cap log.unsaved
        /\ told[j] = "failed" => j \notin log.applied
        /\ told[j] = "cancelled" /\ clear.pc # "wipe" => j \notin log.applied \ log.withdrawn
        /\ j \in log.applied /\ client[j] # "silent" /\ told[j] = "none" =>
              (pending.held /\ pending.id = j) \/ receipt.id = j

\* A job that a reset or a reset-all has overtaken never becomes a candidate
\* again, and nothing older than a reset-all that erased is in retained memory
\* or flash afterwards, whoever was about to write it (calibration.h:91).
NothingOutdated ==
    /\ pending.id \in log.withdrawn => pending.effect = "none" /\ ~pending.persist
    /\ \A c \in DOMAIN flash : /\ flash[c] = 0 \/ flash[c] > log.erased
                               /\ ram[c] = 0 \/ ram[c] > log.erased

\* retained memory holds what is live, or what is missing in it was never
\* promised (automatic T-Cal keeps the bias in its own table), is thrown away by
\* a reset-all, or does not concern the fusion (a reset of the accelerometer matrix)
Backed(c) ==
    \/ ram[c] = applied[c]
    \/ applied[c] \in log.withdrawn \/ (applied[c] # 0 /\ applied[c] <= log.erased)
    \/ c = "bias" /\ applied.bias \in log.fleeting
    \/ c = "matrix" /\ pending.persist /\ ~pending.changed
\* A fusion state is kept across a reset only when it was computed on the
\* coefficients that are live, and the next boot will load the same: not while
\* a candidate is unconsumed or unwritten (sensor.c:1803).
SavedFusionFits ==
    [][ram'.fusion # ram.fusion /\ ram'.fusion # NotKept =>
         ram'.fusion = applied.frame /\ Backed("bias") /\ Backed("matrix")]_vars

\* A power-down leaves no admitted candidate behind: every one is live and
\* written (or its failure recorded), or a reset-all has answered it
\* (calibration.h:81).
AcceptedSurvives ==
    power = "off" => log.admitted \subseteq log.withdrawn
                                            \cup (log.applied \cap (log.saved \cup log.unsaved))

\* Every request and reset is answered, unless the tracker goes down first: no
\* thread keeps the slot, the transaction or a lock for ever.
Waits(j) == \/ client[j] \in {"user", "reset"} /\ told[j] = "none"
            \/ client[j] = "user" /\ end[j] = "none"
EveryoneIsAnswered == (\E j \in Jobs : Waits(j)) ~> (Over \/ \A j \in Jobs : ~Waits(j))
=============================================================================
