----------------------------- MODULE PowerOwner -----------------------------
(***************************************************************************)
(* The power owner of src/system/power.c with everything that competes for *)
(* it: the power thread, the sensor thread planning wake-on-motion (WOM)   *)
(* sleep, user commands, and the OTA client on the connection thread       *)
(* (src/system/esb_ota.c, reduced here to its ownership of the hardware).  *)
(*                                                                         *)
(* power_plan_lock is modelled by its holder.  A critical section that     *)
(* only reads what the lock or the mailbox spinlock protects is one step;  *)
(* the ones that first read an unprotected flag (the OTA session, the      *)
(* suspension of the sensors) and act on it later are two steps, because   *)
(* the flag may change in between.                                         *)
(***************************************************************************)
EXTENDS Integers, PowerMailbox

CONSTANTS
  Deadlines,   \* idle deadlines the sensor thread may ask for
  Commands,    \* what users ask for, a subset of AllCommands
  Toggles,     \* the environment flags that change
  OtaEnabled,  \* whether a receiver starts OTA updates
  LEASE,       \* WOM_ELIGIBILITY_LEASE_MS
  ADVANCE,     \* TRACKER_EVENT_WOM_ADVANCE_MS
  BUDGET,      \* the readiness budget of one boot
  MaxTime,     \* bound on the uptime of one boot
  MaxFaults    \* bound on shutdown steps that fail

AllCommands == {"OFF", "REBOOT", "WOM_NOW", "SET_TIMEOUT"}
EnvFlags == {"suppressed", "busy", "ready", "drained"}

ASSUME ConstantsAssumption ==
  /\ Deadlines \subseteq Int
  /\ Commands \subseteq AllCommands
  /\ Toggles \subseteq EnvFlags
  /\ OtaEnabled \in BOOLEAN
  /\ LEASE \in Nat /\ ADVANCE \in Nat /\ BUDGET \in Nat
  /\ MaxTime \in Nat /\ MaxFaults \in Nat

VARIABLES
  mb,         \* power_requests
  lock,       \* holder of power_plan_lock
  plan,       \* the wom_* policy variables
  budget,     \* wom_ready_timeout(_initialized): the readiness budget
  wire,       \* the last power notice queued for the receiver
  now,        \* k_uptime_get()
  pc,         \* where the power thread is
  req,        \* the request it claimed; "NONE" in the battery/dock path
  gen,        \* the generation it claimed
  veto,       \* the veto it read on entering its critical section
  consumed,   \* what the call returned
  conn,       \* where the connection thread is inside an OTA handler
  otaState,   \* ota.state
  session,    \* ota.session_started
  pending,    \* ota_reboot_pending
  abortReq,   \* ota_abort_requested
  suspended,  \* main_suspended
  env,        \* suppression, calibration/test mode, link readiness, battery/dock
  power,      \* whether the tracker runs, or how it left
  faults      \* shutdown steps that may still fail

ownerVars == <<pc, req, gen, veto, consumed>>
policyVars == <<plan, budget, wire>>
otaVars == <<conn, otaState, session, pending, abortReq>>
worldVars == <<env, power, faults>>
vars == <<mb, lock, policyVars, now, ownerVars, otaVars, suspended, worldVars>>

OwnerPcs == {"loop", "wom", "womGate", "womCfg", "womSetup", "off", "offGate",
             "offCfg", "reboot", "rebootCfg", "finish", "battery"}
ConnPcs == {"idle", "publish", "release", "suspend", "withdraw", "shutdown",
            "prepare", "handoff", "abortPublish", "abortClear",
            "recoverPublish", "recoverRelease"}
OtaStates == {"IDLE", "ERASING", "RECEIVING", "VERIFIED", "ACTIVATING",
              "COMPLETE", "ERROR"}
Notices == {"NONE", "WILL_WOM", "WOM_CANCELLED", "WILL_SHUTDOWN", "WILL_REBOOT"}

\* The fields are dead while planned is FALSE, so a cleared plan has one value.
NoPlan == [planned |-> FALSE, force |-> FALSE, normal |-> FALSE,
           manual |-> FALSE, announced |-> FALSE, deadline |-> 0,
           commitAt |-> 0, lastElig |-> 0]
Notice(kind, at) == [kind |-> kind, at |-> at]

Plans == [planned : BOOLEAN, force : BOOLEAN, normal : BOOLEAN, manual : BOOLEAN,
          announced : BOOLEAN, deadline : Int, commitAt : Int, lastElig : Int]
Budgets == [started : BOOLEAN, ends : Int]
Wires == [kind : Notices, at : Int]

\* Every variable keeps its type; in particular the generation stays a counter
\* of its width when it wraps (power_request.h:39).
TypeOK ==
  /\ mb \in Mailbox
  /\ lock \in {"free", "power", "setting"}
  /\ plan \in Plans /\ budget \in Budgets
  /\ wire \in Wires
  /\ now \in Nat
  /\ pc \in OwnerPcs /\ req \in PowerRequests /\ gen \in 0 .. GenMod - 1
  /\ veto \in BOOLEAN /\ consumed \in BOOLEAN
  /\ conn \in ConnPcs /\ otaState \in OtaStates
  /\ session \in BOOLEAN /\ pending \in BOOLEAN /\ abortReq \in BOOLEAN
  /\ suspended \in BOOLEAN
  /\ env \in [EnvFlags -> BOOLEAN]
  /\ power \in {"on", "off", "wom", "reset"}
  /\ faults \in Nat

Init ==
  /\ mb = EmptyMailbox /\ lock = "free" /\ plan = NoPlan
  /\ budget = [started |-> FALSE, ends |-> 0] /\ wire = Notice("NONE", 0)
  /\ now = 0
  /\ pc = "loop" /\ req = "NONE" /\ gen = 0 /\ veto = FALSE /\ consumed = FALSE
  /\ conn = "idle" /\ otaState = "IDLE"
  /\ session = FALSE /\ pending = FALSE /\ abortReq = FALSE
  /\ suspended = FALSE
  /\ \E ready \in BOOLEAN : env = [f \in EnvFlags |-> f = "ready" /\ ready]
  /\ power = "on" /\ faults = MaxFaults

-----------------------------------------------------------------------------
(* Guards and policy helpers *)

Running == power = "on"

\* esb_ota_is_active
OtaActive == pending \/ session

\* sys_wom_vetoed, and the part of it that also blocks SYSTEM_OFF
OffVetoed == OtaActive \/ env["suppressed"]
WomVetoed == OffVetoed \/ env["busy"] \/ suspended

\* The admission check shared by sys_request_WOM_now and
\* sys_wom_timeout_change_begin.
PolicyBusy == mb.phys \/ mb.ota # "NONE" \/ mb.request \in {"SYSTEM_OFF", "REBOOT"}

\* sys_cancel_WOM_locked: what it leaves in the plan and on the wire. It
\* returns at once when the shutdown is already physical.
PlanAfterCancelKept == plan                  \* mutant: the plan outlives its request
PlanAfterCancel == IF mb.phys THEN plan ELSE NoPlan
WireAfterCancelSilent == wire                \* mutant: the receiver is not told
WireAfterCancel == IF ~mb.phys /\ plan.announced THEN Notice("WOM_CANCELLED", 0) ELSE wire
CancelWom ==
  /\ mb' = MbCancelWom(mb)
  /\ plan' = PlanAfterCancel
  /\ wire' = WireAfterCancel

\* sys_wom_ready, and the boot budget as the call leaves it
LinkReady(force) == force \/ env["ready"]
BudgetAfter(force, deadline) ==
  IF ~LinkReady(force) /\ ~budget.started /\ now >= deadline
  THEN [started |-> TRUE, ends |-> now + BUDGET]
  ELSE budget
WomReady(force, deadline) ==
  \/ LinkReady(force)
  \/ /\ BudgetAfter(force, deadline).started
     /\ now >= BudgetAfter(force, deadline).ends

WomOf(force) == IF force THEN "WOM_FORCE" ELSE "WOM"
LaterFirst(a, b) == a                        \* mutant: the lead time is forgotten
Later(a, b) == IF a >= b THEN a ELSE b

-----------------------------------------------------------------------------
(* The sensor thread *)

\* The sensor loop samples main_suspended and the vetoes before it takes the
\* lock, so while main_imu_suspend waits for the loop an iteration that saw
\* the old values may still plan. It asks once the notice threshold is past.
SensorRuns == ~suspended \/ conn \in {"withdraw", "shutdown"}

SensorPlanWom(force, deadline, normal) ==
  LET stale == /\ plan.planned
               /\ \/ plan.force # force \/ plan.deadline # deadline
                  \/ plan.normal # normal \/ now - plan.lastElig >= LEASE
      m0 == IF stale THEN MbCancelWom(mb) ELSE mb
      p0 == IF stale THEN PlanAfterCancel ELSE plan
      w0 == IF stale THEN WireAfterCancel ELSE wire
      m1 == MbSubmit(m0, WomOf(force))
      p1 == [IF p0.planned THEN p0
             ELSE [NoPlan EXCEPT !.planned = TRUE, !.force = force,
                                 !.deadline = deadline, !.normal = normal]
             EXCEPT !.lastElig = now]
      ready == WomReady(force, p1.deadline)
  IN  /\ Running /\ SensorRuns /\ lock = "free" /\ ~plan.manual
      /\ now >= deadline - ADVANCE /\ (normal => force)
      /\ IF ~MbSubmitOk(m0, WomOf(force))
         THEN mb' = m0 /\ plan' = p0 /\ wire' = w0 /\ UNCHANGED budget
         ELSE /\ budget' = BudgetAfter(force, p1.deadline)
              /\ \/ /\ ~ready /\ p1.announced
                    /\ mb' = MbCancelWom(m1) /\ plan' = NoPlan
                    /\ wire' = Notice("WOM_CANCELLED", 0)
                 \/ /\ ready /\ ~p1.announced
                    /\ mb' = m1
                    /\ plan' = [p1 EXCEPT !.announced = TRUE,
                                          !.commitAt = Later(deadline, now + ADVANCE)]
                    /\ wire' = Notice("WILL_WOM", now)
                 \/ /\ ready = p1.announced
                    /\ mb' = m1 /\ plan' = p1 /\ wire' = w0
      /\ UNCHANGED <<lock, now, ownerVars, otaVars, suspended, worldVars>>

\* sys_cancel_WOM: motion, a lost eligibility or a sensor restart. The sensor
\* loop keeps a manual plan (sys_WOM_manual_pending); a restart does not.
SensorCancelWom ==
  /\ Running /\ lock = "free"
  /\ CancelWom
  /\ UNCHANGED <<lock, budget, now, ownerVars, otaVars, suspended, worldVars>>

-----------------------------------------------------------------------------
(* User commands *)

\* sys_power_state_request: WOM yields even when the request is refused.
RequestPower(r) ==
  /\ Running /\ lock = "free"
  /\ mb' = MbSubmit(MbCancelWom(mb), r)
  /\ plan' = PlanAfterCancel /\ wire' = WireAfterCancel
  /\ UNCHANGED <<lock, budget, now, ownerVars, otaVars, suspended, worldVars>>

RequestSystemOff == "OFF" \in Commands /\ RequestPower("SYSTEM_OFF")
RequestReboot == "REBOOT" \in Commands /\ RequestPower("REBOOT")

\* sys_request_WOM_now. One step although the vetoes are not protected by the
\* lock: without a reservation no session can be published meanwhile, and a
\* suspension is published before the lock is taken to withdraw the plan.
RequestWomNow ==
  /\ "WOM_NOW" \in Commands
  /\ Running /\ lock = "free"
  /\ ~PolicyBusy /\ ~WomVetoed /\ ~(plan.planned /\ plan.manual)
  /\ MbSubmitOk(MbCancelWom(mb), "WOM_FORCE")
  /\ mb' = MbSubmit(MbCancelWom(mb), "WOM_FORCE")
  /\ plan' = [planned |-> TRUE, force |-> TRUE, normal |-> FALSE, manual |-> TRUE,
              announced |-> TRUE, deadline |-> now, commitAt |-> now + ADVANCE,
              lastElig |-> now]
  /\ wire' = Notice("WILL_WOM", now)
  /\ UNCHANGED <<lock, budget, now, ownerVars, otaVars, suspended, worldVars>>

\* sys_wom_timeout_change_begin returns 0 holding the lock ...
SetTimeoutBegin ==
  /\ "SET_TIMEOUT" \in Commands
  /\ Running /\ lock = "free" /\ ~PolicyBusy
  /\ lock' = "setting"
  /\ UNCHANGED <<mb, policyVars, now, ownerVars, otaVars, suspended, worldVars>>

\* ... until sys_wom_timeout_change_end, after the setting was or was not saved.
SetTimeoutEnd(changed) ==
  /\ Running /\ lock = "setting" /\ lock' = "free"
  /\ IF changed /\ plan.planned /\ plan.normal
     THEN CancelWom
     ELSE UNCHANGED <<mb, plan, wire>>
  /\ UNCHANGED <<budget, now, ownerVars, otaVars, suspended, worldVars>>

-----------------------------------------------------------------------------
(* The power thread *)

Goto(l) == pc' = l /\ UNCHANGED <<req, gen, veto, consumed>>

\* A transition function returned c: the claimed call goes on to finish, the
\* battery/dock path, which claimed nothing, to the next iteration.
Return(c) ==
  /\ pc' = IF req = "NONE" THEN "loop" ELSE "finish"
  /\ consumed' = c /\ veto' = FALSE
  /\ UNCHANGED <<req, gen>>

Begin ==
  /\ Running /\ pc = "loop"
  /\ mb' = MbBegin(mb)
  /\ req' = MbClaimed(mb)
  /\ gen' = IF req' = "NONE" THEN 0 ELSE mb'.gen
  /\ pc' = CASE req' \in WomRequests -> "wom"
             [] req' = "SYSTEM_OFF" -> "off"
             [] req' = "REBOOT" -> "reboot"
             [] OTHER -> "finish"
  /\ consumed' = TRUE
  /\ UNCHANGED <<lock, policyVars, now, veto, otaVars, suspended, worldVars>>

\* sys_WOM, first half: the vetoes are read under the lock, but not protected by it.
WomEnter ==
  /\ Running /\ pc = "wom" /\ lock = "free"
  /\ lock' = "power" /\ veto' = WomVetoed /\ pc' = "womGate"
  /\ UNCHANGED <<mb, policyVars, now, req, gen, consumed, otaVars, suspended, worldVars>>

AtWomGate == Running /\ pc = "womGate" /\ lock' = "free"
WomForce == req = "WOM_FORCE"
WomWithdrawn ==
  \/ veto \/ ~plan.planned
  \/ ~plan.manual /\ now - plan.lastElig >= LEASE
WomUnready == plan.announced /\ ~WomReady(WomForce, plan.deadline)

WomStale ==
  /\ AtWomGate /\ ~MbWomClaimCurrent(mb, gen)
  /\ Return(TRUE)
  /\ UNCHANGED <<mb, policyVars, now, otaVars, suspended, worldVars>>

WomGiveUp ==
  /\ AtWomGate /\ MbWomClaimCurrent(mb, gen)
  /\ WomWithdrawn \/ WomUnready
  /\ budget' = IF ~WomWithdrawn THEN BudgetAfter(WomForce, plan.deadline) ELSE budget
  /\ CancelWom
  /\ Return(TRUE)
  /\ UNCHANGED <<now, otaVars, suspended, worldVars>>

WomEarly ==
  /\ AtWomGate /\ MbWomClaimCurrent(mb, gen)
  /\ ~WomWithdrawn /\ ~WomUnready
  /\ ~plan.announced \/ now < plan.commitAt
  /\ Return(FALSE)
  /\ UNCHANGED <<mb, policyVars, now, otaVars, suspended, worldVars>>

\* The gate: from here the intent is irrevocable.
WomCommit ==
  /\ AtWomGate /\ MbWomClaimCurrent(mb, gen)
  /\ ~WomWithdrawn /\ ~WomUnready
  /\ plan.announced /\ now >= plan.commitAt
  /\ IF MbStartWomOk(mb, gen)
     THEN mb' = MbStart(mb) /\ plan' = NoPlan /\ Goto("womCfg")
     ELSE UNCHANGED <<mb, plan>> /\ Return(FALSE)
  /\ UNCHANGED <<budget, wire, now, otaVars, suspended, worldVars>>

\* sys_system_off, claimed or private: WOM yields, then the OTA guard is read.
OffEnter ==
  /\ Running /\ pc = "off" /\ lock = "free"
  /\ lock' = "power" /\ CancelWom
  /\ veto' = OffVetoed /\ pc' = "offGate"
  /\ UNCHANGED <<budget, now, req, gen, consumed, otaVars, suspended, worldVars>>

OffBlocked ==
  /\ Running /\ pc = "offGate" /\ lock' = "free"
  /\ veto \/ ~MbStartPhysicalOk(mb, FALSE)
  /\ Return(FALSE)
  /\ UNCHANGED <<mb, policyVars, now, otaVars, suspended, worldVars>>

OffCommit ==
  /\ Running /\ pc = "offGate" /\ lock' = "free"
  /\ ~veto /\ MbStartPhysicalOk(mb, FALSE)
  /\ mb' = MbStart(mb)
  /\ wire' = Notice("WILL_SHUTDOWN", 0)
  /\ Goto("offCfg")
  /\ UNCHANGED <<plan, budget, now, otaVars, suspended, worldVars>>

\* sys_system_reboot up to its gate, also reached after a failed WOM setup.
\* Only the mailbox guards it, so this critical section is one step.
RebootGate ==
  /\ Running /\ pc = "reboot" /\ lock = "free"
  /\ IF MbStartPhysicalOk(MbCancelWom(mb), TRUE)
     THEN /\ mb' = MbStart(MbCancelWom(mb))
          /\ wire' = Notice("WILL_REBOOT", 0)
          /\ Goto("rebootCfg")
     ELSE /\ mb' = MbCancelWom(mb)
          /\ wire' = WireAfterCancel
          /\ Return(req \in WomRequests)
  /\ plan' = PlanAfterCancel
  /\ UNCHANGED <<lock, budget, now, otaVars, suspended, worldVars>>

\* configure_system_off succeeds: the sensors are suspended and shut down
\* (main_imu_suspend takes the lock to cancel a WOM), and the tracker leaves,
\* or goes on to arm the wake-on-motion interrupt.
Configured(at) == /\ Running /\ pc = at /\ lock = "free"
                  /\ suspended' = TRUE /\ CancelWom
                  /\ UNCHANGED <<lock, budget, now, otaVars, env, faults>>

WomConfigured == Configured("womCfg") /\ Goto("womSetup") /\ UNCHANGED power
OffConfigured == Configured("offCfg") /\ power' = "off" /\ UNCHANGED ownerVars
RebootConfigured == Configured("rebootCfg") /\ power' = "reset" /\ UNCHANGED ownerVars

\* configure_system_off fails: in the heater abort or the temperature
\* invalidation, before the sensors are suspended, or in sensor_shutdown, after.
\* sys_WOM returns TRUE whatever became of the reboot it starts.
ConfigureFails(at) ==
  /\ Running /\ pc = at /\ lock = "free" /\ faults > 0
  /\ faults' = faults - 1
  /\ \/ UNCHANGED <<suspended, mb, plan, wire>>
     \/ suspended' = TRUE /\ CancelWom
  /\ Return(at = "rebootCfg" /\ req \in WomRequests)
  /\ UNCHANGED <<lock, budget, now, otaVars, env, power>>

WomSleep ==
  /\ Running /\ pc = "womSetup"
  /\ power' = "wom"
  /\ UNCHANGED <<mb, lock, policyVars, now, ownerVars, otaVars, suspended, env, faults>>

\* sensor_setup_WOM failed: announce the cancellation, then the emergency reboot.
\* Its scan has lifted the suspension, unless the heater blocked the scan.
WomSetupFails ==
  /\ Running /\ pc = "womSetup" /\ faults > 0
  /\ faults' = faults - 1
  /\ suspended' \in BOOLEAN
  /\ wire' = Notice("WOM_CANCELLED", 0)
  /\ Goto("reboot")
  /\ UNCHANGED <<mb, lock, plan, budget, now, otaVars, env, power>>

\* power_request_finish; the claim is over.
Finish ==
  /\ Running /\ pc = "finish"
  /\ mb' = MbFinish(mb, req, gen, consumed)
  /\ pc' = "battery" /\ req' = "NONE" /\ gen' = 0
  /\ veto' = FALSE /\ consumed' = FALSE
  /\ UNCHANGED <<lock, policyVars, now, otaVars, suspended, worldVars>>

\* The rest of the iteration: a drained battery or a dock shuts the tracker
\* down without a mailbox claim.
Battery ==
  /\ Running /\ pc = "battery"
  /\ Goto(IF env["drained"] THEN "off" ELSE "loop")
  /\ UNCHANGED <<mb, lock, policyVars, now, otaVars, suspended, worldVars>>

-----------------------------------------------------------------------------
(* The OTA client on the connection thread *)

ConnAt(l) == Running /\ conn = l

\* sys_ota_reboot_reserve succeeds: the reservation withdraws a planned WOM.
OtaReserve ==
  /\ lock = "free" /\ MbOtaReserveOk(mb)
  /\ mb' = MbCancelWom(MbOtaReserve(mb))
  /\ plan' = PlanAfterCancel /\ wire' = WireAfterCancel
  /\ UNCHANGED <<lock, budget, now, ownerVars, suspended, worldVars>>

OtaResolve(prepared) ==
  /\ lock = "free"
  /\ mb' = MbOtaResolve(mb, prepared)
  /\ UNCHANGED <<lock, policyVars, now, ownerVars, suspended, worldVars>>

OtaLocal == UNCHANGED <<mb, lock, policyVars, now, ownerVars, worldVars>>

\* ota_begin_impl, after the packet checks: reserve, publish the session,
\* release the reservation, then suspend and shut down the sensors.
BeginReserve ==
  /\ OtaEnabled /\ ConnAt("idle") /\ ~abortReq /\ ~OtaActive
  /\ OtaReserve
  /\ conn' = "publish"
  /\ UNCHANGED <<otaState, session, pending, abortReq>>

BeginPublish ==
  /\ ConnAt("publish")
  /\ session' = TRUE /\ otaState' = "ERASING" /\ conn' = "release"
  /\ OtaLocal /\ UNCHANGED <<pending, abortReq, suspended>>

BeginRelease ==
  /\ ConnAt("release")
  /\ OtaResolve(FALSE)
  /\ conn' = "suspend"
  /\ UNCHANGED <<otaState, session, pending, abortReq>>

\* main_imu_suspend publishes the suspension before it withdraws a WOM plan.
BeginSuspend ==
  /\ ConnAt("suspend")
  /\ suspended' = TRUE /\ conn' = "withdraw"
  /\ OtaLocal /\ UNCHANGED <<otaState, session, pending, abortReq>>

BeginWithdraw ==
  /\ ConnAt("withdraw") /\ lock = "free"
  /\ CancelWom
  /\ conn' = "shutdown"
  /\ UNCHANGED <<lock, budget, now, ownerVars, otaState, session, pending, abortReq,
                 suspended, worldVars>>

\* sensor_shutdown succeeds or fails, or the suspension already failed.
BeginReady ==
  /\ ConnAt("shutdown")
  /\ otaState' = "RECEIVING" /\ conn' = "idle"
  /\ OtaLocal /\ UNCHANGED <<session, pending, abortReq, suspended>>

BeginFails ==
  /\ Running /\ conn \in {"suspend", "shutdown"}
  /\ otaState' = "ERROR" /\ conn' = "idle"
  /\ OtaLocal /\ UNCHANGED <<session, pending, abortReq, suspended>>

\* esb_ota_process_rx_packet serves a pending abort first and ignores packets
\* once a reboot is owed.
PacketHandled == ConnAt("idle") /\ ~abortReq /\ ~pending

\* The data phase: the image verifies, or a write or the verification fails.
Verify(result) ==
  /\ PacketHandled /\ otaState \in {"RECEIVING", "VERIFIED"}
  /\ otaState' = result
  /\ OtaLocal /\ UNCHANGED <<conn, session, pending, abortReq, suspended>>

\* ota_activate_impl
ActivateReserve ==
  /\ PacketHandled /\ otaState = "VERIFIED"
  /\ OtaReserve
  /\ otaState' = "ACTIVATING" /\ conn' = "prepare"
  /\ UNCHANGED <<session, pending, abortReq>>

ActivateFails ==
  /\ ConnAt("prepare")
  /\ OtaResolve(FALSE)
  /\ otaState' = "ERROR" /\ conn' = "idle"
  /\ UNCHANGED <<session, pending, abortReq>>

ActivatePrepared ==
  /\ ConnAt("prepare")
  /\ pending' = TRUE /\ otaState' = "COMPLETE" /\ conn' = "handoff"
  /\ OtaLocal /\ UNCHANGED <<session, abortReq, suspended>>

\* esb_ota_flash_copy_and_reset resets the chip itself; when there is nothing
\* to copy, the power owner is asked to.
ActivateCopies ==
  /\ ConnAt("handoff")
  /\ power' = "reset"
  /\ UNCHANGED <<mb, lock, policyVars, now, ownerVars, otaVars, suspended, env, faults>>

ActivateRelease ==
  /\ ConnAt("handoff")
  /\ OtaResolve(TRUE)
  /\ conn' = "idle"
  /\ UNCHANGED <<otaState, session, pending, abortReq>>

\* esb_ota_request_abort, from the remote-command thread or the radio interrupt
AbortRequest ==
  /\ Running /\ session /\ ~pending
  /\ abortReq' = TRUE
  /\ OtaLocal /\ UNCHANGED <<conn, otaState, session, pending, suspended>>

\* esb_ota_service takes the abort; one that meets a physical shutdown or an
\* owed reboot is dropped.
AbortDropped ==
  /\ ConnAt("idle") /\ abortReq
  /\ pending \/ ~session \/ (lock = "free" /\ ~MbOtaReserveOk(mb))
  /\ abortReq' = FALSE
  /\ OtaLocal /\ UNCHANGED <<conn, otaState, session, pending, suspended>>

AbortReserve ==
  /\ ConnAt("idle") /\ abortReq /\ session /\ ~pending
  /\ OtaReserve
  /\ abortReq' = FALSE /\ conn' = "abortPublish"
  /\ UNCHANGED <<otaState, session, pending>>

\* Mutant: the session is cleared before the handoff is published.
AbortPublishLate ==
  /\ ConnAt("abortPublish")
  /\ session' = FALSE /\ conn' = "abortClear"
  /\ OtaLocal /\ UNCHANGED <<otaState, pending, abortReq, suspended>>

\* ota_abort publishes the terminal handoff before it clears the session.
AbortPublish ==
  /\ ConnAt("abortPublish")
  /\ pending' = TRUE /\ conn' = "abortClear"
  /\ OtaLocal /\ UNCHANGED <<otaState, session, abortReq, suspended>>

AbortClear ==
  /\ ConnAt("abortClear")
  /\ session' = FALSE /\ otaState' = "IDLE" /\ conn' = "recoverRelease"
  /\ OtaLocal /\ UNCHANGED <<pending, abortReq, suspended>>

\* esb_ota_service recovers a session that failed or timed out.
RecoverReserve ==
  /\ ConnAt("idle") /\ ~abortReq /\ session /\ ~pending
  /\ OtaReserve
  /\ conn' = "recoverPublish"
  /\ UNCHANGED <<otaState, session, pending, abortReq>>

RecoverPublish ==
  /\ ConnAt("recoverPublish")
  /\ pending' = TRUE /\ otaState' = "ERROR" /\ conn' = "recoverRelease"
  /\ OtaLocal /\ UNCHANGED <<session, abortReq, suspended>>

RecoverRelease ==
  /\ ConnAt("recoverRelease")
  /\ OtaResolve(TRUE)
  /\ conn' = "idle"
  /\ UNCHANGED <<otaState, session, pending, abortReq>>

-----------------------------------------------------------------------------
(* The world *)

Toggle(flag) ==
  /\ Running
  /\ env' = [env EXCEPT ![flag] = ~env[flag]]
  /\ UNCHANGED <<mb, lock, policyVars, now, ownerVars, otaVars, suspended, power, faults>>

Tick ==
  /\ Running /\ now < MaxTime
  /\ now' = now + 1
  /\ UNCHANGED <<mb, lock, policyVars, ownerVars, otaVars, suspended, worldVars>>

\* The next boot: RAM is lost, the faults left are not renewed.
Boot ==
  /\ ~Running
  /\ mb' = EmptyMailbox /\ lock' = "free" /\ plan' = NoPlan
  /\ budget' = [started |-> FALSE, ends |-> 0] /\ wire' = Notice("NONE", 0)
  /\ now' = 0
  /\ pc' = "loop" /\ req' = "NONE" /\ gen' = 0 /\ veto' = FALSE /\ consumed' = FALSE
  /\ conn' = "idle" /\ otaState' = "IDLE"
  /\ session' = FALSE /\ pending' = FALSE /\ abortReq' = FALSE
  /\ suspended' = FALSE /\ power' = "on"
  /\ UNCHANGED <<env, faults>>

OwnerStep ==
  \/ Begin \/ WomEnter \/ WomStale \/ WomGiveUp \/ WomEarly \/ WomCommit
  \/ OffEnter \/ OffBlocked \/ OffCommit \/ RebootGate
  \/ WomConfigured \/ OffConfigured \/ RebootConfigured
  \/ \E at \in {"womCfg", "offCfg", "rebootCfg"} : ConfigureFails(at)
  \/ WomSleep \/ WomSetupFails \/ Finish \/ Battery

BeginSteps ==
  \/ BeginPublish \/ BeginRelease \/ BeginSuspend \/ BeginWithdraw
  \/ BeginReady \/ BeginFails

HandoffSteps ==
  \/ ActivateFails \/ ActivatePrepared \/ ActivateCopies \/ ActivateRelease
  \/ AbortDropped \/ AbortReserve \/ AbortPublish \/ AbortClear
  \/ RecoverReserve \/ RecoverPublish \/ RecoverRelease

ConnStep ==
  \/ BeginReserve \/ BeginSteps \/ ActivateReserve \/ HandoffSteps
  \/ \E result \in {"VERIFIED", "ERROR"} : Verify(result)

ClientStep ==
  \/ \E force, normal \in BOOLEAN, d \in Deadlines : SensorPlanWom(force, d, normal)
  \/ SensorCancelWom
  \/ RequestSystemOff \/ RequestReboot \/ RequestWomNow
  \/ SetTimeoutBegin \/ \E changed \in BOOLEAN : SetTimeoutEnd(changed)
  \/ AbortRequest

WorldStep == Tick \/ Boot \/ \E flag \in Toggles : Toggle(flag)

Next == OwnerStep \/ ConnStep \/ ClientStep \/ WorldStep

Spec == Init /\ [][Next]_vars

-----------------------------------------------------------------------------
(* Fairness. The power thread never blocks for good: it loops at least every  *)
(* 100 ms, and a waiter gets power_plan_lock when its holder releases it. The *)
(* connection thread calls esb_ota_service first in every iteration, so a     *)
(* handler it entered runs on and a session that fails or falls silent is     *)
(* recovered. RecoverReserve also assumes a receiver that does fall silent:   *)
(* one that repeats VERIFY, the only packet that renews the timeout without   *)
(* progress (esb_ota.c:699), could hold a session for ever.                   *)

OwnerLocks == WomEnter \/ OffEnter \/ RebootGate
ConnLocks == BeginSteps \/ HandoffSteps

Fairness ==
  /\ WF_vars(OwnerStep) /\ SF_vars(OwnerLocks)
  /\ SF_vars(ConnLocks)
  /\ WF_vars(\E changed \in BOOLEAN : SetTimeoutEnd(changed))

FairSpec == Spec /\ Fairness

-----------------------------------------------------------------------------
(* Properties *)

\* Inside the physical part of a sleep or a shutdown. A reboot is not listed:
\* it may run while an update is in progress, and must when one owes it.
GoingDown == pc \in {"womCfg", "womSetup", "offCfg"}

\* No sleep and no shutdown, claimed or private, runs while an OTA update owns
\* or has reserved the hardware: the guard sys_system_off and sys_WOM read is
\* still good at their physical gate (power.c:616-623, 730-740).
NoShutdownDuringOta == Running /\ GoingDown => ~OtaActive /\ mb.ota = "NONE"

\* A request is EXECUTING only as the claim the power thread is working on:
\* no completion or cancellation can hit a replacement, although generations
\* wrap (power_request.h:100-118, 137-149).
ClaimIsCurrent ==
  mb.state = "EXECUTING" =>
    /\ pc \notin {"loop", "battery"}
    /\ mb.request = req /\ mb.gen = gen

\* A plan the policy believes in is backed by its request in the mailbox, so
\* the owner will look at it, and it never coexists with an OTA reservation or
\* a physical shutdown (power.c:383-398, 528-571).
PlanIsBacked ==
  Running /\ plan.planned =>
    /\ mb.request = WomOf(plan.force) /\ mb.state # "EMPTY"
    /\ ~mb.phys /\ mb.ota = "NONE"

\* The receiver is told when an announced sleep is withdrawn: as long as no
\* shutdown step has failed, a WILL_WOM that was not followed by another
\* notice stands for a live plan or a sleep under way (README.md:121-124).
AnnouncementStands ==
  Running /\ faults = MaxFaults /\ wire.kind = "WILL_WOM" =>
    plan.announced \/ pc \in {"womCfg", "womSetup"}

\* Every sleep that commits was announced at least ADVANCE before, with no
\* cancellation since: withdrawing a plan, whoever does it, takes the lead
\* time with it (README.md:121-124).
SleepIsAnnounced ==
  [][pc = "womGate" /\ pc' = "womCfg" =>
       wire.kind = "WILL_WOM" /\ now - wire.at >= ADVANCE]_vars

\* A prepared update is owed its reboot until the tracker resets: no failure,
\* retry or competing request replaces it (power_request.h:182-184).
OtaRebootIsOwed ==
  [][Running /\ mb.ota = "READY" =>
       IF power' = "on" THEN mb'.ota = "READY" ELSE power' = "reset"]_vars

\* Once BEGIN has published its session the update is active until the
\* tracker is gone, through an abort and a recovery too: nothing else can be
\* admitted in between (esb_ota.c:187-190, 804-811).
OtaStaysActive == [][Running /\ OtaActive => OtaActive' \/ power' # "on"]_vars

\* The owner implements the abstract arbiter.
Holder == IF ~Running THEN power
          ELSE IF mb.phys THEN "shutdown"
          ELSE IF mb.ota = "RESERVED" THEN "ota" ELSE "free"
Arbiter == INSTANCE PowerArbiter WITH holder <- Holder, prepared <- mb.ota = "READY"
ImplementsArbiter == Arbiter!Spec

\* An accepted SYSTEM_OFF ends with the tracker gone, whatever the sensor, the
\* users and an OTA update do meanwhile, unless suppression keeps coming back
\* and vetoes it (power.c:735).
OffHappens == <>[]~env["suppressed"] => (mb.request = "SYSTEM_OFF" ~> ~Running)

\* Every admitted OTA session ends in a reset or a power-off, as long as the
\* receiver does not repeat VERIFY for ever (esb_ota.c:447, 838).
UpdateEnds == OtaActive ~> ~Running

-----------------------------------------------------------------------------
(* The inductive invariant behind the safety properties *)

\* Where the power thread is says what it claimed.
ClaimMatchesPc ==
  /\ pc \in {"loop", "battery"} => req = "NONE"
  /\ pc \in {"wom", "womGate", "womCfg", "womSetup"} => req \in WomRequests
  /\ pc \in {"off", "offGate", "offCfg"} => req \in {"NONE", "SYSTEM_OFF"}
  /\ pc \in {"reboot", "rebootCfg"} => req \in {"REBOOT"} \cup WomRequests
  /\ pc = "finish" /\ req = "REBOOT" => ~consumed

\* Nothing but the owner ends a claim on OFF or REBOOT, or on a WOM past its gate.
ClaimIsKept ==
  \/ pc \notin {"off", "offGate", "offCfg", "reboot", "rebootCfg", "womCfg",
                 "womSetup", "finish"}
  \/ pc = "finish" /\ req \in {"NONE"} \cup WomRequests
  \/ req = "NONE"
  \/ mb.state = "EXECUTING"

\* An OTA handler holds the reservation exactly while it is between reserve
\* and resolve, and never together with a physical shutdown.
ReservingPcs == {"publish", "release", "prepare", "handoff", "abortPublish",
                 "abortClear", "recoverPublish", "recoverRelease"}
ReservationMatchesConn ==
  /\ mb.ota = "RESERVED" <=> conn \in ReservingPcs
  /\ mb.ota = "RESERVED" => ~mb.phys
  /\ mb.ota = "READY" => pending
  /\ pending => mb.ota # "NONE"
  /\ conn \in {"handoff", "abortClear", "recoverRelease"} => pending
  /\ conn \in {"publish", "release", "prepare"} => ~pending

\* The critical sections of the power thread hold the lock, so a session that
\* was published after the guard was read still holds its reservation.
GuardIsGood ==
  /\ lock = "power" <=> pc \in {"womGate", "offGate"}
  /\ lock = "power" /\ ~veto /\ OtaActive => mb.ota = "RESERVED"

\* Physical work belongs to no update, except the reboot one is owed.
PhysicalIsExclusive ==
  /\ GoingDown => mb.phys /\ mb.ota = "NONE" /\ ~OtaActive
  /\ pc \in {"reboot", "rebootCfg"} /\ req \in WomRequests => mb.phys /\ mb.ota = "NONE"
  /\ pc = "rebootCfg" => mb.phys
  /\ mb.phys /\ mb.ota = "READY" => pc \in {"rebootCfg", "finish"} /\ req = "REBOOT"

\* Taken together: the claim, the reservation, the guard a critical section has
\* read and the physical flag always name one and the same owner of the
\* hardware (power_request.h:76-118, 166-209, power.c:616-623, 726-740).
OwnerInv ==
  /\ MbFilled(mb)
  /\ ClaimIsCurrent
  /\ ClaimMatchesPc
  /\ ClaimIsKept
  /\ ReservationMatchesConn
  /\ GuardIsGood
  /\ PhysicalIsExclusive

=============================================================================
