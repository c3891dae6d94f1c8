-------------------------- MODULE PowerOwnerProofs --------------------------
(***************************************************************************)
(* Safety of the power owner for every value of the constants: any number  *)
(* of deadlines, any timing, any number of failing shutdown steps, every   *)
(* width of the generation counter.                                        *)
(***************************************************************************)
EXTENDS PowerOwner, TLAPS

-----------------------------------------------------------------------------
(* The mailbox: what each operation keeps and changes, for every mailbox and *)
(* every width of the generation counter.  The proofs below cite these facts *)
(* and never open the operations.                                            *)

\* The generation stays within its width (uint32_t, power_request.h:39).
LEMMA NextGenType == \A g \in 0 .. GenMod - 1 : NextGen(g) \in 0 .. GenMod - 1
  BY GenModAssumption, Z3 DEF NextGen

\* A zero-initialized mailbox is a mailbox (power_request.h:10).
LEMMA EmptyMailboxType == EmptyMailbox \in Mailbox
  BY GenModAssumption
  DEF EmptyMailbox, Mailbox, PowerRequests, RequestStates, OtaReboots, WomRequests

\* power_request_submit touches neither the OTA reservation nor the physical
\* flag, and writes only a vacant slot.
LEMMA SubmitFacts ==
  ASSUME NEW m \in Mailbox, NEW r \in PowerRequests
  PROVE  /\ MbSubmit(m, r) \in Mailbox
         /\ MbSubmit(m, r).ota = m.ota /\ MbSubmit(m, r).phys = m.phys
         /\ m.state = "EXECUTING" => MbSubmit(m, r) = m
         /\ MbSubmit(m, r).state = "EXECUTING" => m.state = "EXECUTING"
         /\ MbFilled(m) /\ r # "NONE" => MbFilled(MbSubmit(m, r))
  <1>1. NextGen(m.gen) \in 0 .. GenMod - 1
    BY NextGenType DEF Mailbox
  <1> QED
    BY <1>1 DEF MbSubmit, MbVacant, MbFilled, Mailbox, RequestStates

\* power_request_cancel_wom removes a reversible WOM and nothing else.
LEMMA CancelWomFacts ==
  ASSUME NEW m \in Mailbox
  PROVE  /\ MbCancelWom(m) \in Mailbox
         /\ MbCancelWom(m).ota = m.ota /\ MbCancelWom(m).phys = m.phys
         /\ m.phys => MbCancelWom(m) = m
         /\ m.request \notin WomRequests => MbCancelWom(m) = m
         /\ MbCancelWom(m).state = "EXECUTING" => MbCancelWom(m) = m
         /\ MbFilled(m) => MbFilled(MbCancelWom(m))
  <1>1. NextGen(m.gen) \in 0 .. GenMod - 1
    BY NextGenType DEF Mailbox
  <1> QED
    BY <1>1 DEF MbCancelWom, MbFilled, Mailbox, RequestStates, PowerRequests

\* power_request_ota_reserve changes the reservation alone.
LEMMA ReserveFacts ==
  ASSUME NEW m \in Mailbox, MbOtaReserveOk(m)
  PROVE  /\ MbOtaReserve(m) \in Mailbox
         /\ m.ota = "NONE" /\ m.phys = FALSE
         /\ MbOtaReserve(m).ota = "RESERVED"
         /\ MbOtaReserve(m).phys = m.phys
         /\ MbOtaReserve(m).state = m.state
         /\ MbOtaReserve(m).request = m.request
         /\ MbOtaReserve(m).gen = m.gen
  BY DEF MbOtaReserve, MbOtaReserveOk, Mailbox, OtaReboots

\* power_request_ota_resolve, called by the holder of the reservation.
LEMMA ResolveFacts ==
  ASSUME NEW m \in Mailbox, NEW prepared \in BOOLEAN, m.ota = "RESERVED"
  PROVE  /\ MbOtaResolve(m, prepared) \in Mailbox
         /\ MbOtaResolve(m, prepared).ota = (IF prepared THEN "READY" ELSE "NONE")
         /\ MbOtaResolve(m, prepared).phys = m.phys
         /\ MbOtaResolve(m, prepared).state = m.state
         /\ MbOtaResolve(m, prepared).request = m.request
         /\ MbOtaResolve(m, prepared).gen = m.gen
  BY DEF MbOtaResolve, Mailbox, OtaReboots

\* power_request_begin claims at most the request in the slot, which it marks
\* EXECUTING, and leaves the reservation and the physical flag alone.
LEMMA BeginFacts ==
  ASSUME NEW m \in Mailbox, m.state # "EXECUTING"
  PROVE  /\ MbBegin(m) \in Mailbox
         /\ MbBegin(m).ota = m.ota /\ MbBegin(m).phys = m.phys
         /\ MbClaimed(m) \in PowerRequests
         /\ MbClaimable(MbSupersede(m)) =>
              /\ MbBegin(m).state = "EXECUTING"
              /\ MbBegin(m).request = MbClaimed(m)
         /\ ~MbClaimable(MbSupersede(m)) =>
              MbBegin(m).state # "EXECUTING" /\ MbClaimed(m) = "NONE"
         /\ MbFilled(m) => MbFilled(MbBegin(m))
  <1>1. NextGen(m.gen) \in 0 .. GenMod - 1
    BY NextGenType DEF Mailbox
  <1>2. /\ MbSupersede(m) \in Mailbox
        /\ MbSupersede(m).ota = m.ota /\ MbSupersede(m).phys = m.phys
        /\ MbSupersede(m).state # "EXECUTING"
        /\ MbFilled(m) => MbFilled(MbSupersede(m))
    BY <1>1 DEF MbSupersede, MbFilled, Mailbox, RequestStates, PowerRequests, WomRequests
  <1> QED
    BY <1>2 DEF MbBegin, MbClaimed, MbClaimable, MbFilled, Mailbox, RequestStates,
                PowerRequests, WomRequests

\* Whatever state the slot is in, the owner is handed a request.
LEMMA BeginTypes ==
  ASSUME NEW m \in Mailbox
  PROVE  MbBegin(m) \in Mailbox /\ MbClaimed(m) \in PowerRequests
  <1>1. MbSupersede(m) \in Mailbox
    BY NextGenType DEF MbSupersede, Mailbox, RequestStates, PowerRequests, WomRequests
  <1> QED
    BY <1>1 DEF MbBegin, MbClaimed, MbClaimable, Mailbox, RequestStates, PowerRequests

\* power_request_finish ends exactly the claim it names: then the physical flag
\* drops and the slot is empty or waits for a retry. Only a consumed reboot
\* clears what is owed to OTA.
LEMMA FinishFacts ==
  ASSUME NEW m \in Mailbox, NEW r \in PowerRequests, NEW g, NEW c \in BOOLEAN
  PROVE  /\ MbFinish(m, r, g, c) \in Mailbox
         /\ m.state = "EXECUTING" /\ m.request = r /\ m.gen = g =>
              /\ MbFinish(m, r, g, c).phys = FALSE
              /\ MbFinish(m, r, g, c).state # "EXECUTING"
         /\ ~(m.state = "EXECUTING" /\ m.request = r /\ m.gen = g) => MbFinish(m, r, g, c) = m
         /\ r # "REBOOT" \/ ~c => MbFinish(m, r, g, c).ota = m.ota
         /\ MbFilled(m) => MbFilled(MbFinish(m, r, g, c))
  BY DEF MbFinish, MbFilled, Mailbox, RequestStates, PowerRequests, OtaReboots

\* The physical gates set the physical flag and nothing else.
LEMMA StartFacts ==
  ASSUME NEW m \in Mailbox
  PROVE  /\ MbStart(m) \in Mailbox
         /\ MbStart(m).phys = TRUE
         /\ MbStart(m).ota = m.ota /\ MbStart(m).state = m.state
         /\ MbStart(m).request = m.request /\ MbStart(m).gen = m.gen
  BY DEF MbStart, Mailbox

-----------------------------------------------------------------------------
(* The owner *)

USE DEF ownerVars, policyVars, otaVars, worldVars

-----------------------------------------------------------------------------
(* Types *)

\* The cleared plan is a plan.
LEMMA NoPlanType == NoPlan \in Plans
  BY DEF NoPlan, Plans

\* A notice may carry any time it was queued at.
LEMMA NoticeType == \A kind \in Notices, at \in Int : Notice(kind, at) \in Wires
  BY DEF Notice, Wires

\* A withdrawn plan and the notice of its withdrawal have the right type.
LEMMA CancelType ==
  ASSUME TypeOK
  PROVE  /\ MbCancelWom(mb) \in Mailbox
         /\ PlanAfterCancel \in Plans
         /\ WireAfterCancel \in Wires
  <1>1. Notice("WOM_CANCELLED", 0) \in Wires
    BY NoticeType DEF Notices
  <1> QED
    BY <1>1, NoPlanType, CancelWomFacts DEF TypeOK, PlanAfterCancel, WireAfterCancel

\* The readiness budget stays an integer deadline (power.c:512-517).
LEMMA BudgetType ==
  ASSUME TypeOK, NEW force \in BOOLEAN, NEW d \in Int
  PROVE  BudgetAfter(force, d) \in Budgets
  BY ConstantsAssumption DEF TypeOK, BudgetAfter, Budgets

\* Boot leaves every variable in its type.
LEMMA TypeInit == Init => TypeOK
  <1> SUFFICES ASSUME Init PROVE TypeOK
    OBVIOUS
  <1>1. env \in [EnvFlags -> BOOLEAN]
    BY DEF Init
  <1>2. wire \in Wires
    BY NoticeType DEF Init, Notices
  <1>3. gen \in 0 .. GenMod - 1
    BY GenModAssumption DEF Init
  <1>4. mb \in Mailbox /\ plan \in Plans
    BY EmptyMailboxType, NoPlanType DEF Init
  <1>5. budget \in Budgets /\ now \in Nat /\ faults \in Nat
    BY ConstantsAssumption DEF Init, Budgets
  <1>6. pc \in OwnerPcs /\ req \in PowerRequests /\ conn \in ConnPcs /\ otaState \in OtaStates
    BY DEF Init, OwnerPcs, PowerRequests, ConnPcs, OtaStates
  <1>7. /\ lock \in {"free", "power", "setting"} /\ veto \in BOOLEAN /\ consumed \in BOOLEAN
        /\ session \in BOOLEAN /\ pending \in BOOLEAN /\ abortReq \in BOOLEAN
        /\ suspended \in BOOLEAN /\ power \in {"on", "off", "wom", "reset"}
    BY DEF Init
  <1> QED
    BY <1>1, <1>2, <1>3, <1>4, <1>5, <1>6, <1>7 DEF TypeOK

\* Planning a sleep, with the withdrawal of a stale plan it may include, keeps
\* the types (power.c:528-571).
LEMMA TypeSensorPlan ==
  ASSUME TypeOK, NEW force \in BOOLEAN, NEW normal \in BOOLEAN, NEW d \in Deadlines,
         SensorPlanWom(force, d, normal)
  PROVE  TypeOK'
  <1> DEFINE stale == /\ plan.planned
                      /\ \/ plan.force # force \/ plan.deadline # d
                         \/ plan.normal # normal \/ now - plan.lastElig >= LEASE
             m0 == IF stale THEN MbCancelWom(mb) ELSE mb
             p0 == IF stale THEN PlanAfterCancel ELSE plan
             w0 == IF stale THEN WireAfterCancel ELSE wire
             m1 == MbSubmit(m0, WomOf(force))
             fresh == [NoPlan EXCEPT !.planned = TRUE, !.force = force,
                                     !.deadline = d, !.normal = normal]
             p1 == [IF p0.planned THEN p0 ELSE fresh EXCEPT !.lastElig = now]
             p2 == [p1 EXCEPT !.announced = TRUE, !.commitAt = Later(d, now + ADVANCE)]
  <1>1. d \in Int /\ now \in Int /\ now + ADVANCE \in Int
    BY ConstantsAssumption DEF TypeOK
  <1>2. m0 \in Mailbox /\ p0 \in Plans /\ w0 \in Wires
    BY CancelType DEF TypeOK
  <1>3. m1 \in Mailbox /\ MbCancelWom(m1) \in Mailbox
    <2>1. WomOf(force) \in PowerRequests
      BY DEF WomOf, PowerRequests, WomRequests
    <2>2. m1 \in Mailbox
      <3> HIDE DEF m0
      <3> QED BY <1>2, <2>1, SubmitFacts
    <2> HIDE DEF m1
    <2> QED
      BY <2>2, CancelWomFacts
  <1>4. p1 \in Plans
    <2>1. fresh \in Plans
      BY <1>1, NoPlanType DEF Plans
    <2> HIDE DEF p0, fresh
    <2>2. (IF p0.planned THEN p0 ELSE fresh) \in Plans
      BY <1>2, <2>1
    <2> QED
      BY <1>1, <2>2 DEF Plans
  <1> HIDE DEF m0, p0, w0, m1, p1
  <1>5. p2 \in Plans
    <2>1. Later(d, now + ADVANCE) \in Int
      BY <1>1 DEF Later
    <2> QED
      BY <2>1, <1>4 DEF Plans
  <1>6. Notice("WOM_CANCELLED", 0) \in Wires /\ Notice("WILL_WOM", now) \in Wires
    BY <1>1, NoticeType DEF Notices
  <1>7. BudgetAfter(force, p1.deadline) \in Budgets
    <2>1. p1.deadline \in Int
      BY <1>4 DEF Plans
    <2> QED
      BY <2>1, BudgetType
  <1> HIDE DEF p2
  <1>8. mb' \in Mailbox /\ plan' \in Plans /\ wire' \in Wires /\ budget' \in Budgets
    <2>1. CASE ~MbSubmitOk(m0, WomOf(force))
      BY <2>1, <1>2 DEF SensorPlanWom, TypeOK, m0, p0, w0
    <2>2. CASE MbSubmitOk(m0, WomOf(force))
      BY <2>2, <1>2, <1>3, <1>4, <1>5, <1>6, <1>7, NoPlanType
      DEF SensorPlanWom, m0, p0, w0, m1, p1, p2
    <2> QED
      BY <2>1, <2>2
  <1> QED
    BY <1>8 DEF SensorPlanWom, TypeOK

\* The critical sections and the tail of the power thread.
LEMMA TypeOwnerStep == TypeOK /\ OwnerStep => TypeOK'
  <1> SUFFICES ASSUME TypeOK, OwnerStep PROVE TypeOK'
    OBVIOUS
  <1> USE CancelType
  <1>0. /\ Notice("WILL_SHUTDOWN", 0) \in Wires /\ Notice("WILL_REBOOT", 0) \in Wires
        /\ Notice("WOM_CANCELLED", 0) \in Wires
        /\ 0 \in 0 .. GenMod - 1
    BY NoticeType, GenModAssumption DEF Notices
  <1>1. CASE Begin
    <2>1. MbBegin(mb) \in Mailbox /\ MbClaimed(mb) \in PowerRequests
      BY BeginTypes DEF TypeOK
    <2>2. gen' \in 0 .. GenMod - 1
      BY <1>0, <1>1, <2>1 DEF Begin, Mailbox
    <2> QED
      BY <1>1, <2>1, <2>2 DEF Begin, TypeOK, OwnerPcs
  <1>2. CASE WomEnter
    BY <1>2 DEF WomEnter, TypeOK, OwnerPcs, WomVetoed, OffVetoed, OtaActive, EnvFlags
  <1>3. CASE WomStale
    BY <1>3 DEF WomStale, AtWomGate, Return, TypeOK, OwnerPcs
  <1>4. CASE WomGiveUp
    <2>1. budget' \in Budgets
      BY <1>4, BudgetType DEF WomGiveUp, WomForce, TypeOK, Plans
    <2> QED
      BY <1>4, <2>1 DEF WomGiveUp, AtWomGate, CancelWom, Return, TypeOK, OwnerPcs
  <1>5. CASE WomEarly
    BY <1>5 DEF WomEarly, AtWomGate, Return, TypeOK, OwnerPcs
  <1>6. CASE WomCommit
    BY <1>6, StartFacts, NoPlanType
    DEF WomCommit, AtWomGate, Goto, Return, TypeOK, OwnerPcs
  <1>7. CASE OffEnter
    BY <1>7 DEF OffEnter, CancelWom, TypeOK, OwnerPcs, OffVetoed, OtaActive, EnvFlags
  <1>8. CASE OffBlocked
    BY <1>8 DEF OffBlocked, Return, TypeOK, OwnerPcs
  <1>9. CASE OffCommit
    BY <1>0, <1>9, StartFacts DEF OffCommit, Goto, TypeOK, OwnerPcs
  <1>10. CASE RebootGate
    <2>1. mb' \in Mailbox /\ wire' \in Wires
      BY <1>0, <1>10, StartFacts DEF RebootGate
    <2>2. veto' \in BOOLEAN /\ pc' \in OwnerPcs
      BY <1>10 DEF RebootGate, Goto, Return, TypeOK, OwnerPcs
    <2>4. consumed' \in BOOLEAN
      <3>1. consumed' = consumed \/ consumed' = (req \in WomRequests)
        BY <1>10, Zenon DEF RebootGate, Goto, Return
      <3>2. CASE consumed' = consumed
        BY <3>2 DEF TypeOK
      <3>3. CASE consumed' = (req \in WomRequests)
        <4>1. (req \in WomRequests) \in BOOLEAN
          OBVIOUS
        <4> QED
          BY <3>3, <4>1, Zenon
      <3> QED
        BY <3>1, <3>2, <3>3
    <2>3. /\ UNCHANGED <<lock, budget, now, otaVars, suspended, worldVars, req, gen>>
          /\ plan' \in Plans
      BY <1>10 DEF RebootGate, Goto, Return
    <2> QED
      BY <2>1, <2>2, <2>3, <2>4 DEF TypeOK
  <1>11. CASE WomConfigured \/ OffConfigured \/ RebootConfigured
    BY <1>11 DEF WomConfigured, OffConfigured, RebootConfigured, Configured, CancelWom,
                 Goto, TypeOK, OwnerPcs
  <1>12. ASSUME NEW at \in {"womCfg", "offCfg", "rebootCfg"}, ConfigureFails(at)
         PROVE  TypeOK'
    <2>1. mb' \in Mailbox /\ plan' \in Plans /\ wire' \in Wires /\ suspended' \in BOOLEAN
      BY <1>12 DEF ConfigureFails, CancelWom, TypeOK
    <2>2. consumed' \in BOOLEAN /\ veto' \in BOOLEAN /\ pc' \in OwnerPcs
      BY <1>12 DEF ConfigureFails, Return, OwnerPcs
    <2>3. faults' \in Nat /\ UNCHANGED <<lock, budget, now, otaVars, env, power, req, gen>>
      BY <1>12 DEF ConfigureFails, Return, TypeOK
    <2> QED
      BY <2>1, <2>2, <2>3 DEF TypeOK
  <1>13. CASE WomSleep
    BY <1>13 DEF WomSleep, TypeOK
  <1>14. CASE WomSetupFails
    BY <1>0, <1>14 DEF WomSetupFails, Goto, TypeOK, OwnerPcs
  <1>15. CASE Finish
    BY <1>0, <1>15, FinishFacts DEF Finish, TypeOK, OwnerPcs, PowerRequests
  <1>16. CASE Battery
    BY <1>16 DEF Battery, Goto, TypeOK, OwnerPcs
  <1> QED
    BY <1>1, <1>2, <1>3, <1>4, <1>5, <1>6, <1>7, <1>8, <1>9, <1>10, <1>11, <1>12, <1>13,
       <1>14, <1>15, <1>16 DEF OwnerStep

\* What the OTA handlers do to the mailbox and the policy.
LEMMA TypeReserve ==
  ASSUME TypeOK, OtaReserve
  PROVE  /\ mb' \in Mailbox /\ plan' \in Plans /\ wire' \in Wires
         /\ UNCHANGED <<lock, budget, now, ownerVars, suspended, worldVars>>
  <1>1. MbOtaReserve(mb) \in Mailbox
    BY ReserveFacts DEF OtaReserve, TypeOK
  <1>2. MbCancelWom(MbOtaReserve(mb)) \in Mailbox
    BY <1>1, CancelWomFacts
  <1> QED
    BY <1>2, CancelType DEF OtaReserve

\* Resolving a reservation changes the mailbox only.
LEMMA TypeResolve ==
  ASSUME TypeOK, NEW prepared \in BOOLEAN, OtaResolve(prepared)
  PROVE  /\ mb' \in Mailbox
         /\ UNCHANGED <<lock, policyVars, now, ownerVars, suspended, worldVars>>
  BY DEF OtaResolve, TypeOK, MbOtaResolve, Mailbox, OtaReboots

\* The OTA client keeps the types.
LEMMA TypeConnStep == TypeOK /\ ConnStep => TypeOK'
  <1> SUFFICES ASSUME TypeOK, ConnStep PROVE TypeOK'
    OBVIOUS
  <1> DEFINE ConnTypes == /\ conn' \in ConnPcs /\ otaState' \in OtaStates
                          /\ session' \in BOOLEAN /\ pending' \in BOOLEAN
                          /\ abortReq' \in BOOLEAN
  <1>1. CASE BeginReserve \/ ActivateReserve \/ AbortReserve \/ RecoverReserve
    <2>1. OtaReserve
      BY <1>1 DEF BeginReserve, ActivateReserve, AbortReserve, RecoverReserve
    <2>2. ConnTypes
      BY <1>1 DEF BeginReserve, ActivateReserve, AbortReserve, RecoverReserve, TypeOK,
                  ConnPcs, OtaStates
    <2> QED
      BY <2>1, <2>2, TypeReserve DEF TypeOK
  <1>2. CASE BeginRelease \/ ActivateFails \/ ActivateRelease \/ RecoverRelease
    <2>1. OtaResolve(FALSE) \/ OtaResolve(TRUE)
      BY <1>2 DEF BeginRelease, ActivateFails, ActivateRelease, RecoverRelease
    <2>2. /\ mb' \in Mailbox
          /\ UNCHANGED <<lock, policyVars, now, ownerVars, suspended, worldVars>>
      BY <2>1, TypeResolve
    <2>3. ConnTypes
      BY <1>2 DEF BeginRelease, ActivateFails, ActivateRelease, RecoverRelease, TypeOK,
                  ConnPcs, OtaStates
    <2> QED
      BY <2>2, <2>3 DEF TypeOK
  <1>3. CASE BeginWithdraw
    BY <1>3, CancelType DEF BeginWithdraw, CancelWom, TypeOK, ConnPcs
  <1>4. CASE BeginPublish \/ BeginSuspend \/ BeginReady \/ BeginFails
    <2>1. OtaLocal /\ suspended' \in BOOLEAN
      BY <1>4 DEF BeginPublish, BeginSuspend, BeginReady, BeginFails, TypeOK
    <2>2. ConnTypes
      BY <1>4 DEF BeginPublish, BeginSuspend, BeginReady, BeginFails, TypeOK, ConnPcs,
                  OtaStates
    <2> QED
      BY <2>1, <2>2 DEF OtaLocal, TypeOK
  <1>5. CASE ActivatePrepared \/ AbortDropped \/ AbortPublish \/ AbortClear \/ RecoverPublish
    <2>1. OtaLocal /\ UNCHANGED suspended
      BY <1>5 DEF ActivatePrepared, AbortDropped, AbortPublish, AbortClear, RecoverPublish
    <2>2. ConnTypes
      BY <1>5 DEF ActivatePrepared, AbortDropped, AbortPublish, AbortClear, RecoverPublish,
                  TypeOK, ConnPcs, OtaStates
    <2> QED
      BY <2>1, <2>2 DEF OtaLocal, TypeOK
  <1>6. CASE ActivateCopies
    BY <1>6 DEF ActivateCopies, TypeOK
  <1>7. ASSUME NEW result \in {"VERIFIED", "ERROR"}, Verify(result)
        PROVE  TypeOK'
    BY <1>7 DEF Verify, OtaLocal, TypeOK, OtaStates
  <1> QED
    BY <1>1, <1>2, <1>3, <1>4, <1>5, <1>6, <1>7 DEF ConnStep, BeginSteps, HandoffSteps

\* The producers of requests keep the types.
LEMMA TypeClientStep == TypeOK /\ ClientStep => TypeOK'
  <1> SUFFICES ASSUME TypeOK, ClientStep PROVE TypeOK'
    OBVIOUS
  <1>0. \A r \in PowerRequests : MbSubmit(MbCancelWom(mb), r) \in Mailbox
    BY CancelType, SubmitFacts
  <1>1. ASSUME NEW force \in BOOLEAN, NEW normal \in BOOLEAN, NEW d \in Deadlines,
               SensorPlanWom(force, d, normal)
        PROVE  TypeOK'
    BY <1>1, TypeSensorPlan
  <1>2. CASE SensorCancelWom
    BY <1>2, CancelType DEF SensorCancelWom, CancelWom, TypeOK
  <1>3. CASE RequestSystemOff \/ RequestReboot
    BY <1>0, <1>3, CancelType
    DEF RequestSystemOff, RequestReboot, RequestPower, TypeOK, PowerRequests
  <1>4. CASE RequestWomNow
    <2>1. now \in Int /\ now + ADVANCE \in Int
      BY ConstantsAssumption DEF TypeOK
    <2>2. plan' \in Plans /\ wire' \in Wires
      BY <1>4, <2>1, NoticeType DEF RequestWomNow, Plans, Notices
    <2> QED
      BY <1>0, <1>4, <2>2 DEF RequestWomNow, TypeOK, PowerRequests, WomRequests
  <1>5. CASE SetTimeoutBegin
    BY <1>5 DEF SetTimeoutBegin, TypeOK
  <1>6. ASSUME NEW changed \in BOOLEAN, SetTimeoutEnd(changed)
        PROVE  TypeOK'
    BY <1>6, CancelType DEF SetTimeoutEnd, CancelWom, TypeOK
  <1>7. CASE AbortRequest
    BY <1>7 DEF AbortRequest, OtaLocal, TypeOK
  <1> QED
    BY <1>1, <1>2, <1>3, <1>4, <1>5, <1>6, <1>7 DEF ClientStep

\* Time, the environment and a boot keep the types.
LEMMA TypeWorldStep == TypeOK /\ WorldStep => TypeOK'
  <1> SUFFICES ASSUME TypeOK, WorldStep PROVE TypeOK'
    OBVIOUS
  <1>1. CASE Tick
    BY <1>1 DEF Tick, TypeOK
  <1>2. CASE Boot
    <2>1. /\ EmptyMailbox \in Mailbox /\ 0 \in 0 .. GenMod - 1
          /\ wire' \in Wires /\ budget' \in Budgets
      BY <1>2, EmptyMailboxType, GenModAssumption, NoticeType DEF Boot, Notices, Budgets
    <2> QED
      BY <1>2, <2>1, NoPlanType
      DEF Boot, TypeOK, OwnerPcs, ConnPcs, OtaStates, PowerRequests
  <1>3. ASSUME NEW flag \in Toggles, Toggle(flag)
        PROVE  TypeOK'
    BY <1>3, ConstantsAssumption DEF Toggle, TypeOK
  <1> QED
    BY <1>1, <1>2, <1>3 DEF WorldStep

\* Every step keeps the types.
LEMMA TypeStep == TypeOK /\ [Next]_vars => TypeOK'
  <1>1. TypeOK /\ UNCHANGED vars => TypeOK'
    BY DEF vars, TypeOK
  <1> QED
    BY <1>1, TypeOwnerStep, TypeConnStep, TypeClientStep, TypeWorldStep DEF Next

\* The state of the power owner, of its clients and of the OTA session stays
\* well-formed whatever the deadlines, the faults and the width of the
\* generation counter (power.c:63-79, power_request.h:34-41, esb_ota.c:160-191).
THEOREM TypeCorrect == Spec => []TypeOK
  BY TypeInit, TypeStep, PTL DEF Spec

-----------------------------------------------------------------------------
(***************************************************************************)
(* The ownership invariant, and what follows from it.                      *)
(*                                                                         *)
(* The invariant is inductive because the mailbox changes in few ways.     *)
(* What any producer does under power_plan_lock is summed up by Yields:    *)
(* the OTA reservation and the physical flag stay, a claim is never        *)
(* invented, and a claim on anything but a reversible WOM is kept.         *)
(***************************************************************************)

USE DEF ownerVars, policyVars, otaVars, worldVars

\* n yields to the owner: it differs from the mailbox only in an ordinary
\* request that the owner has not claimed, or may lose.
Yields(n) ==
  /\ n.ota = mb.ota /\ n.phys = mb.phys /\ MbFilled(n)
  /\ n.state = "EXECUTING" => n = mb
  /\ mb.state = "EXECUTING" /\ (mb.phys \/ req \notin WomRequests) => n = mb

-----------------------------------------------------------------------------
(* The mailbox under the producers *)

\* Leaving the mailbox alone yields to the owner.
LEMMA YieldsSame == OwnerInv => Yields(mb)
  BY DEF Yields, OwnerInv

\* Withdrawing a reversible sleep yields to a claim it does not own
\* (power_request.h:123-135).
LEMMA YieldsCancel ==
  ASSUME TypeOK, OwnerInv, NEW m \in Mailbox, Yields(m)
  PROVE  Yields(MbCancelWom(m)) /\ MbCancelWom(m) \in Mailbox
  BY CancelWomFacts DEF Yields, OwnerInv, ClaimIsCurrent

\* Submitting a request never displaces one that is executing
\* (power_request.h:45-74).
LEMMA YieldsSubmit ==
  ASSUME TypeOK, OwnerInv, NEW m \in Mailbox, Yields(m),
         NEW r \in PowerRequests \ {"NONE"}
  PROVE  Yields(MbSubmit(m, r)) /\ MbSubmit(m, r) \in Mailbox
  BY SubmitFacts DEF Yields, OwnerInv, ClaimIsCurrent

\* A step that only yields keeps the invariant: every producer, and every step
\* of the owner and of the OTA client that leaves the claim alone.
LEMMA YieldsKeep ==
  ASSUME TypeOK, OwnerInv, Yields(mb'),
         UNCHANGED <<ownerVars, conn, session, pending>>,
         lock = "power" <=> lock' = "power"
  PROVE  OwnerInv'
  <1>1. ClaimIsCurrent' /\ ClaimMatchesPc'
    BY DEF Yields, OwnerInv, ClaimIsCurrent, ClaimMatchesPc
  <1>2. ClaimIsKept'
    BY DEF Yields, OwnerInv, ClaimIsKept, PhysicalIsExclusive, GoingDown, ClaimMatchesPc,
           WomRequests
  <1>3. ReservationMatchesConn'
    BY DEF Yields, OwnerInv, ReservationMatchesConn
  <1>4. GuardIsGood'
    BY DEF Yields, OwnerInv, GuardIsGood, OtaActive
  <1>5. PhysicalIsExclusive'
    BY DEF Yields, OwnerInv, PhysicalIsExclusive, GoingDown, OtaActive
  <1> QED
    BY <1>1, <1>2, <1>3, <1>4, <1>5 DEF OwnerInv, Yields

\* Whatever a client does, it only yields.
LEMMA ClientYields == TypeOK /\ OwnerInv /\ ClientStep => Yields(mb') /\ UNCHANGED power
  <1> SUFFICES ASSUME TypeOK, OwnerInv, ClientStep PROVE Yields(mb') /\ UNCHANGED power
    OBVIOUS
  <1>0. Yields(mb) /\ Yields(MbCancelWom(mb)) /\ MbCancelWom(mb) \in Mailbox /\ mb \in Mailbox
    BY YieldsSame, YieldsCancel DEF TypeOK
  <1>1. ASSUME NEW force \in BOOLEAN, NEW normal \in BOOLEAN, NEW d \in Deadlines,
               SensorPlanWom(force, d, normal)
        PROVE  Yields(mb') /\ UNCHANGED power
    <2>1. PICK m0 \in {mb, MbCancelWom(mb)} :
            \/ mb' = m0
            \/ mb' = MbSubmit(m0, WomOf(force))
            \/ mb' = MbCancelWom(MbSubmit(m0, WomOf(force)))
      BY <1>1 DEF SensorPlanWom
    <2>2. /\ Yields(MbSubmit(m0, WomOf(force)))
          /\ MbSubmit(m0, WomOf(force)) \in Mailbox
      BY <1>0, YieldsSubmit DEF WomOf, PowerRequests, WomRequests
    <2>3. Yields(mb')
      BY <1>0, <2>1, <2>2, YieldsCancel
    <2> QED
      BY <1>1, <2>3 DEF SensorPlanWom
  <1>2. CASE SensorCancelWom
    BY <1>0, <1>2 DEF SensorCancelWom, CancelWom
  <1>3. CASE RequestSystemOff \/ RequestReboot
    <2>1. PICK r \in {"SYSTEM_OFF", "REBOOT"} : RequestPower(r)
      BY <1>3 DEF RequestSystemOff, RequestReboot
    <2> QED
      BY <1>0, <2>1, YieldsSubmit DEF RequestPower, PowerRequests
  <1>4. CASE RequestWomNow
    BY <1>0, <1>4, YieldsSubmit DEF RequestWomNow, PowerRequests, WomRequests
  <1>5. CASE SetTimeoutBegin \/ AbortRequest
    BY <1>0, <1>5 DEF SetTimeoutBegin, AbortRequest, OtaLocal
  <1>6. ASSUME NEW changed \in BOOLEAN, SetTimeoutEnd(changed)
        PROVE  Yields(mb') /\ UNCHANGED power
    BY <1>0, <1>6 DEF SetTimeoutEnd, CancelWom
  <1> QED
    BY <1>1, <1>2, <1>3, <1>4, <1>5, <1>6 DEF ClientStep

\* ... and touches neither the owner nor the session, nor a lock the owner holds.
LEMMA ClientKeeps ==
  ASSUME ClientStep
  PROVE  /\ UNCHANGED <<ownerVars, conn, session, pending>>
         /\ lock = "power" <=> lock' = "power"
  <1> DEFINE Kept == /\ UNCHANGED <<ownerVars, conn, session, pending>>
                     /\ lock = "power" <=> lock' = "power"
  <1> SUFFICES Kept
    OBVIOUS
  <1>1. ASSUME NEW force \in BOOLEAN, NEW normal \in BOOLEAN, NEW d \in Deadlines,
               SensorPlanWom(force, d, normal)
        PROVE  Kept
    BY <1>1 DEF SensorPlanWom
  <1>2. CASE SensorCancelWom \/ RequestSystemOff \/ RequestReboot \/ RequestWomNow
    BY <1>2
    DEF SensorCancelWom, RequestSystemOff, RequestReboot, RequestPower, RequestWomNow
  <1>3. CASE SetTimeoutBegin
    BY <1>3 DEF SetTimeoutBegin
  <1>4. ASSUME NEW changed \in BOOLEAN, SetTimeoutEnd(changed)
        PROVE  Kept
    BY <1>4 DEF SetTimeoutEnd
  <1>5. CASE AbortRequest
    BY <1>5 DEF AbortRequest, OtaLocal
  <1> QED
    BY <1>1, <1>2, <1>3, <1>4, <1>5 DEF ClientStep

\* The sensor thread and the users keep the invariant.
LEMMA InvClient == TypeOK /\ OwnerInv /\ ClientStep => OwnerInv'
  BY ClientYields, ClientKeeps, YieldsKeep

\* Time, the environment and a boot keep the invariant.
LEMMA InvWorld == TypeOK /\ OwnerInv /\ WorldStep => OwnerInv'
  <1> SUFFICES ASSUME TypeOK, OwnerInv, WorldStep PROVE OwnerInv'
    OBVIOUS
  <1>1. CASE Tick
    BY <1>1, YieldsSame, YieldsKeep DEF Tick, Yields
  <1>2. CASE Boot
    BY <1>2 DEF Boot, EmptyMailbox, OwnerInv, ClaimIsCurrent, ClaimMatchesPc, ClaimIsKept,
                ReservationMatchesConn, ReservingPcs, GuardIsGood, PhysicalIsExclusive,
                GoingDown, OtaActive, WomRequests, MbFilled
  <1>3. ASSUME NEW flag \in Toggles, Toggle(flag)
        PROVE  OwnerInv'
    BY <1>3, YieldsSame, YieldsKeep DEF Toggle, Yields
  <1> QED
    BY <1>1, <1>2, <1>3 DEF WorldStep

-----------------------------------------------------------------------------
(* The OTA client *)

\* A reservation is taken only in a free mailbox, and the claim survives it.
LEMMA ReserveYields ==
  ASSUME TypeOK, OwnerInv, OtaReserve
  PROVE  /\ mb.ota = "NONE" /\ mb'.ota = "RESERVED" /\ mb'.phys = FALSE /\ mb.phys = FALSE
         /\ mb'.state = "EXECUTING" =>
              mb.state = "EXECUTING" /\ mb'.request = mb.request /\ mb'.gen = mb.gen
         /\ mb.state = "EXECUTING" /\ req \notin WomRequests => mb'.state = "EXECUTING"
         /\ MbFilled(mb)'
  <1>1. /\ MbOtaReserve(mb) \in Mailbox
        /\ mb.ota = "NONE" /\ mb.phys = FALSE
        /\ MbOtaReserve(mb).ota = "RESERVED"
        /\ MbOtaReserve(mb).phys = mb.phys
        /\ MbOtaReserve(mb).state = mb.state
        /\ MbOtaReserve(mb).request = mb.request
        /\ MbOtaReserve(mb).gen = mb.gen
    BY ReserveFacts DEF OtaReserve, TypeOK
  <1> QED
    BY <1>1, CancelWomFacts DEF OtaReserve, OwnerInv, ClaimIsCurrent, MbFilled

\* Resolving changes nothing but the reservation (power_request.h:185-194).
LEMMA ResolveYields ==
  ASSUME TypeOK, NEW prepared \in BOOLEAN, OtaResolve(prepared), mb.ota = "RESERVED"
  PROVE  /\ mb'.ota = (IF prepared THEN "READY" ELSE "NONE")
         /\ mb'.phys = mb.phys /\ mb'.state = mb.state
         /\ mb'.request = mb.request /\ mb'.gen = mb.gen
         /\ MbFilled(mb) => MbFilled(mb)'
  BY ResolveFacts DEF OtaResolve, TypeOK, MbFilled

\* The OTA client keeps the invariant: each of its reservations is resolved by
\* the handler that made it, after the session or the handoff is published.
LEMMA InvConn == TypeOK /\ OwnerInv /\ ConnStep => OwnerInv'
  <1> SUFFICES ASSUME TypeOK, OwnerInv, ConnStep PROVE OwnerInv'
    OBVIOUS
  <1>1. CASE BeginReserve \/ ActivateReserve \/ AbortReserve \/ RecoverReserve
    <2>1. OtaReserve
      BY <1>1 DEF BeginReserve, ActivateReserve, AbortReserve, RecoverReserve
    <2>2. /\ mb.ota = "NONE" /\ mb'.ota = "RESERVED" /\ mb'.phys = FALSE /\ mb.phys = FALSE
          /\ mb'.state = "EXECUTING" =>
               mb.state = "EXECUTING" /\ mb'.request = mb.request /\ mb'.gen = mb.gen
          /\ mb.state = "EXECUTING" /\ req \notin WomRequests => mb'.state = "EXECUTING"
          /\ MbFilled(mb)' /\ lock = "free" /\ UNCHANGED <<lock, ownerVars>>
      BY <2>1, ReserveYields DEF OtaReserve
    <2>3. /\ conn = "idle"
          /\ conn' \in {"publish", "prepare", "abortPublish", "recoverPublish"}
          /\ UNCHANGED <<session, pending>>
      BY <1>1 DEF BeginReserve, ActivateReserve, AbortReserve, RecoverReserve, ConnAt,
                  PacketHandled
    <2>4. ClaimIsCurrent' /\ ClaimMatchesPc'
      BY <2>2 DEF OwnerInv, ClaimIsCurrent, ClaimMatchesPc
    <2>5. ClaimIsKept'
      BY <2>2 DEF OwnerInv, ClaimIsKept, PhysicalIsExclusive, GoingDown, ClaimMatchesPc,
                  WomRequests
    <2>6. ReservationMatchesConn'
      <3>1. ~pending
        BY <1>1 DEF BeginReserve, ActivateReserve, AbortReserve, RecoverReserve,
                    PacketHandled, OtaActive
      <3> QED
        BY <2>2, <2>3, <3>1 DEF OwnerInv, ReservationMatchesConn, ReservingPcs
    <2>7. GuardIsGood' /\ PhysicalIsExclusive'
      BY <2>2, <2>3 DEF OwnerInv, GuardIsGood, PhysicalIsExclusive, GoingDown, OtaActive
    <2> QED
      BY <2>2, <2>4, <2>5, <2>6, <2>7 DEF OwnerInv
  <1>2. CASE BeginRelease \/ ActivateFails \/ ActivateRelease \/ RecoverRelease
    <2>1. PICK prepared \in BOOLEAN :
            /\ OtaResolve(prepared)
            /\ prepared => conn \in {"handoff", "recoverRelease"}
            /\ ~prepared => conn \in {"release", "prepare"}
      BY <1>2 DEF BeginRelease, ActivateFails, ActivateRelease, RecoverRelease, ConnAt
    <2>2. /\ conn' \in {"idle", "suspend"} /\ UNCHANGED <<session, pending>>
          /\ lock = "free" /\ UNCHANGED <<lock, ownerVars>>
      BY <1>2, <2>1
      DEF BeginRelease, ActivateFails, ActivateRelease, RecoverRelease, OtaResolve
    <2>3. mb.ota = "RESERVED" /\ ~mb.phys
      BY <2>1 DEF OwnerInv, ReservationMatchesConn, ReservingPcs
    <2>4. /\ mb'.ota = (IF prepared THEN "READY" ELSE "NONE")
          /\ mb'.phys = mb.phys /\ mb'.state = mb.state
          /\ mb'.request = mb.request /\ mb'.gen = mb.gen
          /\ MbFilled(mb)'
      BY <2>1, <2>3, ResolveYields DEF OwnerInv
    <2>5. ClaimIsCurrent' /\ ClaimMatchesPc' /\ ClaimIsKept'
      <3>1. UNCHANGED <<pc, req, gen, consumed>>
        BY <2>2
      <3>2. mb'.state = mb.state /\ mb'.request = mb.request /\ mb'.gen = mb.gen
        BY <2>4
      <3>3. ClaimIsCurrent'
        BY <3>1, <3>2 DEF OwnerInv, ClaimIsCurrent
      <3>4. ClaimMatchesPc'
        BY <3>1 DEF OwnerInv, ClaimMatchesPc
      <3>5. ClaimIsKept'
        BY <3>1, <3>2 DEF OwnerInv, ClaimIsKept
      <3> QED
        BY <3>3, <3>4, <3>5
    <2>6. ReservationMatchesConn'
      <3>1. pending => prepared
        BY <2>1 DEF OwnerInv, ReservationMatchesConn
      <3> QED
        BY <2>1, <2>2, <2>3, <2>4, <3>1 DEF OwnerInv, ReservationMatchesConn, ReservingPcs
    <2>7. GuardIsGood' /\ PhysicalIsExclusive'
      BY <2>2, <2>3, <2>4 DEF OwnerInv, GuardIsGood, PhysicalIsExclusive, GoingDown, OtaActive
    <2> QED
      BY <2>4, <2>5, <2>6, <2>7 DEF OwnerInv
  <1>3. CASE BeginWithdraw
    <2>1. Yields(mb')
      BY <1>3, YieldsSame, YieldsCancel DEF BeginWithdraw, CancelWom, TypeOK
    <2>2. /\ UNCHANGED <<lock, ownerVars, session, pending>>
          /\ conn = "withdraw" /\ conn' = "shutdown"
      BY <1>3 DEF BeginWithdraw, ConnAt
    <2>3. ClaimIsCurrent' /\ ClaimMatchesPc' /\ GuardIsGood' /\ PhysicalIsExclusive'
      BY <2>1, <2>2 DEF Yields, OwnerInv, ClaimIsCurrent, ClaimMatchesPc, GuardIsGood,
                        PhysicalIsExclusive, GoingDown, OtaActive
    <2>4. ClaimIsKept'
      BY <2>1, <2>2 DEF Yields, OwnerInv, ClaimIsKept, PhysicalIsExclusive, GoingDown,
                        ClaimMatchesPc, WomRequests
    <2>5. ReservationMatchesConn'
      BY <2>1, <2>2 DEF Yields, OwnerInv, ReservationMatchesConn, ReservingPcs
    <2> QED
      BY <2>1, <2>3, <2>4, <2>5 DEF OwnerInv, Yields
  <1>4. CASE \/ BeginPublish \/ BeginSuspend \/ BeginReady \/ BeginFails
             \/ ActivatePrepared \/ AbortDropped \/ AbortPublish \/ AbortClear
             \/ RecoverPublish
    <2>1. UNCHANGED <<mb, lock, ownerVars>>
      BY <1>4 DEF BeginPublish, BeginSuspend, BeginReady, BeginFails, ActivatePrepared,
                  AbortDropped, AbortPublish, AbortClear, RecoverPublish, OtaLocal
    <2>2. ClaimIsCurrent' /\ ClaimMatchesPc' /\ ClaimIsKept'
      BY <2>1 DEF OwnerInv, ClaimIsCurrent, ClaimMatchesPc, ClaimIsKept
    <2>3. ReservationMatchesConn'
      <3>1. CASE BeginPublish \/ BeginSuspend \/ BeginReady \/ BeginFails
        BY <2>1, <3>1 DEF BeginPublish, BeginSuspend, BeginReady, BeginFails, ConnAt,
                          OwnerInv, ReservationMatchesConn, ReservingPcs
      <3>2. CASE ActivatePrepared \/ AbortDropped
        BY <2>1, <3>2 DEF ActivatePrepared, AbortDropped, ConnAt,
                          OwnerInv, ReservationMatchesConn, ReservingPcs
      <3>3. CASE AbortPublish \/ AbortClear \/ RecoverPublish
        BY <2>1, <3>3 DEF AbortPublish, AbortClear, RecoverPublish, ConnAt,
                          OwnerInv, ReservationMatchesConn, ReservingPcs
      <3> QED
        BY <1>4, <3>1, <3>2, <3>3
    <2>4. OtaActive' => OtaActive \/ mb.ota = "RESERVED"
      BY <1>4 DEF BeginPublish, BeginSuspend, BeginReady, BeginFails, ActivatePrepared,
                  AbortDropped, AbortPublish, AbortClear, RecoverPublish, ConnAt, OtaActive,
                  OwnerInv, ReservationMatchesConn, ReservingPcs
    <2>5. GuardIsGood' /\ PhysicalIsExclusive'
      BY <2>1, <2>4 DEF OwnerInv, GuardIsGood, PhysicalIsExclusive, GoingDown
    <2> QED
      BY <2>1, <2>2, <2>3, <2>5 DEF OwnerInv, MbFilled
  <1>5. CASE ActivateCopies
    BY <1>5, YieldsSame, YieldsKeep DEF ActivateCopies, Yields
  <1>6. ASSUME NEW result \in {"VERIFIED", "ERROR"}, Verify(result)
        PROVE  OwnerInv'
    BY <1>6, YieldsSame, YieldsKeep DEF Verify, OtaLocal, Yields
  <1> QED
    BY <1>1, <1>2, <1>3, <1>4, <1>5, <1>6 DEF ConnStep, BeginSteps, HandoffSteps

-----------------------------------------------------------------------------
(* The power thread *)

\* A gate passed: the owner goes on to physical work without a reservation.
LEMMA InvGate ==
  ASSUME TypeOK, OwnerInv, WomCommit \/ OffCommit
  PROVE  OwnerInv'
  <1>1. CASE WomCommit /\ MbStartWomOk(mb, gen)
    <2>1. /\ mb' = MbStart(mb) /\ pc = "womGate" /\ pc' = "womCfg" /\ lock' = "free"
          /\ ~veto /\ UNCHANGED <<req, gen, consumed, otaVars>>
      BY <1>1 DEF WomCommit, AtWomGate, Goto, WomWithdrawn
    <2>2. mb.ota = "NONE" /\ mb.state = "EXECUTING"
      BY <1>1 DEF MbStartWomOk, MbWomClaimCurrent
    <2>3. /\ mb'.phys = TRUE /\ mb'.ota = "NONE" /\ mb'.state = "EXECUTING"
          /\ mb'.request = mb.request /\ mb'.gen = mb.gen /\ MbFilled(mb)'
      BY <2>1, <2>2, StartFacts DEF TypeOK, OwnerInv, MbFilled
    <2>4. ~OtaActive /\ ~OtaActive'
      BY <2>1, <2>2 DEF OwnerInv, GuardIsGood, OtaActive
    <2>5. ClaimIsCurrent' /\ ClaimMatchesPc' /\ ClaimIsKept'
      <3>1. ClaimIsCurrent'
        BY <2>1, <2>2, <2>3 DEF OwnerInv, ClaimIsCurrent
      <3>2. ClaimMatchesPc'
        BY <2>1 DEF OwnerInv, ClaimMatchesPc
      <3>3. ClaimIsKept'
        BY <2>1, <2>3 DEF ClaimIsKept
      <3> QED
        BY <3>1, <3>2, <3>3
    <2>6. ReservationMatchesConn'
      BY <2>1, <2>2, <2>3 DEF OwnerInv, ReservationMatchesConn
    <2>7. GuardIsGood' /\ PhysicalIsExclusive'
      BY <2>1, <2>3, <2>4 DEF OwnerInv, GuardIsGood, PhysicalIsExclusive, GoingDown
    <2> QED
      BY <2>3, <2>5, <2>6, <2>7 DEF OwnerInv
  <1>2. CASE WomCommit /\ ~MbStartWomOk(mb, gen)
    <2>1. /\ mb' = mb /\ pc = "womGate" /\ pc' = "finish" /\ lock' = "free"
          /\ consumed' = FALSE /\ UNCHANGED <<req, gen, otaVars>> /\ req \in WomRequests
      BY <1>2 DEF WomCommit, AtWomGate, Return, OwnerInv, ClaimMatchesPc, WomRequests
    <2>2. ClaimIsCurrent' /\ ClaimMatchesPc' /\ ClaimIsKept'
      BY <2>1 DEF OwnerInv, ClaimIsCurrent, ClaimMatchesPc, ClaimIsKept
    <2> QED
      BY <2>1, <2>2 DEF OwnerInv, ReservationMatchesConn, GuardIsGood,
                        PhysicalIsExclusive, GoingDown, OtaActive
  <1>3. CASE OffCommit
    <2>1. /\ mb' = MbStart(mb) /\ pc = "offGate" /\ pc' = "offCfg" /\ lock' = "free"
          /\ ~veto /\ UNCHANGED <<req, gen, consumed, otaVars>>
      BY <1>3 DEF OffCommit, Goto
    <2>2. mb.ota = "NONE"
      BY <1>3 DEF OffCommit, MbStartPhysicalOk
    <2>3. /\ mb'.phys = TRUE /\ mb'.ota = "NONE" /\ mb'.state = mb.state
          /\ mb'.request = mb.request /\ mb'.gen = mb.gen /\ MbFilled(mb)'
      BY <2>1, <2>2, StartFacts DEF TypeOK, OwnerInv, MbFilled
    <2>4. ~OtaActive /\ ~OtaActive'
      BY <2>1, <2>2 DEF OwnerInv, GuardIsGood, OtaActive
    <2>5. ClaimIsCurrent' /\ ClaimMatchesPc' /\ ClaimIsKept'
      BY <2>1, <2>3 DEF OwnerInv, ClaimIsCurrent, ClaimMatchesPc, ClaimIsKept
    <2>6. ReservationMatchesConn'
      BY <2>1, <2>2, <2>3 DEF OwnerInv, ReservationMatchesConn
    <2>7. GuardIsGood' /\ PhysicalIsExclusive'
      BY <2>1, <2>3, <2>4 DEF OwnerInv, GuardIsGood, PhysicalIsExclusive, GoingDown,
                              ClaimMatchesPc, WomRequests
    <2> QED
      BY <2>3, <2>5, <2>6, <2>7 DEF OwnerInv
  <1> QED
    BY <1>1, <1>2, <1>3

\* A step out of a critical section without passing its gate.
LEMMA InvReturn ==
  ASSUME TypeOK, OwnerInv, Yields(mb'), NEW c \in BOOLEAN, Return(c),
         req = "REBOOT" => ~c,
         pc \in {"womGate", "offGate", "womCfg", "offCfg", "rebootCfg", "reboot"},
         lock' = "free", pc \notin {"womGate", "offGate"} => lock = "free",
         UNCHANGED otaVars
  PROVE  OwnerInv'
  <1>1. /\ pc' = (IF req = "NONE" THEN "loop" ELSE "finish")
        /\ consumed' = c /\ UNCHANGED <<req, gen>>
    BY DEF Return
  <1>2. ClaimIsCurrent'
    <2>1. mb'.state = "EXECUTING" => req # "NONE"
      BY DEF Yields, OwnerInv, ClaimIsCurrent, MbFilled
    <2> QED
      BY <1>1, <2>1 DEF Yields, OwnerInv, ClaimIsCurrent
  <1>3. ClaimMatchesPc'
    BY <1>1 DEF ClaimMatchesPc, WomRequests
  <1>4. ClaimIsKept'
    BY <1>1 DEF Yields, OwnerInv, ClaimIsKept, ClaimMatchesPc, WomRequests
  <1>5. ReservationMatchesConn'
    BY DEF Yields, OwnerInv, ReservationMatchesConn
  <1>6. GuardIsGood'
    BY <1>1 DEF GuardIsGood
  <1>7. PhysicalIsExclusive'
    BY <1>1 DEF Yields, OwnerInv, PhysicalIsExclusive, GoingDown
  <1> QED
    BY <1>2, <1>3, <1>4, <1>5, <1>6, <1>7 DEF OwnerInv, Yields

\* The power thread keeps the invariant, through the lock it holds from reading
\* its guards to its physical gate.
LEMMA InvOwner == TypeOK /\ OwnerInv /\ OwnerStep => OwnerInv'
  <1> SUFFICES ASSUME TypeOK, OwnerInv, OwnerStep PROVE OwnerInv'
    OBVIOUS
  <1>0. Yields(mb) /\ Yields(MbCancelWom(mb)) /\ MbCancelWom(mb) \in Mailbox
    BY YieldsSame, YieldsCancel DEF TypeOK
  <1>1. CASE Begin
    <2>1. mb.state # "EXECUTING" /\ req = "NONE"
      BY <1>1 DEF Begin, OwnerInv, ClaimIsCurrent, ClaimMatchesPc
    <2>2. /\ mb'.ota = mb.ota /\ mb'.phys = mb.phys /\ MbFilled(mb)'
          /\ req' \in PowerRequests
          /\ mb'.state = "EXECUTING" => mb'.request = req'
          /\ mb'.state # "EXECUTING" => req' = "NONE"
      BY <1>1, <2>1, BeginFacts DEF Begin, TypeOK, OwnerInv
    <2>3. /\ UNCHANGED <<lock, veto, otaVars>> /\ pc = "loop"
          /\ gen' = IF req' = "NONE" THEN 0 ELSE mb'.gen
          /\ pc' \in {"wom", "off", "reboot", "finish"}
          /\ pc' = "wom" => req' \in WomRequests
          /\ pc' = "off" => req' = "SYSTEM_OFF"
          /\ pc' = "reboot" => req' = "REBOOT"
          /\ pc' = "finish" => req' = "NONE"
      BY <1>1, <2>2 DEF Begin, PowerRequests
    <2>4. ClaimIsCurrent'
      BY <2>2, <2>3 DEF ClaimIsCurrent, MbFilled
    <2>5. ClaimMatchesPc'
      BY <2>3 DEF ClaimMatchesPc
    <2>6. ClaimIsKept'
      BY <2>2, <2>3 DEF ClaimIsKept, WomRequests
    <2>7. ReservationMatchesConn'
      BY <2>2, <2>3 DEF OwnerInv, ReservationMatchesConn
    <2>8. GuardIsGood' /\ PhysicalIsExclusive'
      BY <2>2, <2>3 DEF OwnerInv, GuardIsGood, PhysicalIsExclusive, GoingDown, WomRequests
    <2> QED
      BY <2>2, <2>4, <2>5, <2>6, <2>7, <2>8 DEF OwnerInv
  <1>2. CASE WomEnter \/ OffEnter
    <2>1. /\ Yields(mb') /\ UNCHANGED <<req, gen, otaVars>>
          /\ lock' = "power" /\ pc' \in {"womGate", "offGate"}
          /\ (pc = "wom" /\ pc' = "womGate") \/ (pc = "off" /\ pc' = "offGate")
      <3>1. CASE WomEnter
        BY <1>0, <3>1 DEF WomEnter
      <3>2. CASE OffEnter
        BY <1>0, <3>2 DEF OffEnter, CancelWom
      <3> QED
        BY <1>2, <3>1, <3>2
    <2>6. ~veto' => ~OtaActive
      BY <1>2, Zenon DEF WomEnter, OffEnter, WomVetoed, OffVetoed
    <2>2. ClaimIsCurrent' /\ ClaimMatchesPc'
      BY <2>1 DEF Yields, OwnerInv, ClaimIsCurrent, ClaimMatchesPc
    <2>3. ClaimIsKept'
      BY <2>1 DEF Yields, OwnerInv, ClaimIsKept, ClaimMatchesPc, WomRequests
    <2>4. ReservationMatchesConn'
      BY <2>1 DEF Yields, OwnerInv, ReservationMatchesConn
    <2>5. GuardIsGood' /\ PhysicalIsExclusive'
      BY <2>1, <2>6 DEF Yields, OwnerInv, GuardIsGood, PhysicalIsExclusive, GoingDown,
                        OtaActive
    <2> QED
      BY <2>1, <2>2, <2>3, <2>4, <2>5 DEF OwnerInv, Yields
  <1>3. CASE WomStale \/ WomGiveUp \/ WomEarly \/ OffBlocked
    <2>1. PICK c \in BOOLEAN : Return(c)
      BY <1>3 DEF WomStale, WomGiveUp, WomEarly, OffBlocked
    <2>2. /\ Yields(mb') /\ UNCHANGED otaVars
          /\ pc \in {"womGate", "offGate"} /\ lock' = "free"
      BY <1>0, <1>3 DEF WomStale, WomGiveUp, WomEarly, OffBlocked, AtWomGate, CancelWom
    <2>3. req # "REBOOT"
      BY <2>2 DEF OwnerInv, ClaimMatchesPc, WomRequests
    <2> QED
      BY <2>1, <2>2, <2>3, InvReturn
  <1>4. CASE WomCommit \/ OffCommit
    BY <1>4, InvGate
  <1>5. CASE RebootGate /\ MbStartPhysicalOk(MbCancelWom(mb), TRUE)
    <2>1. /\ mb' = MbStart(MbCancelWom(mb)) /\ pc = "reboot" /\ pc' = "rebootCfg"
          /\ UNCHANGED <<lock, req, gen, consumed, veto, otaVars>>
      BY <1>5 DEF RebootGate, Goto
    <2>2. mb.ota \in {"NONE", "READY"}
      BY <1>0, <1>5 DEF MbStartPhysicalOk, Yields
    <2>3. /\ mb'.phys = TRUE /\ mb'.ota = mb.ota /\ MbFilled(mb)'
          /\ mb'.state = MbCancelWom(mb).state /\ mb'.request = MbCancelWom(mb).request
          /\ mb'.gen = MbCancelWom(mb).gen
      BY <1>0, <2>1, StartFacts DEF Yields, MbFilled
    <2>4. ClaimIsCurrent' /\ ClaimMatchesPc'
      BY <1>0, <2>1, <2>3 DEF Yields, OwnerInv, ClaimIsCurrent, ClaimMatchesPc
    <2>5. ClaimIsKept'
      BY <1>0, <2>1, <2>3 DEF Yields, OwnerInv, ClaimIsKept, ClaimMatchesPc,
                              PhysicalIsExclusive, WomRequests
    <2>6. ReservationMatchesConn'
      BY <2>1, <2>2, <2>3 DEF OwnerInv, ReservationMatchesConn
    <2>7. GuardIsGood' /\ PhysicalIsExclusive'
      BY <2>1, <2>3 DEF OwnerInv, GuardIsGood, PhysicalIsExclusive, GoingDown, OtaActive,
                        ClaimMatchesPc
    <2> QED
      BY <2>3, <2>4, <2>5, <2>6, <2>7 DEF OwnerInv
  <1>6. CASE RebootGate /\ ~MbStartPhysicalOk(MbCancelWom(mb), TRUE)
    <2>1. PICK c \in BOOLEAN : Return(c) /\ (req = "REBOOT" => ~c)
      <3>1. Return(req \in WomRequests)
        BY <1>6 DEF RebootGate
      <3>2. CASE req \in WomRequests
        <4>1. Return(TRUE)
          BY <3>1, <3>2 DEF Return
        <4> QED
          BY <3>2, <4>1 DEF WomRequests
      <3>3. CASE req \notin WomRequests
        <4>1. Return(FALSE)
          <5>1. (req \in WomRequests) = FALSE
            BY <3>3
          <5> QED
            BY <3>1, <5>1, Zenon
        <4> QED
          BY <4>1
      <3> QED
        BY <3>2, <3>3
    <2>2. /\ Yields(mb') /\ UNCHANGED otaVars /\ pc = "reboot"
          /\ lock = "free" /\ lock' = "free"
      BY <1>0, <1>6 DEF RebootGate
    <2> QED
      BY <2>1, <2>2, InvReturn
  <1>7. CASE WomConfigured
    <2>1. /\ Yields(mb') /\ UNCHANGED <<lock, req, gen, consumed, veto, otaVars>>
          /\ pc = "womCfg" /\ pc' = "womSetup"
      BY <1>0, <1>7 DEF WomConfigured, Configured, CancelWom, Goto
    <2>2. ClaimIsCurrent' /\ ClaimMatchesPc' /\ ClaimIsKept'
      BY <2>1 DEF Yields, OwnerInv, ClaimIsCurrent, ClaimMatchesPc, ClaimIsKept,
                  PhysicalIsExclusive, GoingDown
    <2> QED
      BY <2>1, <2>2 DEF Yields, OwnerInv, ReservationMatchesConn, GuardIsGood,
                        PhysicalIsExclusive, GoingDown, OtaActive
  <1>8. CASE OffConfigured \/ RebootConfigured
    BY <1>0, <1>8, YieldsKeep DEF OffConfigured, RebootConfigured, Configured, CancelWom
  <1>9. ASSUME NEW at \in {"womCfg", "offCfg", "rebootCfg"}, ConfigureFails(at)
        PROVE  OwnerInv'
    <2>1. PICK c \in BOOLEAN : Return(c) /\ (req = "REBOOT" => ~c)
      <3>1. Return(at = "rebootCfg" /\ req \in WomRequests)
        BY <1>9 DEF ConfigureFails
      <3>2. CASE at = "rebootCfg" /\ req \in WomRequests
        <4>1. Return(TRUE)
          BY <3>1, <3>2 DEF Return
        <4> QED
          BY <3>2, <4>1 DEF WomRequests
      <3>3. CASE ~(at = "rebootCfg" /\ req \in WomRequests)
        <4>1. Return(FALSE)
          BY <3>1, <3>3 DEF Return
        <4> QED
          BY <4>1
      <3> QED
        BY <3>2, <3>3
    <2>2. /\ Yields(mb') /\ UNCHANGED otaVars /\ pc \in {"womCfg", "offCfg", "rebootCfg"}
          /\ lock = "free" /\ lock' = "free"
      BY <1>0, <1>9 DEF ConfigureFails, CancelWom
    <2> QED
      BY <2>1, <2>2, InvReturn
  <1>10. CASE WomSleep
    BY <1>0, <1>10, YieldsKeep DEF WomSleep
  <1>11. CASE WomSetupFails
    <2>1. /\ UNCHANGED <<mb, lock, req, gen, consumed, veto, otaVars>>
          /\ pc = "womSetup" /\ pc' = "reboot"
      BY <1>11 DEF WomSetupFails, Goto
    <2> QED
      BY <2>1 DEF OwnerInv, MbFilled, ClaimIsCurrent, ClaimMatchesPc, ClaimIsKept,
                  ReservationMatchesConn, GuardIsGood, PhysicalIsExclusive, GoingDown,
                  OtaActive, WomRequests
  <1>12. CASE Finish
    <2>1. /\ UNCHANGED <<lock, otaVars>> /\ pc = "finish" /\ pc' = "battery" /\ req' = "NONE"
          /\ consumed' = FALSE
      BY <1>12 DEF Finish
    <2>2. req = "REBOOT" => ~consumed
      BY <2>1 DEF OwnerInv, ClaimMatchesPc
    <2>3. /\ mb'.ota = mb.ota /\ mb'.state # "EXECUTING" /\ MbFilled(mb)'
          /\ mb'.phys => mb.phys /\ mb.state # "EXECUTING"
      <3>1. mb' = MbFinish(mb, req, gen, consumed)
        BY <1>12 DEF Finish
      <3>2. mb.state = "EXECUTING" => mb.request = req /\ mb.gen = gen
        BY DEF OwnerInv, ClaimIsCurrent
      <3>3. mb \in Mailbox /\ req \in PowerRequests /\ consumed \in BOOLEAN /\ MbFilled(mb)
        BY DEF TypeOK, OwnerInv
      <3> DEFINE n == MbFinish(mb, req, gen, consumed)
      <3>4. /\ (mb.state = "EXECUTING" /\ mb.request = req /\ mb.gen = gen) =>
                  n.phys = FALSE /\ n.state # "EXECUTING"
            /\ ~(mb.state = "EXECUTING" /\ mb.request = req /\ mb.gen = gen) => n = mb
            /\ (req # "REBOOT" \/ ~consumed) => n.ota = mb.ota
            /\ MbFilled(mb) => MbFilled(n)
        BY <3>3, FinishFacts DEF MbFinish, MbFilled, Mailbox
      <3> HIDE DEF n
      <3>5. mb' = n
        BY <3>1 DEF n
      <3> QED
        BY <2>2, <3>2, <3>3, <3>4, <3>5
    <2>4. mb.phys /\ mb.ota = "READY" => mb.state = "EXECUTING"
      BY <2>1 DEF OwnerInv, PhysicalIsExclusive, ClaimIsKept, WomRequests
    <2>5. ClaimIsCurrent' /\ ClaimMatchesPc' /\ ClaimIsKept'
      BY <2>1, <2>3 DEF ClaimIsCurrent, ClaimMatchesPc, ClaimIsKept
    <2>6. ReservationMatchesConn'
      BY <2>1, <2>3 DEF OwnerInv, ReservationMatchesConn
    <2>7. GuardIsGood' /\ PhysicalIsExclusive'
      BY <2>1, <2>3, <2>4 DEF OwnerInv, GuardIsGood, PhysicalIsExclusive, GoingDown, OtaActive
    <2> QED
      BY <2>3, <2>5, <2>6, <2>7 DEF OwnerInv
  <1>13. CASE Battery
    <2>1. /\ UNCHANGED <<mb, lock, req, gen, consumed, veto, otaVars>>
          /\ pc = "battery" /\ pc' \in {"off", "loop"} /\ req = "NONE"
      BY <1>13 DEF Battery, Goto, OwnerInv, ClaimMatchesPc
    <2> QED
      BY <2>1 DEF OwnerInv, MbFilled, ClaimIsCurrent, ClaimMatchesPc, ClaimIsKept,
                  ReservationMatchesConn, GuardIsGood, PhysicalIsExclusive, GoingDown,
                  OtaActive, WomRequests
  <1> QED
    BY <1>1, <1>2, <1>3, <1>4, <1>5, <1>6, <1>7, <1>8, <1>9, <1>10, <1>11, <1>12, <1>13
    DEF OwnerStep

-----------------------------------------------------------------------------
(* Safety *)

\* A tracker that has just booted satisfies the invariant.
LEMMA InvInit == Init => OwnerInv
  BY DEF Init, EmptyMailbox, OwnerInv, MbFilled, ClaimIsCurrent, ClaimMatchesPc, ClaimIsKept,
         ReservationMatchesConn, ReservingPcs, GuardIsGood, PhysicalIsExclusive,
         GoingDown, OtaActive, WomRequests

\* Every step keeps the invariant.
LEMMA InvStep == TypeOK /\ OwnerInv /\ [Next]_vars => OwnerInv'
  <1>1. TypeOK /\ OwnerInv /\ UNCHANGED vars => OwnerInv'
    <2> SUFFICES ASSUME TypeOK, OwnerInv, UNCHANGED vars PROVE OwnerInv'
      OBVIOUS
    <2> QED
      BY YieldsSame, YieldsKeep DEF vars
  <1> QED
    BY <1>1, InvOwner, InvConn, InvClient, InvWorld DEF Next

\* The mailbox, the program counters and the OTA session stay consistent: no
\* claim outlives or precedes the owner's work on it, a reservation is held
\* exactly inside an OTA handler, and physical work excludes an update
\* (power_request.h:79-209, power.c:605-796).
THEOREM OwnerInvariant == Spec => []OwnerInv
  BY InvInit, InvStep, TypeCorrect, PTL DEF Spec

\* No sleep or power-off, claimed or private, runs while an update owns or has
\* reserved the hardware, although sys_WOM and sys_system_off read the session
\* flag long before they pass the gate (power.c:616-623, 730-740).
THEOREM ShutdownSafety == Spec => []NoShutdownDuringOta
  <1>1. OwnerInv => NoShutdownDuringOta
    BY DEF OwnerInv, PhysicalIsExclusive, NoShutdownDuringOta
  <1> QED
    BY <1>1, OwnerInvariant, PTL

\* A completion or a cancellation always addresses the claim it was made for.
THEOREM ClaimSafety == Spec => []ClaimIsCurrent
  <1>1. OwnerInv => ClaimIsCurrent
    BY DEF OwnerInv
  <1> QED
    BY <1>1, OwnerInvariant, PTL

-----------------------------------------------------------------------------
(* The refinement of PowerArbiter *)

\* A tracker that has just booted is free and owes nothing.
LEMMA ArbiterInit == Init => Arbiter!Init
  BY DEF Init, Arbiter!Init, Holder, Running, EmptyMailbox

\* A producer, and any step that leaves the reservation, the physical flag and
\* the power state alone, is a stutter of the arbiter.
LEMMA StutterStep ==
  ASSUME UNCHANGED power, mb'.ota = mb.ota, mb'.phys = mb.phys
  PROVE  UNCHANGED <<Holder, mb.ota = "READY">>
  BY DEF Holder, Running

\* The owner passes its gate: it commits, or was already physical.
LEMMA CommitStep ==
  ASSUME TypeOK, Running, UNCHANGED power, mb'.phys = TRUE, mb'.ota = mb.ota,
         mb.ota # "RESERVED"
  PROVE  [Arbiter!Next]_<<Holder, mb.ota = "READY">>
  <1>1. CASE mb.phys
    BY <1>1 DEF Holder, Running
  <1>2. CASE ~mb.phys
    <2>1. Arbiter!Commit
      BY <1>2 DEF Arbiter!Commit, Holder, Running
    <2> QED
      BY <2>1 DEF Arbiter!Next
  <1> QED
    BY <1>1, <1>2

\* The tracker leaves from inside its physical work.
LEMMA LeaveStep ==
  ASSUME TypeOK, Running, mb.phys, mb'.ota = mb.ota, power' \in {"off", "wom", "reset"},
         mb.ota = "READY" => power' = "reset"
  PROVE  [Arbiter!Next]_<<Holder, mb.ota = "READY">>
  <1>1. Arbiter!Leave
    BY DEF Arbiter!Leave, Arbiter!Gone, Holder, Running
  <1> QED
    BY <1>1 DEF Arbiter!Next

\* Every step of the power thread is a step of the arbiter or a stutter.
LEMMA OwnerRefines ==
  TypeOK /\ OwnerInv /\ OwnerStep => [Arbiter!Next]_<<Holder, mb.ota = "READY">>
  <1> SUFFICES ASSUME TypeOK, OwnerInv, OwnerStep
               PROVE  [Arbiter!Next]_<<Holder, mb.ota = "READY">>
    OBVIOUS
  <1>0. Yields(mb) /\ Yields(MbCancelWom(mb)) /\ MbCancelWom(mb) \in Mailbox
    BY YieldsSame, YieldsCancel DEF TypeOK
  <1>1. CASE Begin
    <2>1. mb.state # "EXECUTING"
      BY <1>1 DEF Begin, OwnerInv, ClaimIsCurrent
    <2>2. mb'.ota = mb.ota /\ mb'.phys = mb.phys /\ UNCHANGED power
      BY <1>1, <2>1, BeginFacts DEF Begin, TypeOK
    <2> QED
      BY <2>2, StutterStep
  <1>2. CASE \/ WomEnter \/ OffEnter \/ WomStale \/ WomGiveUp \/ WomEarly \/ OffBlocked
             \/ WomConfigured \/ WomSetupFails \/ Battery
    <2>1. mb' \in {mb, MbCancelWom(mb)} /\ UNCHANGED power
      BY <1>2 DEF WomEnter, OffEnter, WomStale, WomGiveUp, WomEarly, OffBlocked,
                  WomConfigured, Configured, WomSetupFails, Battery, CancelWom
    <2> QED
      BY <1>0, <2>1, StutterStep DEF Yields
  <1>3. CASE WomCommit
    <2>1. CASE MbStartWomOk(mb, gen)
      <3>1. mb' = MbStart(mb) /\ Running /\ UNCHANGED power /\ mb.ota = "NONE"
        BY <1>3, <2>1 DEF WomCommit, AtWomGate, MbStartWomOk
      <3> QED
        BY <3>1, StartFacts, CommitStep DEF TypeOK
    <2>2. CASE ~MbStartWomOk(mb, gen)
      BY <1>3, <2>2, StutterStep DEF WomCommit
    <2> QED
      BY <2>1, <2>2
  <1>4. CASE OffCommit
    <2>1. mb' = MbStart(mb) /\ Running /\ UNCHANGED power /\ mb.ota = "NONE"
      BY <1>4 DEF OffCommit, MbStartPhysicalOk
    <2> QED
      BY <2>1, StartFacts, CommitStep DEF TypeOK
  <1>5. CASE RebootGate
    <2>1. CASE MbStartPhysicalOk(MbCancelWom(mb), TRUE)
      <3>1. /\ mb' = MbStart(MbCancelWom(mb)) /\ Running /\ UNCHANGED power
            /\ mb.ota # "RESERVED"
        BY <1>0, <1>5, <2>1 DEF RebootGate, MbStartPhysicalOk, Yields
      <3>2. mb'.phys = TRUE /\ mb'.ota = mb.ota
        BY <1>0, <3>1, StartFacts DEF Yields
      <3> QED
        BY <3>1, <3>2, CommitStep
    <2>2. CASE ~MbStartPhysicalOk(MbCancelWom(mb), TRUE)
      BY <1>0, <1>5, <2>2, StutterStep DEF RebootGate, Yields
    <2> QED
      BY <2>1, <2>2
  <1>6. CASE OffConfigured \/ RebootConfigured \/ WomSleep
    <2>1. /\ Running /\ mb.phys /\ mb'.ota = mb.ota
          /\ power' \in {"off", "wom", "reset"}
          /\ mb.ota = "READY" => power' = "reset"
      BY <1>0, <1>6 DEF OffConfigured, RebootConfigured, WomSleep, Configured, CancelWom,
                        Yields, OwnerInv, PhysicalIsExclusive, GoingDown
    <2> QED
      BY <2>1, LeaveStep
  <1>7. ASSUME NEW at \in {"womCfg", "offCfg", "rebootCfg"}, ConfigureFails(at)
        PROVE  [Arbiter!Next]_<<Holder, mb.ota = "READY">>
    <2>1. mb' \in {mb, MbCancelWom(mb)} /\ UNCHANGED power
      BY <1>7 DEF ConfigureFails, CancelWom
    <2> QED
      BY <1>0, <2>1, StutterStep DEF Yields
  <1>8. CASE Finish
    <2>1. mb' = MbFinish(mb, req, gen, consumed) /\ Running /\ UNCHANGED power
          /\ (req = "REBOOT" => ~consumed)
      BY <1>8 DEF Finish, OwnerInv, ClaimMatchesPc
    <2>2. /\ mb'.ota = mb.ota
          /\ mb'.phys = mb.phys \/ mb'.phys = FALSE
      BY <2>1, FinishFacts DEF TypeOK, MbFinish, Mailbox
    <2>3. CASE mb'.phys = mb.phys
      BY <2>1, <2>2, <2>3, StutterStep
    <2>4. CASE mb'.phys # mb.phys
      <3>1. mb.phys /\ ~mb'.phys /\ mb.ota # "RESERVED"
        BY <2>2, <2>4 DEF TypeOK, Mailbox, OwnerInv, ReservationMatchesConn
      <3>2. Arbiter!Fail
        BY <2>1, <2>2, <3>1 DEF Arbiter!Fail, Holder, Running
      <3> QED
        BY <3>2 DEF Arbiter!Next
    <2> QED
      BY <2>3, <2>4
  <1> QED
    BY <1>1, <1>2, <1>3, <1>4, <1>5, <1>6, <1>7, <1>8 DEF OwnerStep

\* Every step of the OTA client is a step of the arbiter or a stutter.
LEMMA ConnRefines ==
  TypeOK /\ OwnerInv /\ ConnStep => [Arbiter!Next]_<<Holder, mb.ota = "READY">>
  <1> SUFFICES ASSUME TypeOK, OwnerInv, ConnStep
               PROVE  [Arbiter!Next]_<<Holder, mb.ota = "READY">>
    OBVIOUS
  <1>1. CASE BeginReserve \/ ActivateReserve \/ AbortReserve \/ RecoverReserve
    <2>1. OtaReserve /\ Running
      BY <1>1 DEF BeginReserve, ActivateReserve, AbortReserve, RecoverReserve, ConnAt,
                  PacketHandled
    <2>2. /\ mb.ota = "NONE" /\ mb'.ota = "RESERVED" /\ ~mb'.phys /\ ~mb.phys
          /\ UNCHANGED power
      BY <2>1, ReserveYields DEF OtaReserve
    <2>3. Arbiter!Reserve
      BY <2>1, <2>2 DEF Arbiter!Reserve, Holder, Running
    <2> QED
      BY <2>3 DEF Arbiter!Next
  <1>2. CASE BeginRelease \/ ActivateFails \/ ActivateRelease \/ RecoverRelease
    <2>1. PICK prepared \in BOOLEAN :
            OtaResolve(prepared) /\ Running /\ conn \in ReservingPcs
      BY <1>2 DEF BeginRelease, ActivateFails, ActivateRelease, RecoverRelease, ConnAt,
                  ReservingPcs
    <2>2. mb.ota = "RESERVED" /\ ~mb.phys
      BY <2>1 DEF OwnerInv, ReservationMatchesConn
    <2>3. mb'.ota \in {"READY", "NONE"} /\ ~mb'.phys /\ UNCHANGED power
      BY <2>1, <2>2, ResolveYields DEF OtaResolve
    <2>4. Arbiter!Resolve
      BY <2>1, <2>2, <2>3 DEF Arbiter!Resolve, Holder, Running
    <2> QED
      BY <2>4 DEF Arbiter!Next
  <1>3. CASE ActivateCopies
    <2>1. /\ Running /\ mb.ota = "RESERVED" /\ ~mb.phys /\ power' = "reset" /\ UNCHANGED mb
      BY <1>3 DEF ActivateCopies, ConnAt, OwnerInv, ReservationMatchesConn, ReservingPcs
    <2>2. Arbiter!HandOff
      BY <2>1 DEF Arbiter!HandOff, Holder, Running
    <2> QED
      BY <2>2 DEF Arbiter!Next
  <1>4. CASE BeginWithdraw
    <2>1. mb'.ota = mb.ota /\ mb'.phys = mb.phys /\ UNCHANGED power
      BY <1>4, CancelWomFacts DEF BeginWithdraw, CancelWom, TypeOK
    <2> QED
      BY <2>1, StutterStep
  <1>5. CASE \/ BeginPublish \/ BeginSuspend \/ BeginReady \/ BeginFails
             \/ ActivatePrepared \/ AbortDropped \/ AbortPublish \/ AbortClear
             \/ RecoverPublish
    <2>1. UNCHANGED <<mb, power>>
      BY <1>5 DEF BeginPublish, BeginSuspend, BeginReady, BeginFails, ActivatePrepared,
                  AbortDropped, AbortPublish, AbortClear, RecoverPublish, OtaLocal
    <2> QED
      BY <2>1, StutterStep
  <1>6. ASSUME NEW result \in {"VERIFIED", "ERROR"}, Verify(result)
        PROVE  [Arbiter!Next]_<<Holder, mb.ota = "READY">>
    BY <1>6, StutterStep DEF Verify, OtaLocal
  <1> QED
    BY <1>1, <1>2, <1>3, <1>4, <1>5, <1>6 DEF ConnStep, BeginSteps, HandoffSteps

\* The producers do not change who holds the hardware.
LEMMA ClientRefines ==
  TypeOK /\ OwnerInv /\ ClientStep => UNCHANGED <<Holder, mb.ota = "READY">>
  <1> SUFFICES ASSUME TypeOK, OwnerInv, ClientStep
               PROVE  UNCHANGED <<Holder, mb.ota = "READY">>
    OBVIOUS
  <1>1. Yields(mb') /\ UNCHANGED power
    BY ClientYields
  <1> QED
    BY <1>1, StutterStep DEF Yields

\* A boot frees the hardware; nothing else in the world changes its holder.
LEMMA WorldRefines ==
  TypeOK /\ WorldStep => [Arbiter!Next]_<<Holder, mb.ota = "READY">>
  <1> SUFFICES ASSUME TypeOK, WorldStep
               PROVE  [Arbiter!Next]_<<Holder, mb.ota = "READY">>
    OBVIOUS
  <1>1. CASE Boot
    <2>1. Arbiter!Boot
      BY <1>1 DEF Boot, Arbiter!Boot, Arbiter!Gone, Holder, Running, EmptyMailbox, TypeOK
    <2> QED
      BY <2>1 DEF Arbiter!Next
  <1>2. CASE Tick \/ \E flag \in Toggles : Toggle(flag)
    BY <1>2, StutterStep DEF Tick, Toggle
  <1> QED
    BY <1>1, <1>2 DEF WorldStep

\* Every step is a step of the arbiter or a stutter.
LEMMA StepRefines ==
  TypeOK /\ OwnerInv /\ [Next]_vars => [Arbiter!Next]_<<Holder, mb.ota = "READY">>
  <1>1. UNCHANGED vars => UNCHANGED <<Holder, mb.ota = "READY">>
    BY DEF vars, Holder, Running
  <1> QED
    BY <1>1, OwnerRefines, ConnRefines, ClientRefines, WorldRefines DEF Next

\* The mailbox, its locks and the handlers' order of publication implement the
\* single holder of PowerArbiter: the hardware never has two owners, and an
\* update that is owed a reboot gets it (power_request.h:88-209).
THEOREM Refinement == Spec => ImplementsArbiter
  BY StepRefines, ArbiterInit, TypeCorrect, OwnerInvariant, PTL
  DEF Spec, ImplementsArbiter, Arbiter!Spec

\* A prepared update keeps its claim on the next reboot, through failing
\* shutdowns, retries and competing requests (power_request.h:79-118, 182-194):
\* in the arbiter's terms only a reset can leave a prepared update behind.
THEOREM OwedReboot == Spec => OtaRebootIsOwed
  <1>1. ASSUME TypeOK, TypeOK', OwnerInv, [Next]_vars, Running, mb.ota = "READY"
        PROVE  IF power' = "on" THEN mb'.ota = "READY" ELSE power' = "reset"
    <2>1. Holder \in {"shutdown", "free"}
      BY <1>1 DEF Holder
    <2>2. [Arbiter!Next]_<<Holder, mb.ota = "READY">>
      BY <1>1, StepRefines
    <2>3. \/ Holder' \in {"shutdown", "free"} /\ mb'.ota = "READY"
          \/ Holder' = "reset"
      BY <1>1, <2>1, <2>2
      DEF Arbiter!Next, Arbiter!Reserve, Arbiter!Resolve, Arbiter!HandOff, Arbiter!Commit,
          Arbiter!Fail, Arbiter!Leave, Arbiter!Boot, Arbiter!Gone
    <2> QED
      BY <1>1, <2>3 DEF Holder, Running, TypeOK
  <1>2. TypeOK /\ TypeOK' /\ OwnerInv /\ [Next]_vars =>
          [Running /\ mb.ota = "READY" =>
             IF power' = "on" THEN mb'.ota = "READY" ELSE power' = "reset"]_vars
    BY <1>1
  <1> QED
    BY <1>2, TypeCorrect, OwnerInvariant, PTL DEF Spec, OtaRebootIsOwed

\* An update stays visible as active from its BEGIN to the end of the boot:
\* abort and recovery publish the owed reboot before the session disappears
\* (esb_ota.c:804-811, 844).
THEOREM ActiveUntilReset == Spec => OtaStaysActive
  <1>1. ASSUME OwnerInv, [Next]_vars, Running, OtaActive
        PROVE  OtaActive' \/ power' # "on"
    <2>1. CASE OwnerStep
      <3>1. UNCHANGED otaVars
        <4>1. CASE Begin \/ WomEnter \/ WomStale \/ WomGiveUp \/ WomEarly \/ WomCommit
          BY <4>1 DEF Begin, WomEnter, WomStale, WomGiveUp, WomEarly, WomCommit
        <4>2. CASE OffEnter \/ OffBlocked \/ OffCommit \/ RebootGate
          BY <4>2 DEF OffEnter, OffBlocked, OffCommit, RebootGate
        <4>3. CASE WomConfigured \/ OffConfigured \/ RebootConfigured
          BY <4>3 DEF WomConfigured, OffConfigured, RebootConfigured, Configured
        <4>4. CASE \E at \in {"womCfg", "offCfg", "rebootCfg"} : ConfigureFails(at)
          BY <4>4 DEF ConfigureFails
        <4>5. CASE WomSleep \/ WomSetupFails \/ Finish \/ Battery
          BY <4>5 DEF WomSleep, WomSetupFails, Finish, Battery
        <4> QED
          BY <2>1, <4>1, <4>2, <4>3, <4>4, <4>5 DEF OwnerStep
      <3> QED
        BY <1>1, <3>1 DEF OtaActive
    <2>2. CASE ClientStep
      <3>1. UNCHANGED <<session, pending>>
        BY <2>2, ClientKeeps
      <3> QED
        BY <1>1, <3>1 DEF OtaActive
    <2>3. CASE ConnStep
      <3>1. CASE BeginPublish \/ ActivatePrepared \/ AbortPublish \/ RecoverPublish
        BY <3>1 DEF BeginPublish, ActivatePrepared, AbortPublish, RecoverPublish, OtaActive
      <3>2. CASE AbortClear
        BY <1>1, <3>2 DEF AbortClear, ConnAt, OwnerInv, ReservationMatchesConn, OtaActive
      <3>3. CASE ~(BeginPublish \/ ActivatePrepared \/ AbortPublish \/ RecoverPublish \/ AbortClear)
        <4>1. UNCHANGED <<session, pending>>
          BY <2>3, <3>3 DEF ConnStep, BeginSteps, HandoffSteps, BeginReserve, BeginRelease,
                      BeginSuspend, BeginWithdraw, BeginReady, BeginFails, Verify,
                      ActivateReserve, ActivateFails, ActivateCopies, ActivateRelease,
                      AbortDropped, AbortReserve, RecoverReserve, RecoverRelease
        <4> QED
          BY <1>1, <4>1 DEF OtaActive
      <3> QED
        BY <3>1, <3>2, <3>3
    <2>4. CASE WorldStep
      BY <1>1, <2>4 DEF WorldStep, Tick, Boot, Toggle, OtaActive, Running
    <2>5. CASE UNCHANGED vars
      BY <1>1, <2>5 DEF vars, OtaActive
    <2> QED
      BY <1>1, <2>1, <2>2, <2>3, <2>4, <2>5 DEF Next
  <1>2. OwnerInv /\ [Next]_vars =>
          [Running /\ OtaActive => OtaActive' \/ power' # "on"]_vars
    BY <1>1
  <1> QED
    BY <1>2, OwnerInvariant, PTL DEF Spec, OtaStaysActive

-----------------------------------------------------------------------------
(* The plan.  A planned sleep is backed by its request in the mailbox, and   *)
(* what the receiver was told last is true of it.  Two places need more than *)
(* the first.  sys_system_off withdraws the plan on entry and passes its     *)
(* gate later, so nothing may be planned between the two; and the power      *)
(* thread consumes the slot it claimed, so a sleep that is still claimed     *)
(* when it is consumed must have become physical, which ends the plan.  The  *)
(* second rests on the first: a notice other than WILL_WOM is only sent      *)
(* where there is no plan.                                                   *)

\* The plan and its request, while the tracker runs and after it has gone.
Backed ==
  plan.planned =>
    /\ mb.request = WomOf(plan.force) /\ mb.state # "EMPTY"
    /\ ~mb.phys /\ mb.ota = "NONE"

\* What the gate of sys_system_off and the end of a claim rely on.
GateIsClear == pc = "offGate" => ~plan.planned
ConsumedIsPhysical ==
  pc = "finish" /\ consumed /\ req \in WomRequests /\ mb.state = "EXECUTING" => mb.phys

PlanInv == Backed /\ GateIsClear /\ ConsumedIsPhysical

-----------------------------------------------------------------------------
(* Withdrawing and planning *)

\* sys_cancel_WOM_locked leaves no plan: where it returns at once, the shutdown
\* is physical and there is none (power.c:383-398).
LEMMA CancelClears ==
  ASSUME TypeOK, Backed
  PROVE  /\ ~PlanAfterCancel.planned
         /\ MbCancelWom(mb) \in Mailbox
         /\ MbCancelWom(mb).phys = mb.phys /\ MbCancelWom(mb).ota = mb.ota
         /\ MbCancelWom(mb).state = "EXECUTING" => mb.state = "EXECUTING"
  BY CancelWomFacts DEF TypeOK, Backed, PlanAfterCancel, NoPlan

\* A request the mailbox accepts for a sleep is in the slot and nothing excludes
\* it (power_request.h:45-74).
LEMMA SubmitBacks ==
  ASSUME NEW m \in Mailbox, NEW force \in BOOLEAN, MbSubmitOk(m, WomOf(force)), MbFilled(m)
  PROVE  /\ MbSubmit(m, WomOf(force)).request = WomOf(force)
         /\ MbSubmit(m, WomOf(force)).state # "EMPTY"
         /\ MbSubmit(m, WomOf(force)).phys = FALSE
         /\ MbSubmit(m, WomOf(force)).ota = "NONE"
  BY DEF MbSubmit, MbSubmitOk, MbVacant, WomOf, Mailbox, RequestStates, MbFilled

\* The sensor thread plans, keeps or withdraws a sleep together with its request,
\* a stale plan being withdrawn first (power.c:528-571).
LEMMA PlanSensor ==
  ASSUME TypeOK, OwnerInv, Backed, NEW force \in BOOLEAN, NEW normal \in BOOLEAN,
         NEW d \in Deadlines, SensorPlanWom(force, d, normal)
  PROVE  Backed'
  <1> DEFINE stale == /\ plan.planned
                      /\ \/ plan.force # force \/ plan.deadline # d
                         \/ plan.normal # normal \/ now - plan.lastElig >= LEASE
             m0 == IF stale THEN MbCancelWom(mb) ELSE mb
             p0 == IF stale THEN PlanAfterCancel ELSE plan
             m1 == MbSubmit(m0, WomOf(force))
             fresh == [NoPlan EXCEPT !.planned = TRUE, !.force = force,
                                     !.deadline = d, !.normal = normal]
             p1 == [IF p0.planned THEN p0 ELSE fresh EXCEPT !.lastElig = now]
             p2 == [p1 EXCEPT !.announced = TRUE, !.commitAt = Later(d, now + ADVANCE)]
  <1>1. d \in Int /\ now \in Int /\ plan \in Plans /\ mb \in Mailbox /\ MbFilled(mb)
    BY ConstantsAssumption DEF TypeOK, OwnerInv
  <1>2. /\ m0 \in Mailbox /\ MbFilled(m0) /\ p0 \in Plans
        /\ p0.planned => m0 = mb /\ p0 = plan /\ plan.force = force
    BY <1>1, CancelClears, CancelWomFacts, CancelType
  <1>3. p1.force = force
    <2>1. fresh \in Plans /\ fresh.force = force
      BY <1>1, NoPlanType DEF Plans, NoPlan
    <2> HIDE DEF p0, fresh
    <2> QED
      BY <1>2, <2>1 DEF Plans
  <1>4. p1 \in Plans
    <2>1. fresh \in Plans
      BY <1>1, NoPlanType DEF Plans
    <2> HIDE DEF p0, fresh
    <2> QED
      BY <1>1, <1>2, <2>1 DEF Plans
  <1> HIDE DEF m0, p0, m1, p1
  <1>5. p2.force = force
    BY <1>3, <1>4 DEF Plans
  <1> HIDE DEF p2
  <1>6. CASE ~MbSubmitOk(m0, WomOf(force))
    <2>1. mb' = m0 /\ plan' = p0
      BY <1>6 DEF SensorPlanWom, m0, p0
    <2> QED
      BY <1>2, <2>1 DEF Backed
  <1>7. CASE MbSubmitOk(m0, WomOf(force))
    <2>1. \/ plan' = NoPlan
          \/ mb' = m1 /\ plan' \in {p1, p2}
      BY <1>7 DEF SensorPlanWom, m0, p0, m1, p1, p2
    <2>2. /\ m1.request = WomOf(force) /\ m1.state # "EMPTY"
          /\ ~m1.phys /\ m1.ota = "NONE"
      BY <1>2, <1>7, SubmitBacks DEF m1
    <2> QED
      BY <1>3, <1>5, <2>1, <2>2 DEF Backed, NoPlan
  <1> QED
    BY <1>6, <1>7

\* A step that only yields to the owner and starts no plan of its own accord
\* keeps what the end of a claim relies on.
LEMMA YieldsKeepEnd ==
  ASSUME OwnerInv, ConsumedIsPhysical, Yields(mb'), UNCHANGED ownerVars
  PROVE  ConsumedIsPhysical'
  BY DEF Yields, ConsumedIsPhysical

\* The sensor thread and the users: whoever plans has submitted, whoever
\* withdraws the request withdraws the plan.
LEMMA PlanClient == TypeOK /\ OwnerInv /\ PlanInv /\ ClientStep => PlanInv'
  <1> SUFFICES ASSUME TypeOK, OwnerInv, PlanInv, ClientStep PROVE PlanInv'
    OBVIOUS
  <1>0. /\ ~PlanAfterCancel.planned /\ MbCancelWom(mb) \in Mailbox /\ mb \in Mailbox
        /\ MbFilled(mb) /\ MbFilled(MbCancelWom(mb)) /\ Backed /\ GateIsClear
    BY CancelClears, CancelWomFacts DEF PlanInv, TypeOK, OwnerInv
  <1>1. ConsumedIsPhysical'
    BY ClientYields, ClientKeeps, YieldsKeepEnd DEF PlanInv
  <1>2. pc = "offGate" => lock = "power"
    BY DEF OwnerInv, GuardIsGood
  <1>3. UNCHANGED pc
    BY ClientKeeps DEF ownerVars
  <1>4. ASSUME NEW force \in BOOLEAN, NEW normal \in BOOLEAN, NEW d \in Deadlines,
               SensorPlanWom(force, d, normal)
        PROVE  Backed' /\ GateIsClear'
    <2>1. pc # "offGate"
      BY <1>2, <1>4 DEF SensorPlanWom
    <2>2. GateIsClear'
      BY <1>3, <2>1 DEF GateIsClear
    <2> QED
      BY <1>4, <2>2, PlanSensor DEF PlanInv
  <1>5. CASE SensorCancelWom
    BY <1>0, <1>1, <1>3, <1>5 DEF PlanInv, SensorCancelWom, CancelWom, Backed, GateIsClear
  <1>6. CASE RequestSystemOff \/ RequestReboot
    BY <1>0, <1>1, <1>3, <1>6 DEF PlanInv, RequestSystemOff, RequestReboot, RequestPower, Backed, GateIsClear
  <1>7. CASE RequestWomNow
    <2>1. WomOf(TRUE) = "WOM_FORCE" /\ pc' # "offGate"
      BY <1>2, <1>3, <1>7 DEF WomOf, RequestWomNow
    <2> QED
      BY <1>0, <1>1, <1>3, <1>7, <2>1, SubmitBacks DEF PlanInv, RequestWomNow, Backed, GateIsClear
  <1>8. CASE SetTimeoutBegin \/ AbortRequest
    BY <1>0, <1>1, <1>3, <1>8 DEF PlanInv, SetTimeoutBegin, AbortRequest, OtaLocal, Backed, GateIsClear
  <1>9. ASSUME NEW changed \in BOOLEAN, SetTimeoutEnd(changed)
        PROVE  Backed' /\ GateIsClear'
    BY <1>0, <1>9 DEF SetTimeoutEnd, CancelWom, Backed, GateIsClear
  <1> QED
    BY <1>1, <1>4, <1>5, <1>6, <1>7, <1>8, <1>9 DEF ClientStep, PlanInv


\* Time and the environment leave the plan alone; a boot forgets it.
LEMMA PlanWorld == PlanInv /\ WorldStep => PlanInv'
  <1> SUFFICES ASSUME PlanInv, WorldStep PROVE PlanInv'
    OBVIOUS
  <1>1. CASE Tick
    BY <1>1 DEF Tick, PlanInv, Backed, GateIsClear, ConsumedIsPhysical
  <1>2. CASE Boot
    BY <1>2 DEF Boot, NoPlan, PlanInv, Backed, GateIsClear, ConsumedIsPhysical
  <1>3. ASSUME NEW flag \in Toggles, Toggle(flag)
        PROVE  PlanInv'
    BY <1>3 DEF Toggle, PlanInv, Backed, GateIsClear, ConsumedIsPhysical
  <1> QED
    BY <1>1, <1>2, <1>3 DEF WorldStep

\* The OTA client: a reservation takes the plan with it, and there is no plan
\* while one is held.
LEMMA PlanConn == TypeOK /\ OwnerInv /\ PlanInv /\ ConnStep => PlanInv'
  <1> SUFFICES ASSUME TypeOK, OwnerInv, PlanInv, ConnStep PROVE PlanInv'
    OBVIOUS
  <1>0. ~PlanAfterCancel.planned
    BY CancelClears DEF PlanInv
  <1>1. CASE BeginReserve \/ ActivateReserve \/ AbortReserve \/ RecoverReserve
    <2>1. OtaReserve
      BY <1>1 DEF BeginReserve, ActivateReserve, AbortReserve, RecoverReserve
    <2>2. /\ mb.phys = FALSE /\ ~plan'.planned /\ UNCHANGED ownerVars
          /\ mb'.state = "EXECUTING" => mb.state = "EXECUTING"
      BY <1>0, <2>1, ReserveYields DEF OtaReserve
    <2> QED
      BY <2>2 DEF PlanInv, Backed, GateIsClear, ConsumedIsPhysical
  <1>2. CASE BeginRelease \/ ActivateFails \/ ActivateRelease \/ RecoverRelease
    <2>1. PICK prepared \in BOOLEAN : OtaResolve(prepared)
      BY <1>2 DEF BeginRelease, ActivateFails, ActivateRelease, RecoverRelease
    <2>2. mb.ota = "RESERVED"
      BY <1>2 DEF BeginRelease, ActivateFails, ActivateRelease, RecoverRelease, ConnAt,
                  OwnerInv, ReservationMatchesConn, ReservingPcs
    <2>3. /\ mb'.phys = mb.phys /\ mb'.state = mb.state
          /\ UNCHANGED <<plan, ownerVars>>
      BY <2>1, <2>2, ResolveYields DEF OtaResolve
    <2> QED
      BY <2>2, <2>3 DEF PlanInv, Backed, GateIsClear, ConsumedIsPhysical
  <1>3. CASE BeginWithdraw
    <2>1. Yields(mb') /\ ~plan'.planned /\ UNCHANGED ownerVars
      BY <1>0, <1>3, YieldsSame, YieldsCancel DEF BeginWithdraw, CancelWom, TypeOK
    <2> QED
      BY <2>1, YieldsKeepEnd DEF PlanInv, Backed, GateIsClear
  <1>4. CASE \/ BeginPublish \/ BeginSuspend \/ BeginReady \/ BeginFails
             \/ ActivatePrepared \/ AbortDropped \/ AbortPublish \/ AbortClear
             \/ RecoverPublish \/ ActivateCopies
    <2>1. UNCHANGED <<mb, plan, ownerVars>>
      BY <1>4 DEF BeginPublish, BeginSuspend, BeginReady, BeginFails, ActivatePrepared,
                  AbortDropped, AbortPublish, AbortClear, RecoverPublish, ActivateCopies,
                  OtaLocal
    <2> QED
      BY <2>1 DEF PlanInv, Backed, GateIsClear, ConsumedIsPhysical
  <1>5. ASSUME NEW result \in {"VERIFIED", "ERROR"}, Verify(result)
        PROVE  PlanInv'
    BY <1>5 DEF Verify, OtaLocal, PlanInv, Backed, GateIsClear, ConsumedIsPhysical
  <1> QED
    BY <1>1, <1>2, <1>3, <1>4, <1>5 DEF ConnStep, BeginSteps, HandoffSteps

\* The power thread: it claims a request without changing it, ends the plan
\* where it makes the sleep irrevocable, and consumes no plan's request.
LEMMA PlanOwner == TypeOK /\ OwnerInv /\ PlanInv /\ OwnerStep => PlanInv'
  <1> SUFFICES ASSUME TypeOK, OwnerInv, PlanInv, OwnerStep PROVE PlanInv'
    OBVIOUS
  <1>0. /\ ~PlanAfterCancel.planned /\ mb \in Mailbox
        /\ MbCancelWom(mb).phys = mb.phys
        /\ MbCancelWom(mb).state = "EXECUTING" => mb.state = "EXECUTING"
        /\ Backed /\ GateIsClear /\ ConsumedIsPhysical
    BY CancelClears DEF PlanInv, TypeOK
  <1>1. CASE Begin
    <2>1. mb.state # "EXECUTING"
      BY <1>1 DEF Begin, OwnerInv, ClaimIsCurrent
    <2>2. Backed'
      <3>1. CASE plan.planned
        <4>1. MbSupersede(mb) = mb /\ mb.ota = "NONE"
          BY <1>0, <3>1 DEF Backed, MbSupersede
        <4>2. mb'.request = mb.request /\ mb'.phys = mb.phys /\ mb'.ota = mb.ota
          BY <1>0, <1>1, <4>1 DEF Begin, MbBegin, Mailbox
        <4>3. mb'.state # "EMPTY"
          BY <1>0, <1>1, <3>1, <4>1 DEF Begin, MbBegin, Mailbox, Backed
        <4> QED
          BY <1>0, <1>1, <4>2, <4>3 DEF Begin, Backed
      <3>2. CASE ~plan.planned
        BY <1>1, <3>2 DEF Begin, Backed
      <3> QED
        BY <3>1, <3>2
    <2>3. GateIsClear'
      BY <1>1 DEF Begin, GateIsClear
    <2>4. ConsumedIsPhysical'
      BY <1>1 DEF Begin, ConsumedIsPhysical, WomRequests
    <2> QED
      BY <2>2, <2>3, <2>4 DEF PlanInv
  <1>2. CASE WomEnter \/ OffEnter
    <2>1. /\ pc' \in {"womGate", "offGate"}
          /\ \/ pc' = "womGate" /\ UNCHANGED <<mb, plan>>
             \/ ~plan'.planned
      BY <1>0, <1>2 DEF WomEnter, OffEnter, CancelWom
    <2> QED
      BY <1>0, <2>1 DEF PlanInv, Backed, GateIsClear, ConsumedIsPhysical
  <1>3. CASE WomStale
    <2>1. /\ UNCHANGED <<mb, plan, req, gen>> /\ pc = "womGate" /\ req \in WomRequests
          /\ pc' = "finish" /\ ~MbWomClaimCurrent(mb, gen)
      BY <1>3 DEF WomStale, AtWomGate, Return, OwnerInv, ClaimMatchesPc, WomRequests
    <2>2. mb.state = "EXECUTING" => mb.phys
      BY <2>1 DEF OwnerInv, ClaimIsCurrent, MbWomClaimCurrent
    <2> QED
      BY <1>0, <2>1, <2>2 DEF PlanInv, Backed, GateIsClear, ConsumedIsPhysical
  <1>4. CASE WomGiveUp
    <2>1. ~plan'.planned /\ pc' # "offGate" /\ MbWomClaimCurrent(mb, gen)
          /\ mb' = MbCancelWom(mb)
      BY <1>0, <1>4 DEF WomGiveUp, CancelWom, Return
    <2>2. mb'.state # "EXECUTING"
      BY <1>0, <2>1 DEF MbWomClaimCurrent, MbCancelWom, Mailbox
    <2> QED
      BY <2>1, <2>2 DEF PlanInv, Backed, GateIsClear, ConsumedIsPhysical
  <1>5. CASE WomEarly \/ OffBlocked
    <2>1. UNCHANGED <<mb, plan>> /\ pc' # "offGate" /\ consumed' = FALSE
      BY <1>5 DEF WomEarly, OffBlocked, Return
    <2> QED
      BY <1>0, <2>1 DEF PlanInv, Backed, GateIsClear, ConsumedIsPhysical
  <1>6. CASE WomCommit
    <2>1. CASE MbStartWomOk(mb, gen)
      BY <1>6, <2>1 DEF WomCommit, Goto, NoPlan, PlanInv, Backed, GateIsClear,
                        ConsumedIsPhysical
    <2>2. CASE ~MbStartWomOk(mb, gen)
      <3>1. UNCHANGED <<mb, plan>> /\ pc' # "offGate" /\ consumed' = FALSE
        BY <1>6, <2>2 DEF WomCommit, Return
      <3> QED
        BY <1>0, <3>1 DEF PlanInv, Backed, GateIsClear, ConsumedIsPhysical
    <2> QED
      BY <2>1, <2>2
  <1>7. CASE OffCommit
    <2>1. ~plan.planned /\ UNCHANGED plan /\ pc' = "offCfg"
      BY <1>0, <1>7 DEF OffCommit, GateIsClear, Goto
    <2> QED
      BY <2>1 DEF PlanInv, Backed, GateIsClear, ConsumedIsPhysical
  <1>8. CASE RebootGate
    <2>1. ~plan'.planned /\ pc' # "offGate" /\ UNCHANGED req
          /\ mb' \in {MbStart(MbCancelWom(mb)), MbCancelWom(mb)}
      BY <1>0, <1>8 DEF RebootGate, Goto, Return
    <2>2. req \in WomRequests => mb'.phys
      <3>1. req \in WomRequests => mb.phys
        BY <1>8 DEF RebootGate, OwnerInv, PhysicalIsExclusive
      <3>2. MbStart(MbCancelWom(mb)).phys = TRUE
        BY <1>0, CancelClears, StartFacts
      <3> QED
        BY <1>0, <2>1, <3>1, <3>2
    <2> QED
      BY <2>1, <2>2 DEF PlanInv, Backed, GateIsClear, ConsumedIsPhysical
  <1>9. CASE WomConfigured \/ OffConfigured \/ RebootConfigured
    <2>1. ~plan'.planned /\ pc' \notin {"offGate", "finish"}
      BY <1>0, <1>9 DEF WomConfigured, OffConfigured, RebootConfigured, Configured, CancelWom,
                        Goto
    <2> QED
      BY <2>1 DEF PlanInv, Backed, GateIsClear, ConsumedIsPhysical
  <1>10. ASSUME NEW at \in {"womCfg", "offCfg", "rebootCfg"}, ConfigureFails(at)
         PROVE  PlanInv'
    <2>1. /\ pc' # "offGate" /\ UNCHANGED req
          /\ \/ UNCHANGED <<mb, plan>>
             \/ mb' = MbCancelWom(mb) /\ ~plan'.planned
      BY <1>0, <1>10 DEF ConfigureFails, CancelWom, Return
    <2>3. pc = "rebootCfg" \/ ~consumed'
      BY <1>10, Zenon DEF ConfigureFails, Return
    <2>2. pc = "rebootCfg" => mb.phys
      BY DEF OwnerInv, PhysicalIsExclusive
    <2> QED
      BY <1>0, <2>1, <2>2, <2>3 DEF PlanInv, Backed, GateIsClear, ConsumedIsPhysical
  <1>11. CASE WomSleep \/ WomSetupFails \/ Battery
    <2>1. UNCHANGED <<mb, plan>> /\ pc' \notin {"offGate", "finish"}
      BY <1>11 DEF WomSleep, WomSetupFails, Battery, Goto
    <2> QED
      BY <1>0, <2>1 DEF PlanInv, Backed, GateIsClear, ConsumedIsPhysical
  <1>12. CASE Finish
    <2>1. /\ mb' = MbFinish(mb, req, gen, consumed) /\ UNCHANGED plan
          /\ pc = "finish" /\ pc' = "battery"
      BY <1>12 DEF Finish
    <2>2. Backed'
      <3>1. CASE ~plan.planned
        BY <2>1, <3>1 DEF Backed
      <3>2. CASE plan.planned /\ ~(mb.state = "EXECUTING" /\ mb.request = req /\ mb.gen = gen)
        <4>1. mb' = mb
          BY <2>1, <3>2 DEF MbFinish
        <4> QED
          BY <1>0, <2>1, <4>1 DEF Backed
      <3>3. CASE plan.planned /\ mb.state = "EXECUTING" /\ mb.request = req /\ mb.gen = gen
        <4>1. req \in WomRequests /\ ~mb.phys
          BY <1>0, <3>3 DEF Backed, WomOf, WomRequests
        <4>2. ~consumed
          BY <1>0, <2>1, <3>3, <4>1 DEF ConsumedIsPhysical
        <4>3. mb' = [mb EXCEPT !.phys = FALSE, !.state = "RETRY"]
          BY <2>1, <3>3, <4>2 DEF MbFinish
        <4>4. /\ mb'.request = mb.request /\ mb'.state = "RETRY"
              /\ mb'.phys = FALSE /\ mb'.ota = mb.ota
          BY <1>0, <4>3 DEF Mailbox
        <4> QED
          BY <1>0, <2>1, <3>3, <4>4 DEF Backed
      <3> QED
        BY <3>1, <3>2, <3>3
    <2> QED
      BY <2>1, <2>2 DEF PlanInv, GateIsClear, ConsumedIsPhysical
  <1> QED
    BY <1>1, <1>2, <1>3, <1>4, <1>5, <1>6, <1>7, <1>8, <1>9, <1>10, <1>11, <1>12
    DEF OwnerStep

\* The plan and the mailbox agree in every reachable state.
LEMMA PlanInvariant == Spec => []PlanInv
  <1>1. Init => PlanInv
    BY DEF Init, NoPlan, PlanInv, Backed, GateIsClear, ConsumedIsPhysical
  <1>2. TypeOK /\ OwnerInv /\ PlanInv /\ [Next]_vars => PlanInv'
    <2> SUFFICES ASSUME TypeOK, OwnerInv, PlanInv, [Next]_vars PROVE PlanInv'
      OBVIOUS
    <2>1. CASE UNCHANGED vars
      BY <2>1 DEF vars, PlanInv, Backed, GateIsClear, ConsumedIsPhysical
    <2> QED
      BY <2>1, PlanOwner, PlanConn, PlanClient, PlanWorld DEF Next
  <1> QED
    BY <1>1, <1>2, TypeCorrect, OwnerInvariant, PTL DEF Spec

\* A planned sleep always has its request in the mailbox, and no reservation
\* and no physical shutdown beside it (power.c:383-398, 528-571): neither a
\* completion nor a withdrawal, by whomever, separates the two.
THEOREM PlanBacked == Spec => []PlanIsBacked
  <1>1. PlanInv => PlanIsBacked
    BY DEF PlanInv, Backed, PlanIsBacked
  <1> QED
    BY <1>1, PlanInvariant, PTL

-----------------------------------------------------------------------------
(* What the receiver was told *)

\* An announced plan is the last thing the receiver heard, its lead time not yet
\* over; and until a step fails nothing else leaves such a notice standing.
NoticeInv ==
  /\ plan.announced =>
       plan.planned /\ wire.kind = "WILL_WOM" /\ plan.commitAt >= wire.at + ADVANCE
  /\ faults <= MaxFaults
  /\ faults = MaxFaults /\ wire.kind = "WILL_WOM" =>
       plan.announced \/ pc \in {"womCfg", "womSetup"}

\* Steps that touch neither the plan nor the notice.
LEMMA NoticeSame ==
  ASSUME NoticeInv, UNCHANGED <<plan, wire, faults>>,
         pc \in {"womCfg", "womSetup"} => pc' \in {"womCfg", "womSetup"}
  PROVE  NoticeInv'
  BY DEF NoticeInv

\* Withdrawing a sleep withdraws what was said about it (power.c:388-392).
LEMMA NoticeCancel ==
  ASSUME NoticeInv, Backed, plan' = PlanAfterCancel, wire' = WireAfterCancel,
         faults' = faults,
         pc \in {"womCfg", "womSetup"} => pc' \in {"womCfg", "womSetup"}
  PROVE  NoticeInv'
  BY DEF NoticeInv, Backed, PlanAfterCancel, WireAfterCancel, NoPlan, Notice

\* Another notice, sent where no sleep is planned.
LEMMA NoticeOther ==
  ASSUME NoticeInv, ~plan'.announced, wire'.kind # "WILL_WOM", faults' <= MaxFaults
  PROVE  NoticeInv'
  BY DEF NoticeInv

\* A plan is announced in the step that tells the receiver (power.c:558-566).
LEMMA NoticeSensor ==
  ASSUME TypeOK, Backed, NoticeInv, NEW force \in BOOLEAN, NEW normal \in BOOLEAN,
         NEW d \in Deadlines, SensorPlanWom(force, d, normal)
  PROVE  NoticeInv'
  <1> DEFINE stale == /\ plan.planned
                      /\ \/ plan.force # force \/ plan.deadline # d
                         \/ plan.normal # normal \/ now - plan.lastElig >= LEASE
             m0 == IF stale THEN MbCancelWom(mb) ELSE mb
             p0 == IF stale THEN PlanAfterCancel ELSE plan
             w0 == IF stale THEN WireAfterCancel ELSE wire
             m1 == MbSubmit(m0, WomOf(force))
             fresh == [NoPlan EXCEPT !.planned = TRUE, !.force = force,
                                     !.deadline = d, !.normal = normal]
             p1 == [IF p0.planned THEN p0 ELSE fresh EXCEPT !.lastElig = now]
             p2 == [p1 EXCEPT !.announced = TRUE, !.commitAt = Later(d, now + ADVANCE)]
             Told(p, w) ==
               /\ p.announced =>
                    p.planned /\ w.kind = "WILL_WOM" /\ p.commitAt >= w.at + ADVANCE
               /\ faults = MaxFaults /\ w.kind = "WILL_WOM" =>
                    p.announced \/ pc \in {"womCfg", "womSetup"}
  <1>1. d \in Int /\ now \in Int /\ ADVANCE \in Int /\ plan \in Plans /\ wire \in Wires
    BY ConstantsAssumption DEF TypeOK
  <1>2. p0 \in Plans /\ Told(p0, w0)
    BY <1>1, CancelType DEF NoticeInv, Backed, PlanAfterCancel, WireAfterCancel, NoPlan,
                            Notice
  <1>3. p1 \in Plans /\ p1.planned /\ Told(p1, w0)
    <2>1. fresh \in Plans /\ fresh.planned /\ ~fresh.announced
      BY <1>1, NoPlanType DEF Plans, NoPlan
    <2> HIDE DEF p0, w0, fresh
    <2>2. CASE p0.planned
      <3>1. p1 = [p0 EXCEPT !.lastElig = now]
        BY <2>2
      <3> HIDE DEF p1
      <3> QED
        BY <1>1, <1>2, <2>2, <3>1 DEF Plans
    <2>3. CASE ~p0.planned
      <3>1. p1 = [fresh EXCEPT !.lastElig = now]
        BY <2>3
      <3> HIDE DEF p1
      <3> QED
        BY <1>1, <1>2, <2>1, <2>3, <3>1 DEF Plans
    <2> QED
      BY <2>2, <2>3
  <1> HIDE DEF m0, p0, w0, m1, p1
  <1>4. Told(p2, Notice("WILL_WOM", now))
    <2>1. Later(d, now + ADVANCE) >= now + ADVANCE
      BY <1>1 DEF Later
    <2>2. p2.announced /\ p2.planned /\ p2.commitAt = Later(d, now + ADVANCE)
      BY <1>1, <1>3 DEF Plans
    <2> QED
      BY <2>1, <2>2 DEF Notice
  <1> HIDE DEF p2
  <1>5. \/ plan' = p0 /\ wire' = w0
        \/ plan' = NoPlan /\ wire' = Notice("WOM_CANCELLED", 0)
        \/ plan' = p2 /\ wire' = Notice("WILL_WOM", now)
        \/ plan' = p1 /\ wire' = w0
    BY DEF SensorPlanWom, m0, p0, w0, m1, p1, p2
  <1>6. Told(plan', wire')
    BY <1>2, <1>3, <1>4, <1>5 DEF NoPlan, Notice
  <1> QED
    BY <1>6 DEF SensorPlanWom, NoticeInv

\* The clients announce and withdraw what they plan.
LEMMA NoticeClient == TypeOK /\ PlanInv /\ NoticeInv /\ ClientStep => NoticeInv'
  <1> SUFFICES ASSUME TypeOK, Backed, NoticeInv, ClientStep PROVE NoticeInv'
    BY DEF PlanInv
  <1>1. ASSUME NEW force \in BOOLEAN, NEW normal \in BOOLEAN, NEW d \in Deadlines,
               SensorPlanWom(force, d, normal)
        PROVE  NoticeInv'
    BY <1>1, NoticeSensor
  <1>2. CASE SensorCancelWom \/ RequestSystemOff \/ RequestReboot
    BY <1>2, NoticeCancel
    DEF SensorCancelWom, CancelWom, RequestSystemOff, RequestReboot, RequestPower
  <1>3. CASE RequestWomNow
    <2>1. now \in Int /\ ADVANCE \in Int
      BY ConstantsAssumption DEF TypeOK
    <2> QED
      BY <1>3, <2>1 DEF RequestWomNow, NoticeInv, Notice
  <1>4. CASE SetTimeoutBegin \/ AbortRequest
    BY <1>4, NoticeSame DEF SetTimeoutBegin, AbortRequest, OtaLocal
  <1>5. ASSUME NEW changed \in BOOLEAN, SetTimeoutEnd(changed)
        PROVE  NoticeInv'
    BY <1>5, NoticeSame, NoticeCancel DEF SetTimeoutEnd, CancelWom
  <1> QED
    BY <1>1, <1>2, <1>3, <1>4, <1>5 DEF ClientStep

\* So does the OTA client, with every reservation and with the suspension.
LEMMA NoticeConn == PlanInv /\ NoticeInv /\ ConnStep => NoticeInv'
  <1> SUFFICES ASSUME Backed, NoticeInv, ConnStep PROVE NoticeInv'
    BY DEF PlanInv
  <1>1. CASE BeginReserve \/ ActivateReserve \/ AbortReserve \/ RecoverReserve
    <2>1. OtaReserve
      BY <1>1 DEF BeginReserve, ActivateReserve, AbortReserve, RecoverReserve
    <2> QED
      BY <2>1, NoticeCancel DEF OtaReserve
  <1>2. CASE BeginWithdraw
    BY <1>2, NoticeCancel DEF BeginWithdraw, CancelWom
  <1>3. CASE BeginRelease \/ ActivateFails \/ ActivateRelease \/ RecoverRelease
    BY <1>3, NoticeSame
    DEF BeginRelease, ActivateFails, ActivateRelease, RecoverRelease, OtaResolve
  <1>4. CASE \/ BeginPublish \/ BeginSuspend \/ BeginReady \/ BeginFails
             \/ ActivatePrepared \/ AbortDropped \/ AbortPublish \/ AbortClear
             \/ RecoverPublish \/ ActivateCopies
    BY <1>4, NoticeSame
    DEF BeginPublish, BeginSuspend, BeginReady, BeginFails, ActivatePrepared,
        AbortDropped, AbortPublish, AbortClear, RecoverPublish, ActivateCopies, OtaLocal
  <1>5. ASSUME NEW result \in {"VERIFIED", "ERROR"}, Verify(result)
        PROVE  NoticeInv'
    BY <1>5, NoticeSame DEF Verify, OtaLocal
  <1> QED
    BY <1>1, <1>2, <1>3, <1>4, <1>5 DEF ConnStep, BeginSteps, HandoffSteps

\* The power thread speaks of a reboot or a shutdown only where there is no plan
\* any more, and ends a plan only by going to sleep or by taking it back.
LEMMA NoticeOwner == TypeOK /\ OwnerInv /\ PlanInv /\ NoticeInv /\ OwnerStep => NoticeInv'
  <1> SUFFICES ASSUME TypeOK, OwnerInv, PlanInv, NoticeInv, OwnerStep PROVE NoticeInv'
    OBVIOUS
  <1>0. Backed /\ GateIsClear /\ faults \in Nat /\ MaxFaults \in Nat /\ faults <= MaxFaults
    BY ConstantsAssumption DEF PlanInv, TypeOK, NoticeInv
  <1>1. CASE Begin \/ WomEnter \/ Finish \/ Battery
    BY <1>1, NoticeSame DEF Begin, WomEnter, Finish, Battery, Goto
  <1>2. CASE WomStale \/ WomEarly \/ OffBlocked
    BY <1>2, NoticeSame DEF WomStale, WomEarly, OffBlocked, AtWomGate
  <1>3. CASE WomGiveUp \/ OffEnter
    BY <1>0, <1>3, NoticeCancel DEF WomGiveUp, OffEnter, CancelWom, AtWomGate
  <1>4. CASE WomCommit
    <2>1. CASE MbStartWomOk(mb, gen)
      BY <1>4, <2>1 DEF WomCommit, Goto, NoPlan, NoticeInv
    <2>2. CASE ~MbStartWomOk(mb, gen)
      BY <1>4, <2>2, NoticeSame DEF WomCommit, AtWomGate
    <2> QED
      BY <2>1, <2>2
  <1>5. CASE OffCommit
    <2>1. ~plan'.announced
      BY <1>0, <1>5 DEF OffCommit, GateIsClear, NoticeInv
    <2> QED
      BY <1>0, <1>5, <2>1, NoticeOther DEF OffCommit, Notice
  <1>6. CASE RebootGate
    <2>1. CASE MbStartPhysicalOk(MbCancelWom(mb), TRUE)
      <3>1. ~plan'.announced
        BY <1>0, <1>6 DEF RebootGate, PlanAfterCancel, NoPlan, Backed, NoticeInv
      <3> QED
        BY <1>0, <1>6, <2>1, <3>1, NoticeOther DEF RebootGate, Notice
    <2>2. CASE ~MbStartPhysicalOk(MbCancelWom(mb), TRUE)
      BY <1>0, <1>6, <2>2, NoticeCancel DEF RebootGate
    <2> QED
      BY <2>1, <2>2
  <1>7. CASE WomConfigured
    BY <1>0, <1>7, NoticeCancel DEF WomConfigured, Configured, CancelWom, Goto
  <1>8. CASE OffConfigured \/ RebootConfigured
    BY <1>0, <1>8, NoticeCancel DEF OffConfigured, RebootConfigured, Configured, CancelWom
  <1>9. ASSUME NEW at \in {"womCfg", "offCfg", "rebootCfg"}, ConfigureFails(at)
        PROVE  NoticeInv'
    <2>1. faults' < MaxFaults /\ pc = at
      BY <1>0, <1>9 DEF ConfigureFails
    <2>2. \/ UNCHANGED <<suspended, mb, plan, wire>>
          \/ CancelWom
      BY <1>9, Zenon DEF ConfigureFails
    <2>3. plan'.announced =>
            plan'.planned /\ wire'.kind = "WILL_WOM" /\ plan'.commitAt >= wire'.at + ADVANCE
      <3>1. CASE UNCHANGED <<suspended, mb, plan, wire>>
        BY <3>1 DEF NoticeInv
      <3>2. CASE CancelWom
        BY <1>0, <3>2, CancelClears DEF CancelWom, NoticeInv, Backed, PlanAfterCancel, NoPlan
      <3> QED
        BY <2>2, <3>1, <3>2
    <2>4. faults' <= MaxFaults /\ faults' # MaxFaults
      BY <1>0, <2>1, <1>9 DEF ConfigureFails
    <2> QED
      BY <2>3, <2>4 DEF NoticeInv
  <1>10. CASE WomSleep
    BY <1>10, NoticeSame DEF WomSleep
  <1>11. CASE WomSetupFails
    <2>1. ~plan.announced
      BY <1>0, <1>11 DEF WomSetupFails, OwnerInv, PhysicalIsExclusive, GoingDown, Backed,
                         NoticeInv
    <2> QED
      BY <1>0, <1>11, <2>1, NoticeOther DEF WomSetupFails, Notice
  <1> QED
    BY <1>1, <1>2, <1>3, <1>4, <1>5, <1>6, <1>7, <1>8, <1>9, <1>10, <1>11 DEF OwnerStep

\* The owner, the plan and the notice agree in every reachable state.
LEMMA NoticeInvariant == Spec => [](TypeOK /\ PlanInv /\ NoticeInv)
  <1>1. Init => NoticeInv
    BY ConstantsAssumption DEF Init, NoPlan, Notice, NoticeInv
  <1>2. TypeOK /\ OwnerInv /\ PlanInv /\ NoticeInv /\ [Next]_vars => NoticeInv'
    <2> SUFFICES ASSUME TypeOK, OwnerInv, PlanInv, NoticeInv, [Next]_vars PROVE NoticeInv'
      OBVIOUS
    <2>1. CASE WorldStep
      <3>1. CASE Boot
        BY <3>1 DEF Boot, NoPlan, Notice, NoticeInv
      <3>2. CASE Tick \/ \E flag \in Toggles : Toggle(flag)
        BY <3>2, NoticeSame DEF Tick, Toggle
      <3> QED
        BY <2>1, <3>1, <3>2 DEF WorldStep
    <2>2. CASE UNCHANGED vars
      BY <2>2, NoticeSame DEF vars
    <2> QED
      BY <2>1, <2>2, NoticeOwner, NoticeConn, NoticeClient DEF Next
  <1> QED
    BY <1>1, <1>2, PlanInvariant, TypeCorrect, OwnerInvariant, PTL DEF Spec

\* As long as no shutdown step has failed, a WILL_WOM that is the last notice
\* stands for a live plan or a sleep under way (power.c:383-398, README.md:121-124).
THEOREM AnnouncementHolds == Spec => []AnnouncementStands
  <1>1. NoticeInv => AnnouncementStands
    BY DEF NoticeInv, AnnouncementStands
  <1> QED
    BY <1>1, NoticeInvariant, PTL

\* A sleep passes its gate only with the lead time over since the WILL_WOM that
\* was the last notice (power.c:626-661, README.md:121-124).
THEOREM SleepAnnounced == Spec => SleepIsAnnounced
  <1>1. ASSUME TypeOK, NoticeInv, [Next]_vars, pc = "womGate", pc' = "womCfg"
        PROVE  wire.kind = "WILL_WOM" /\ now - wire.at >= ADVANCE
    <2>1. WomCommit
      <3>1. ASSUME UNCHANGED pc PROVE FALSE
        BY <1>1, <3>1
      <3>2. CASE ClientStep
        BY <3>1, <3>2, ClientKeeps
      <3>3. CASE ConnStep
        <4>1. UNCHANGED pc
          BY <3>3 DEF ConnStep, BeginSteps, HandoffSteps, BeginReserve, BeginPublish,
                      BeginRelease, BeginSuspend, BeginWithdraw, BeginReady, BeginFails,
                      Verify, ActivateReserve, ActivateFails, ActivatePrepared,
                      ActivateCopies, ActivateRelease, AbortDropped, AbortReserve,
                      AbortPublish, AbortClear, RecoverReserve, RecoverPublish,
                      RecoverRelease, OtaReserve, OtaResolve, OtaLocal
        <4> QED
          BY <3>1, <4>1
      <3>4. CASE WorldStep \/ UNCHANGED vars
        BY <1>1, <3>1, <3>4 DEF WorldStep, Tick, Boot, Toggle, vars
      <3>5. CASE OwnerStep
        <4>1. ~(Begin \/ WomEnter \/ OffEnter \/ OffBlocked \/ OffCommit \/ RebootGate)
          BY <1>1 DEF Begin, WomEnter, OffEnter, OffBlocked, OffCommit, RebootGate
        <4>2. ~(WomStale \/ WomGiveUp \/ WomEarly)
          BY <1>1 DEF WomStale, WomGiveUp, WomEarly, Return
        <4>3. ~(WomConfigured \/ OffConfigured \/ RebootConfigured)
          BY <1>1 DEF WomConfigured, OffConfigured, RebootConfigured, Configured
        <4>4. ~(\E at \in {"womCfg", "offCfg", "rebootCfg"} : ConfigureFails(at))
          BY <1>1 DEF ConfigureFails
        <4>5. ~(WomSleep \/ WomSetupFails \/ Finish \/ Battery)
          BY <1>1 DEF WomSleep, WomSetupFails, Finish, Battery
        <4> QED
          BY <3>5, <4>1, <4>2, <4>3, <4>4, <4>5 DEF OwnerStep
      <3> QED
        BY <1>1, <3>2, <3>3, <3>4, <3>5 DEF Next
    <2>2. /\ wire.at \in Int /\ now \in Int /\ ADVANCE \in Int /\ plan.commitAt \in Int
          /\ plan.announced /\ now >= plan.commitAt
      BY <1>1, <2>1, ConstantsAssumption DEF WomCommit, TypeOK, Wires, Plans
    <2> QED
      BY <1>1, <2>2 DEF NoticeInv
  <1>2. TypeOK /\ NoticeInv /\ [Next]_vars =>
          [pc = "womGate" /\ pc' = "womCfg" =>
             wire.kind = "WILL_WOM" /\ now - wire.at >= ADVANCE]_vars
    BY <1>1
  <1> QED
    BY <1>2, NoticeInvariant, PTL DEF Spec, SleepIsAnnounced

=============================================================================
