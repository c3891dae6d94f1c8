---------------------------- MODULE PowerMailbox ----------------------------
(***************************************************************************)
(* The request mailbox of the power owner, src/system/power_request.h.     *)
(* Every C helper takes the mailbox spinlock, so each is one operator from *)
(* a mailbox to a mailbox; what a helper returns is an operator of its     *)
(* own, evaluated in the mailbox before the call.                          *)
(***************************************************************************)
EXTENDS Naturals

CONSTANT GenMod      \* number of generations before the counter wraps (2^32)

ASSUME GenModAssumption == GenMod \in Nat \ {0}

WomRequests == {"WOM", "WOM_FORCE"}
PowerRequests == {"NONE", "SYSTEM_OFF", "REBOOT"} \cup WomRequests
RequestStates == {"EMPTY", "QUEUED", "EXECUTING", "RETRY"}
OtaReboots == {"NONE", "RESERVED", "READY"}

Mailbox == [request : PowerRequests, state : RequestStates,
            ota : OtaReboots, gen : 0 .. GenMod - 1, phys : BOOLEAN]

EmptyMailbox == [request |-> "NONE", state |-> "EMPTY", ota |-> "NONE",
                 gen |-> 0, phys |-> FALSE]

\* A slot in use names its request.
MbFilled(m) == m.state # "EMPTY" => m.request # "NONE"

NextGen(g) == (g + 1) % GenMod

-----------------------------------------------------------------------------
(* Producers *)

\* The slot is free for an ordinary request: this call would write it.
MbVacant(m) == ~m.phys /\ m.ota = "NONE" /\ m.state = "EMPTY"

\* power_request_submit returned 0. A duplicate, and a reboot asked for while
\* the OTA reboot is already owed, are accepted without touching the slot.
MbSubmitOk(m, r) ==
  /\ ~m.phys
  /\ \/ m.ota = "READY" /\ r = "REBOOT"
     \/ m.ota = "NONE" /\ (m.state = "EMPTY" \/ m.request = r)

MbSubmit(m, r) ==
  IF MbVacant(m)
  THEN [m EXCEPT !.request = r, !.gen = NextGen(m.gen), !.state = "QUEUED"]
  ELSE m

\* Mutant: any request is removed.
MbCancelAny(m) ==
  IF ~m.phys THEN [m EXCEPT !.request = "NONE", !.state = "EMPTY"] ELSE m

\* power_request_cancel_wom returns ~m.phys; only a reversible WOM is removed.
MbCancelWom(m) ==
  IF ~m.phys /\ m.request \in WomRequests
  THEN [m EXCEPT !.request = "NONE", !.gen = NextGen(m.gen), !.state = "EMPTY"]
  ELSE m

\* Mutant: a committed shutdown does not stop a reservation.
MbOtaReserveAnyTime(m) == m.ota = "NONE"

MbOtaReserveOk(m) == ~m.phys /\ m.ota = "NONE"

MbOtaReserve(m) == IF MbOtaReserveOk(m) THEN [m EXCEPT !.ota = "RESERVED"] ELSE m

\* Mutant: every resolve releases, owing nothing.
MbOtaResolveForgets(m, prepared) ==
  IF m.ota = "RESERVED" THEN [m EXCEPT !.ota = "NONE"] ELSE m

MbOtaResolve(m, prepared) ==
  IF m.ota = "RESERVED"
  THEN [m EXCEPT !.ota = IF prepared THEN "READY" ELSE "NONE"]
  ELSE m

-----------------------------------------------------------------------------
(* The power owner *)

\* The first half of power_request_begin: an owed OTA reboot takes the slot.
MbSupersede(m) ==
  IF m.state # "EXECUTING" /\ m.ota = "READY"
  THEN [m EXCEPT !.request = "REBOOT", !.gen = NextGen(m.gen), !.state = "QUEUED"]
  ELSE m

MbClaimable(m) == m.ota # "RESERVED" /\ m.state \in {"QUEUED", "RETRY"}

MbBegin(m) ==
  LET s == MbSupersede(m)
  IN  IF MbClaimable(s) THEN [s EXCEPT !.state = "EXECUTING"] ELSE s

\* The request power_request_begin hands to the owner.
MbClaimed(m) ==
  LET s == MbSupersede(m) IN IF MbClaimable(s) THEN s.request ELSE "NONE"

\* Mutant: a reboot that has to be retried no longer counts as owed to OTA.
MbFinishForgetsOta(m, r, g, consumed) ==
  IF m.state = "EXECUTING" /\ m.request = r /\ m.gen = g
  THEN [m EXCEPT !.phys = FALSE,
                 !.request = IF consumed THEN "NONE" ELSE r,
                 !.state = IF consumed THEN "EMPTY" ELSE "RETRY",
                 !.ota = IF r = "REBOOT" THEN "NONE" ELSE m.ota]
  ELSE m

MbFinish(m, r, g, consumed) ==
  IF m.state = "EXECUTING" /\ m.request = r /\ m.gen = g
  THEN IF consumed
       THEN [m EXCEPT !.phys = FALSE, !.request = "NONE", !.state = "EMPTY",
                      !.ota = IF r = "REBOOT" THEN "NONE" ELSE m.ota]
       ELSE [m EXCEPT !.phys = FALSE, !.state = "RETRY"]
  ELSE m

MbWomClaimCurrent(m, g) ==
  /\ m.state = "EXECUTING" /\ m.gen = g
  /\ ~m.phys /\ m.request \in WomRequests

MbStartWomOk(m, g) == MbWomClaimCurrent(m, g) /\ m.ota = "NONE"

\* Mutant: a reservation in progress does not hold a shutdown back.
MbStartPhysicalUnguarded(m, reboot) == m.ota # "READY" \/ reboot

MbStartPhysicalOk(m, reboot) ==
  m.ota = "NONE" \/ (m.ota = "READY" /\ reboot)

MbStart(m) == [m EXCEPT !.phys = TRUE]

=============================================================================
