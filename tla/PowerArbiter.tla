---------------------------- MODULE PowerArbiter ----------------------------
(***************************************************************************)
(* What the power owner promises its clients, without mailbox, locks or    *)
(* clocks: the hardware has one holder.  It is free, reserved by an OTA    *)
(* update, or being shut down, until the tracker leaves the powered state  *)
(* as off, wake-on-motion sleep or reset.  Once an update has been         *)
(* prepared, the only way to leave is a reset.                             *)
(***************************************************************************)
VARIABLES holder,      \* who owns the hardware, or how the tracker left
          prepared     \* an OTA update owes the tracker a reboot

Powered == {"free", "ota", "shutdown"}
Gone == {"off", "wom", "reset"}

TypeOK == holder \in Powered \cup Gone /\ prepared \in BOOLEAN

Init == holder = "free" /\ prepared = FALSE

\* An update takes the hardware only while nothing holds it or is owed.
Reserve == holder = "free" /\ ~prepared /\ holder' = "ota" /\ prepared' = FALSE

\* The update gives the hardware back, owing a reboot or not.
Resolve == holder = "ota" /\ holder' = "free" /\ prepared' \in BOOLEAN

\* The update copies the image itself and resets the chip.
HandOff == holder = "ota" /\ holder' = "reset" /\ UNCHANGED prepared

Commit == holder = "free" /\ holder' = "shutdown" /\ UNCHANGED prepared

\* A shutdown step failed: the tracker is awake again and still owes what it owed.
Fail == holder = "shutdown" /\ holder' = "free" /\ UNCHANGED prepared

Leave == /\ holder = "shutdown"
         /\ holder' \in Gone
         /\ prepared => holder' = "reset"
         /\ UNCHANGED prepared

Boot == holder \in Gone /\ holder' = "free" /\ prepared' = FALSE

Next == Reserve \/ Resolve \/ HandOff \/ Commit \/ Fail \/ Leave \/ Boot

Spec == Init /\ [][Next]_<<holder, prepared>>

=============================================================================
