------------------------------- MODULE EsbOta -------------------------------
(***************************************************************************)
(* The tracker's side of an over-the-air update, src/system/esb_ota.c and  *)
(* the page writer of src/system/esb_ota_flash.c, in the builds that stage *)
(* the image in upper flash (legacy) or in the MCUboot secondary slot.     *)
(*                                                                         *)
(* The receiver and the radio are the most general ones: any OTA packet of *)
(* any image may arrive at any time, so loss, duplication, reordering, an  *)
(* overflowing receive queue and packets left over from another update are *)
(* all behaviours of the model.  Image data is counted in units; unit k of *)
(* image i is <<i, k>>.  A handler runs to completion on the connection    *)
(* thread and is one step; its suspension of the sensors and its part in   *)
(* power arbitration are the subject of PowerOwner.                        *)
(***************************************************************************)
EXTENDS Integers, Sequences

CONSTANTS
  Images,         \* the images a receiver may send
  SizeOf,         \* units in an image
  McubootImages,  \* the images that start with an MCUboot header
  Builds,         \* which builds run: TRUE stages in an MCUboot slot
  PAGE,           \* units in a flash page
  PAYLOAD,        \* units in a DATA packet; the last packet of an image is padded
  FlashBase,      \* OTA_FLASH_BASE: the first page of the running firmware
  FlashUsed,      \* _flash_used: the SIZE of the running firmware, in pages begun
  SlotBase,       \* first page of the MCUboot secondary slot
  SlotCapacity,   \* units of that slot before the trailer
  FlashEnd,       \* OTA_FLASH_END, and the end of the slot: the first page above staging
  TIMEOUT,        \* OTA_TIMEOUT_MS
  MaxFaults       \* bound on flash operations that fail

ASSUME ImagesAssumption ==
  /\ SizeOf \in [Images -> Nat] /\ McubootImages \subseteq Images
  /\ Builds \subseteq BOOLEAN /\ Builds # {}
ASSUME FlashAssumption ==
  /\ PAYLOAD \in Nat \ {0} /\ PAGE \in Nat /\ PAYLOAD <= PAGE
  /\ FlashBase \in Nat \ {0} /\ FlashUsed \in Nat /\ FlashEnd \in Nat
  /\ SlotBase \in Nat \ {0} /\ SlotBase <= FlashEnd
  /\ TIMEOUT \in Nat /\ MaxFaults \in Nat
\* The slot of an MCUboot build is a partition above the one that runs.
ASSUME SlotAssumption ==
  /\ SlotCapacity \in Nat /\ SlotCapacity <= (FlashEnd - SlotBase) * PAGE
  /\ TRUE \in Builds => FlashBase + FlashUsed <= SlotBase

VARIABLES
  build,     \* OTA_USE_MCUBOOT
  ota,       \* struct ota_context
  flash,     \* contents of the pages up to the one above the staging space
  abortReq,  \* ota_abort_requested
  pending,   \* ota_reboot_pending
  physical,  \* the power owner is past its gate with a reboot or a shutdown
  faults     \* flash operations that may still fail

vars == <<build, ota, flash, abortReq, pending, physical, faults>>

Blank == <<>>                   \* an erased page
Foreign == << <<"foreign", 0>> >> \* whatever was there before
Garbage == << <<"garbage", 0>> >> \* a page programmed without an erase

States == {"IDLE", "READY", "RECEIVING", "VERIFYING", "COMPLETE", "ERROR"}
Errors == {"NONE", "VERIFY_OK", "VERIFY_FAIL", "REJECTED", "FLASH_ERROR", "TIMEOUT"}
Units == (Images \cup {"foreign", "garbage"}) \X Nat

NoSession == [state |-> "IDLE", session |-> FALSE, image |-> "NONE", next |-> 0,
              written |-> 0, buf |-> <<>>, base |-> 0, page |-> 0, erased |-> 0,
              idle |-> 0, error |-> "NONE"]

Contexts ==
  [state : States, session : BOOLEAN, image : Images \cup {"NONE"}, next : Nat,
   written : Nat, buf : Seq(Units), base : Nat, page : Nat, erased : Nat,
   idle : 0 .. TIMEOUT + 1, error : Errors]

\* Every field of the session keeps its type, and no page but those modelled
\* is written.
TypeOK ==
  /\ build \in Builds
  /\ ota \in Contexts
  /\ flash \in [0 .. FlashEnd -> Seq(Units)]
  /\ abortReq \in BOOLEAN /\ pending \in BOOLEAN /\ physical \in BOOLEAN
  /\ faults \in Nat

Init ==
  /\ build \in Builds
  /\ ota = NoSession
  /\ flash = [p \in 0 .. FlashEnd |-> Foreign]
  /\ abortReq = FALSE /\ pending = FALSE /\ physical = FALSE
  /\ faults = MaxFaults

-----------------------------------------------------------------------------
(* Geometry *)

PagesOf(i) == (SizeOf[i] + PAGE - 1) \div PAGE
StagingBase(i) == IF build THEN SlotBase ELSE FlashEnd - PagesOf(i)

\* running_end in ota_begin_impl: the linker's size of the firmware, taken for
\* its end, and no lower than its base.
RunningEnd == IF FlashUsed < FlashBase THEN FlashBase ELSE FlashUsed
Fits(i) ==
  /\ SizeOf[i] > 0
  /\ IF build THEN SizeOf[i] <= SlotCapacity ELSE StagingBase(i) >= RunningEnd

\* Where the running firmware really lies.
Firmware == FlashBase .. FlashBase + FlashUsed - 1

\* DATA packet seq of image i
Payload(i, seq) == [k \in 1 .. PAYLOAD |-> <<i, seq * PAYLOAD + k>>]
HasHeader(i, seq) == seq = 0 /\ i \in McubootImages
PacketsOf(i) == 0 .. ((SizeOf[i] + PAYLOAD - 1) \div PAYLOAD) - 1
Lesser(a, b) == IF a <= b THEN a ELSE b

-----------------------------------------------------------------------------
(* The page writer, esb_ota_flash.c, working on w = [flash, buf, page, erased] *)

Program(f, p, b) == [f EXCEPT ![p] = IF f[p] = Blank THEN b ELSE Garbage]
Erased(w, p) == [w EXCEPT !.flash[p] = Blank, !.erased = p]

\* Mutant: the page after the staging area is erased too.
NextPageWantedLate(w) == ~build /\ (w.page - ota.base) * PAGE <= SizeOf[ota.image]

\* The page that follows is erased in advance while it belongs to the image.
NextPageWanted(w) == ~build /\ (w.page - ota.base) * PAGE < SizeOf[ota.image]

\* Mutant: a flush relies on the page having been erased in advance.
FlushSkipsErase(w, nextFails) ==
  LET programmed == [w EXCEPT !.flash = Program(w.flash, w.page, w.buf),
                              !.page = w.page + 1, !.buf = <<>>]
  IN  IF NextPageWanted(programmed) /\ ~nextFails
      THEN Erased(programmed, programmed.page) ELSE programmed

\* esb_ota_flash_flush_page_buf when no operation fails. A failing pre-erase
\* of the next page is tolerated: the flush of that page erases it.
Flush(w, nextFails) ==
  LET ready == IF ~build /\ w.page > w.erased THEN Erased(w, w.page) ELSE w
      programmed == [ready EXCEPT !.flash = Program(ready.flash, w.page, w.buf),
                                  !.page = w.page + 1, !.buf = <<>>]
  IN  IF NextPageWanted(programmed) /\ ~nextFails
      THEN Erased(programmed, programmed.page) ELSE programmed

\* A flush that fails: the page is left as it was, or damaged.
FailedFlush(w, damaged) ==
  IF damaged THEN [w EXCEPT !.flash[w.page] = Garbage] ELSE w

\* The data of one packet appended to the page buffer. PAYLOAD <= PAGE, so it
\* fills at most one page; the last packet flushes what is left.
Filled(w, data) ==
  LET room == Lesser(PAGE - Len(w.buf), Len(data))
  IN  [w EXCEPT !.buf = w.buf \o SubSeq(data, 1, room)]
Remainder(w, data) == SubSeq(data, Len(Filled(w, data).buf) - Len(w.buf) + 1, Len(data))

Appended(w, data, nextFails) ==
  LET full == Filled(w, data)
  IN  IF Len(full.buf) < PAGE THEN full
      ELSE [Flush(full, nextFails) EXCEPT !.buf = Remainder(w, data)]

Writer == [flash |-> flash, buf |-> ota.buf, page |-> ota.page, erased |-> ota.erased]

-----------------------------------------------------------------------------
(* The packet handlers, called by esb_ota_process_rx_packet: a pending abort *)
(* is served first, and nothing is handled once a reboot is owed.            *)

PacketHandled == ~abortReq /\ ~pending

Becomes(c) == ota' = c /\ UNCHANGED <<build, abortReq, pending, physical>>
InState(c, state, error) == [c EXCEPT !.state = state, !.error = error]

\* esb_ota_is_active
Active == pending \/ ota.session

\* Mutant: BEGIN does not ask where the image would lie.
BeginAnywhere(i) == ~Active /\ ~physical

\* ota_begin_impl admits a session: none is active, the image fits, and the power owner grants the reservation.
BeginAdmitted(i) == ~Active /\ Fits(i) /\ ~physical

\* esb_ota_flash_prepare_mcuboot_slot: the whole slot is erased.
SlotErased ==
  [p \in DOMAIN flash |-> IF p \in SlotBase .. FlashEnd - 1 THEN Blank ELSE flash[p]]

HandleBegin(i) ==
  /\ PacketHandled /\ BeginAdmitted(i)
  /\ Becomes([NoSession EXCEPT !.state = "READY", !.session = TRUE, !.image = i,
                               !.base = StagingBase(i), !.page = StagingBase(i)])
  /\ flash' = IF build THEN SlotErased ELSE flash
  /\ UNCHANGED faults

\* The packet does not suit this tracker or this build, or does not fit.
RefuseBegin(i) ==
  /\ PacketHandled /\ ~Active
  /\ Becomes(InState(ota, "ERROR", "REJECTED"))
  /\ UNCHANGED <<flash, faults>>

\* Admitted, but the sensors cannot be shut down, or the slot cannot be erased
\* as a whole. A failed session never uses the page writer.
FailBegin(i) ==
  /\ PacketHandled /\ BeginAdmitted(i) /\ faults > 0
  /\ Becomes([NoSession EXCEPT !.state = "ERROR", !.session = TRUE, !.image = i,
                               !.error = "FLASH_ERROR"])
  /\ faults' = faults - 1
  /\ flash' \in {flash, IF build THEN SlotErased ELSE flash}

Receiving == ota.session /\ ota.state \in {"READY", "RECEIVING"}

\* The first data of an image has the header this build cannot boot, or lacks
\* the one it needs. The check looks at whatever packet comes first.
WrongHeader(i, seq) == ota.written = 0 /\ (HasHeader(i, seq) # build)

RefuseData(i, seq) ==
  /\ PacketHandled /\ Receiving /\ WrongHeader(i, seq)
  /\ Becomes(InState(ota, "ERROR", "VERIFY_FAIL"))
  /\ UNCHANGED <<flash, faults>>

\* Any other sequence number is a duplicate, ignored, or a gap, answered with
\* a status packet: neither changes the session.
Expected(seq) == seq = ota.next

DataAccepted(i, seq) ==
  PacketHandled /\ Receiving /\ ~WrongHeader(i, seq) /\ Expected(seq)

\* The part of the packet that belongs to the image, and the session with it.
Data(i, seq) ==
  SubSeq(Payload(i, seq), 1, Lesser(PAYLOAD, SizeOf[ota.image] - ota.written))
Complete(data) == ota.written + Len(data) = SizeOf[ota.image]
Taking == [ota EXCEPT !.state = "RECEIVING", !.idle = 0]
With(c, w) == [c EXCEPT !.buf = w.buf, !.page = w.page, !.erased = w.erased]
Taken(c, seq, data) ==
  [c EXCEPT !.written = ota.written + Len(data), !.next = seq + 1]

HandleData(i, seq, nextFails) ==
  LET data == Data(i, seq)
      appended == Appended(Writer, data, nextFails)
      w == IF Complete(data) /\ appended.buf # <<>> THEN Flush(appended, nextFails)
                                                   ELSE appended
  IN  /\ DataAccepted(i, seq)
      /\ nextFails => faults > 0 /\ w.page > ota.page
      /\ faults' = IF nextFails THEN faults - 1 ELSE faults
      /\ flash' = w.flash
      /\ Becomes(Taken(With(Taking, w), seq, data))

\* A page that has filled up cannot be erased or written.
FailFullPage(i, seq, damaged) ==
  LET full == Filled(Writer, Data(i, seq))
      w == FailedFlush(full, damaged)
  IN  /\ DataAccepted(i, seq) /\ Len(full.buf) = PAGE
      /\ faults > 0 /\ faults' = faults - 1
      /\ flash' = w.flash
      /\ Becomes(With(InState(Taking, "ERROR", "FLASH_ERROR"), w))

\* The page with the end of the image cannot be erased or written.
FailLastPage(i, seq, damaged) ==
  LET data == Data(i, seq)
      appended == Appended(Writer, data, FALSE)
      w == FailedFlush(appended, damaged)
  IN  /\ DataAccepted(i, seq) /\ Complete(data) /\ appended.buf # <<>>
      /\ faults > 0 /\ faults' = faults - 1
      /\ flash' = w.flash
      /\ Becomes(Taken(With(InState(Taking, "ERROR", "FLASH_ERROR"), w), seq, data))

\* The staged image has the CRC the session was begun with: no two images of
\* one size share a CRC here.
PageOf(k) == (k - 1) \div PAGE
OffsetOf(k) == ((k - 1) % PAGE) + 1
CrcMatches ==
  \A k \in 1 .. SizeOf[ota.image] :
    LET page == flash[ota.base + PageOf(k)]
    IN  OffsetOf(k) <= Len(page) /\ page[OffsetOf(k)] = <<ota.image, k>>

Verifiable ==
  /\ ota.state \in {"READY", "RECEIVING", "VERIFYING"} /\ ota.session
  /\ ota.written = SizeOf[ota.image]

\* Mutant: VERIFY takes the word of the byte count.
VerifyByCount ==
  /\ PacketHandled /\ Verifiable
  /\ Becomes([InState(ota, "VERIFYING", "VERIFY_OK") EXCEPT !.idle = 0])
  /\ UNCHANGED <<flash, faults>>

HandleVerify ==
  /\ PacketHandled /\ Verifiable
  /\ Becomes(IF CrcMatches
             THEN [InState(ota, "VERIFYING", "VERIFY_OK") EXCEPT !.idle = 0]
             ELSE InState(ota, "ERROR", "VERIFY_FAIL"))
  /\ UNCHANGED <<flash, faults>>

FailVerify ==
  /\ PacketHandled /\ Verifiable
  /\ faults > 0 /\ faults' = faults - 1
  /\ Becomes(InState(ota, "ERROR", "FLASH_ERROR"))
  /\ UNCHANGED flash

\* VERIFY came too early: the session goes on, marked for the receiver.
RefuseVerify ==
  /\ PacketHandled /\ ~Verifiable
  /\ ota.state \notin {"IDLE", "ERROR"}
  /\ Becomes([ota EXCEPT !.error = "VERIFY_FAIL"])
  /\ UNCHANGED <<flash, faults>>

\* ota_activate_impl: only a verified image, and not over a physical shutdown.
Activatable ==
  /\ PacketHandled /\ ~physical
  /\ ota.state = "VERIFYING" /\ ota.error = "VERIFY_OK"

HandleActivate ==
  /\ Activatable
  /\ pending' = TRUE
  /\ ota' = [ota EXCEPT !.state = "COMPLETE"]
  /\ UNCHANGED <<build, flash, abortReq, physical, faults>>

FailActivate ==
  /\ Activatable
  /\ faults > 0 /\ faults' = faults - 1
  /\ Becomes(InState(ota, "ERROR", "FLASH_ERROR"))
  /\ UNCHANGED flash

-----------------------------------------------------------------------------
(* Abort, recovery and the world around the session *)

\* esb_ota_request_abort
RequestAbort ==
  /\ ota.session /\ ~pending
  /\ abortReq' = TRUE
  /\ UNCHANGED <<build, ota, flash, pending, physical, faults>>

\* esb_ota_service takes an abort; it yields to a committed shutdown and to a
\* reboot that is already owed.
ServeAbort ==
  /\ abortReq /\ abortReq' = FALSE
  /\ IF pending \/ ~ota.session \/ physical
     THEN UNCHANGED <<ota, pending>>
     ELSE pending' = TRUE /\ ota' = NoSession
  /\ UNCHANGED <<build, flash, physical, faults>>

\* esb_ota_service recovers a failed or silent session by a reboot.
Recover ==
  /\ ~abortReq /\ ~pending /\ ota.session /\ ~physical
  /\ ota.state = "ERROR" \/ ota.idle > TIMEOUT
  /\ pending' = TRUE
  /\ ota' = IF ota.state = "ERROR" THEN ota ELSE InState(ota, "ERROR", "TIMEOUT")
  /\ UNCHANGED <<build, flash, abortReq, physical, faults>>

Tick ==
  /\ ota.session /\ ota.idle <= TIMEOUT
  /\ Becomes([ota EXCEPT !.idle = ota.idle + 1])
  /\ UNCHANGED <<flash, faults>>

\* The power owner: a reboot or a shutdown becomes physical, fails, or ends.
\* OFF and sleep are refused while an update is active, a reboot is not.
Commit ==
  /\ ~physical /\ physical' = TRUE
  /\ UNCHANGED <<build, ota, flash, abortReq, pending, faults>>

Fail ==
  /\ physical /\ physical' = FALSE
  /\ UNCHANGED <<build, ota, flash, abortReq, pending, faults>>

\* RAM is lost, flash is not.
Reset ==
  /\ physical \/ pending
  /\ ota' = NoSession /\ abortReq' = FALSE /\ pending' = FALSE /\ physical' = FALSE
  /\ UNCHANGED <<build, flash, faults>>

BeginStep == \E i \in Images : HandleBegin(i) \/ RefuseBegin(i) \/ FailBegin(i)
DataStep ==
  \E i \in Images : \E seq \in PacketsOf(i) :
    \/ RefuseData(i, seq)
    \/ \E fails \in BOOLEAN : \/ HandleData(i, seq, fails)
                              \/ FailFullPage(i, seq, fails)
                              \/ FailLastPage(i, seq, fails)
VerifyStep == HandleVerify \/ FailVerify \/ RefuseVerify
ActivateStep == HandleActivate \/ FailActivate
WorldStep == RequestAbort \/ ServeAbort \/ Recover \/ Tick \/ Commit \/ Fail \/ Reset

Next == BeginStep \/ DataStep \/ VerifyStep \/ ActivateStep \/ WorldStep

Spec == Init /\ [][Next]_vars
-----------------------------------------------------------------------------
(* Properties *)

InProgress == ota.state \in {"READY", "RECEIVING", "VERIFYING", "COMPLETE"}

\* Every unit received is staged once, at its own place, whatever the radio
\* loses, repeats or reorders and whichever flash operation failed on the way:
\* the pages written and the page buffer are one gapless sequence as long as
\* bytes_written (esb_ota.c:588-639, esb_ota_flash.c:73-124).
StagedInPlace ==
  InProgress =>
    /\ \A p \in ota.base .. ota.page - 1 :
         /\ Len(flash[p]) = Lesser(PAGE, SizeOf[ota.image] - (p - ota.base) * PAGE)
         /\ \A k \in 1 .. Len(flash[p]) : flash[p][k][2] = (p - ota.base) * PAGE + k
    /\ \A k \in 1 .. Len(ota.buf) : ota.buf[k][2] = (ota.page - ota.base) * PAGE + k
    /\ IF ota.written = SizeOf[ota.image]
       THEN ota.buf = <<>> /\ ota.page = ota.base + PagesOf(ota.image)
       ELSE ota.written = (ota.page - ota.base) * PAGE + Len(ota.buf)

\* What ACTIVATE hands to the boot path is the complete image the session was
\* begun with (esb_ota.c:652-720).
ActivatedIsWhole == ota.state = "COMPLETE" => ota.session /\ CrcMatches

\* Whatever the radio and the flash do, a step of the update changes no page
\* but those the image of its session is staged in: not one below, nor the
\* settings storage above, which the advance erase of the next page could reach
\* (esb_ota.c:390-392, esb_ota_flash.c:113-121).
StagedPages(i) == StagingBase(i) .. FlashEnd - 1
StagingOnly ==
  [][\A p \in DOMAIN flash :
       flash'[p] # flash[p] => ota'.image \in Images /\ p \in StagedPages(ota'.image)]_vars

\* What esb_ota.c:510 says of an update: "data goes to staging area, not running
\* firmware".
FirmwareUntouched == \A p \in Firmware \cap DOMAIN flash : flash[p] = Foreign

\* The geometry check of BEGIN is all that stands between an update and the
\* firmware that receives it. No order of packets, sessions, faults and resets
\* gets past it: an MCUboot build never loses a page of that firmware, a legacy
\* build none below the size taken for its end (esb_ota.c:302-328, 388-405).
FirmwareSpared ==
  \A p \in Firmware \cap DOMAIN flash : flash[p] # Foreign => ~build /\ p >= RunningEnd

=============================================================================
