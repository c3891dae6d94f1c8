----------------------------- MODULE OtaCopier -----------------------------
(***************************************************************************)
(* The last step of a legacy update, src/system/esb_ota_flash.c: with      *)
(* interrupts off, code in RAM copies the staged image over the            *)
(* application page by page, writes the bootloader settings and resets.    *)
(*                                                                         *)
(* BEGIN places the staging area at the end of the application region and  *)
(* only requires it to lie above the running firmware, so an image larger  *)
(* than half the region is copied over its own staging area.  Power may be *)
(* lost at any step; what flash holds then is what the bootloader finds.   *)
(***************************************************************************)
EXTENDS Integers

CONSTANTS
  Content,     \* what a page of an image may hold
  AppBase,     \* OTA_FLASH_BASE, the page the running firmware starts at
  FlashEnd,    \* OTA_FLASH_END
  MaxFaults    \* bound on settings words that do not hold what was written

ASSUME GeometryAssumption ==
  /\ AppBase \in Nat \ {0} /\ FlashEnd \in Nat /\ AppBase < FlashEnd
  /\ MaxFaults \in Nat

VARIABLES
  pages,      \* pages of the image
  target,     \* target_flash_base: the image's first page
  image,      \* the image that was staged and verified
  flash,      \* contents of the pages
  settings,   \* the bootloader settings page
  pc,         \* where the copier is
  page,       \* pages already copied
  faults      \* settings words that may still fail

vars == <<pages, target, image, flash, settings, pc, page, faults>>

Blank == "blank"     \* an erased page
Torn == "torn"       \* a page partly written
PageStates == Content \cup {Blank, Torn}

\* The settings page: its first word marks bank 0 valid and carries the CRC of
\* the application; the others give its size. A page with an old CRC or none
\* belongs to the firmware that is being replaced.
Words == {"old", "blank", "new", "bad"}
Settings == [first : Words, rest : Words]

Pcs == {"page", "write", "rest", "first", "check", "reset",
        "recover", "off"}

\* esb_ota.c:392-405 places the staging area.
Staging == FlashEnd - pages

\* Flash keeps its extent: no page outside 0 .. FlashEnd - 1 is written.
TypeOK ==
  /\ pages \in Nat /\ target \in Nat /\ image \in [0 .. pages - 1 -> Content]
  /\ flash \in [0 .. FlashEnd - 1 -> PageStates]
  /\ settings \in Settings
  /\ pc \in Pcs /\ page \in 0 .. pages
  /\ faults \in 0 .. MaxFaults

\* BEGIN accepted the image and its base, VERIFY found it staged, and the
\* settings for it are prepared (esb_ota_flash_prepare_bootloader_settings).
Init ==
  /\ pages \in 1 .. FlashEnd - AppBase
  /\ target \in 1 .. AppBase
  /\ image \in [0 .. pages - 1 -> Content]
  /\ flash \in {f \in [0 .. FlashEnd - 1 -> Content] :
                  \A j \in 0 .. pages - 1 : f[Staging + j] = image[j]}
  /\ settings = [first |-> "old", rest |-> "old"]
  /\ pc = "page" /\ page = 0
  /\ faults = MaxFaults

-----------------------------------------------------------------------------
(* ota_flash_copy_from_ram *)

Current == page
Src == Staging + Current
Dst == target + Current

CopySettled == UNCHANGED <<pages, target, image, settings, faults>>

\* A page that is already in place is not written again.
SkipPage ==
  /\ pc = "page" /\ page < pages
  /\ flash[Dst] = flash[Src]
  /\ page' = page + 1
  /\ CopySettled /\ UNCHANGED <<flash, pc>>

\* Mutant: a page is erased whether or not it is already in place.
EraseAnyPage ==
  /\ pc = "page" /\ page < pages
  /\ flash' = [flash EXCEPT ![Dst] = Blank]
  /\ pc' = "write"
  /\ CopySettled /\ UNCHANGED page

ErasePage ==
  /\ pc = "page" /\ page < pages
  /\ flash[Dst] # flash[Src]
  /\ flash' = [flash EXCEPT ![Dst] = Blank]
  /\ pc' = "write"
  /\ CopySettled /\ UNCHANGED page

\* The words of a page are written one after the other.
WriteWords ==
  /\ pc = "write" /\ flash[Dst] = Blank
  /\ flash' = [flash EXCEPT ![Dst] = Torn]
  /\ CopySettled /\ UNCHANGED <<pc, page>>

WritePage ==
  /\ pc = "write" /\ flash[Dst] = Torn
  /\ flash' = [flash EXCEPT ![Dst] = flash[Src]]
  /\ pc' = "page" /\ page' = page + 1
  /\ CopySettled

\* Mutant: the word that marks the bank valid is written first.
EraseSettingsThenFirst ==
  /\ pc = "page" /\ page = pages
  /\ settings' = [first |-> "blank", rest |-> "blank"]
  /\ pc' = "first"
  /\ UNCHANGED <<pages, target, image, flash, page, faults>>

EraseSettings ==
  /\ pc = "page" /\ page = pages
  /\ settings' = [first |-> "blank", rest |-> "blank"]
  /\ pc' = "rest"
  /\ UNCHANGED <<pages, target, image, flash, page, faults>>

WriteSetting(field, next) ==
  /\ pc = field /\ pc' = next
  /\ \/ settings' = [settings EXCEPT ![field] = "new"] /\ UNCHANGED faults
     \/ /\ faults > 0 /\ faults' = faults - 1
        /\ settings' = [settings EXCEPT ![field] = "bad"]
  /\ UNCHANGED <<pages, target, image, flash, page>>

\* The first word, which makes the bank valid, is written last.
WriteRest == WriteSetting("rest", "first")
WriteFirst == WriteSetting("first", "check")

\* Settings that do not read back ask for the UF2 recovery.
CheckSettings ==
  /\ pc = "check"
  /\ pc' = IF settings = [first |-> "new", rest |-> "new"] THEN "reset" ELSE "recover"
  /\ UNCHANGED <<pages, target, image, flash, settings, page, faults>>

PowerLoss ==
  /\ pc \notin {"reset", "recover", "off"}
  /\ pc' = "off"
  /\ UNCHANGED <<pages, target, image, flash, settings, page, faults>>

CopyPage == SkipPage \/ ErasePage \/ WriteWords \/ WritePage
CopySettings == EraseSettings \/ WriteRest \/ WriteFirst \/ CheckSettings

Next == CopyPage \/ CopySettings \/ PowerLoss

Spec == Init /\ [][Next]_vars

-----------------------------------------------------------------------------
(* Properties *)

InPlace(n) == \A j \in 0 .. n - 1 : flash[target + j] = image[j]

\* However the staging area overlaps the application, what has been copied is
\* the image and what is still to be copied has not been overwritten
\* (esb_ota_flash.c:208-258).
CopyIsExact ==
  /\ InPlace(page)
  /\ \A j \in page .. pages - 1 : flash[Staging + j] = image[j]

\* At any moment, so also when power is lost then, settings that mark the new
\* image valid are complete, but for a damaged word, and the application they
\* certify is entirely in place (esb_ota_flash.c:262-300).
SettingsAreTrue ==
  settings.first = "new" => settings.rest # "blank" /\ InPlace(pages)

-----------------------------------------------------------------------------
(* The inductive invariant: a page is only ever written below its source. *)

Geometry ==
  /\ pages \in 1 .. FlashEnd - AppBase
  /\ target \in 1 .. AppBase

\* Between any two steps: the image is split between target and staging area
\* without a lost page, a page is written only below its source, and the
\* settings are touched only when every page is in place
\* (esb_ota_flash.c:202-300).
CopierInv ==
  /\ TypeOK
  /\ Geometry
  /\ CopyIsExact
  /\ pc = "write" => page < pages /\ target < Staging
  /\ pc \in {"rest", "first", "check", "reset", "recover"} => page = pages
  /\ settings.first = "new" => page = pages /\ settings.rest # "blank"
  /\ pc = "page" => settings.first = "old"
  /\ pc = "write" => settings.first = "old"
  /\ pc = "rest" => settings.first = "blank"
  /\ pc = "first" => settings.rest \in {"new", "bad"}
  /\ pc = "reset" => settings = [first |-> "new", rest |-> "new"]

=============================================================================
