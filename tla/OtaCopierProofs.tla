-------------------------- MODULE OtaCopierProofs --------------------------
(***************************************************************************)
(* The copier is exact for images and flashes of every size: the inductive *)
(* invariant CopierInv and what follows from it.                           *)
(***************************************************************************)
EXTENDS OtaCopier, TLAPS

\* The page being written is never one that is still to be read: the target
\* lies below the staging area, or the two coincide and nothing is written.
LEMMA SourceIsSafe ==
  ASSUME Geometry, NEW j \in page .. pages - 1, page \in 0 .. pages,
         pages \in Nat, target \in Nat, target < Staging
  PROVE  /\ Dst \in 0 .. FlashEnd - 1 /\ Src \in 0 .. FlashEnd - 1
         /\ Staging + j \in 0 .. FlashEnd - 1
         /\ Staging + j # Dst
BY GeometryAssumption DEF Geometry, Dst, Src, Current, Staging

\* The image starts at or below its staging area.
LEMMA TargetBelowStaging ==
  ASSUME Geometry
  PROVE  target \in Nat /\ pages \in Nat /\ Staging \in Nat /\ target <= Staging
         /\ Staging + pages = FlashEnd
BY GeometryAssumption DEF Geometry, Staging

\* Every update that ACTIVATE hands over starts the copier in CopierInv.
LEMMA InitInv == Init => CopierInv
<1> SUFFICES ASSUME Init PROVE CopierInv
  OBVIOUS
<1>1. Geometry
  BY DEF Init, Geometry
<1>2. TypeOK
  BY <1>1, GeometryAssumption
     DEF Init, Geometry, TypeOK, PageStates, Settings, Words, Pcs
<1>3. CopyIsExact
  BY <1>1, TargetBelowStaging DEF Init, CopyIsExact, InPlace
<1> QED
  BY <1>1, <1>2, <1>3 DEF Init, CopierInv

\* Every step of the copier, and a power loss at any step, preserves CopierInv.
LEMMA NextInv == CopierInv /\ [Next]_vars => CopierInv'
<1> SUFFICES ASSUME CopierInv, [Next]_vars PROVE CopierInv'
  OBVIOUS
<1> USE TargetBelowStaging, GeometryAssumption DEF CopierInv, TypeOK, Geometry,
        CopyIsExact, InPlace, Src, Dst, Current, CopySettled, PageStates, Settings,
        Words, Pcs
<1>1. CASE SkipPage
  BY <1>1 DEF SkipPage, Staging
<1>2. CASE ErasePage
  <2>a. page \in 0 .. pages - 1
    BY <1>2 DEF ErasePage
  <2>b. target # Staging
    BY <1>2 DEF ErasePage
  <2>1. target < Staging /\ page \in 0 .. pages - 1
    BY <2>a, <2>b
  <2>2. \A j \in page .. pages - 1 : flash'[Staging + j] = image[j]
    BY <1>2, <2>1, SourceIsSafe DEF ErasePage
  <2>3. \A j \in 0 .. page - 1 : flash'[target + j] = image[j]
    BY <1>2, <2>1 DEF ErasePage, Staging
  <2> QED
    BY <1>2, <2>1, <2>2, <2>3 DEF ErasePage, Staging
<1>3. CASE WriteWords
  <2>1. \A j \in page .. pages - 1 : flash'[Staging + j] = image[j]
    BY <1>3, SourceIsSafe DEF WriteWords
  <2>2. \A j \in 0 .. page - 1 : flash'[target + j] = image[j]
    BY <1>3 DEF WriteWords, Staging
  <2> QED
    BY <1>3, <2>1, <2>2 DEF WriteWords, Staging
<1>4. CASE WritePage
  <2>1. \A j \in page .. pages - 1 : flash'[Staging + j] = image[j]
    BY <1>4, SourceIsSafe DEF WritePage
  <2>2. page' = page + 1 /\ page' \in 0 .. pages /\ page \in 0 .. pages - 1
    BY <1>4 DEF WritePage
  <2>3. \A j \in 0 .. page : flash'[target + j] = image[j]
    <3>1. Dst \in 0 .. FlashEnd - 1 /\ Dst = target + page
      BY <1>4, <2>2 DEF WritePage, Staging
    <3>2. flash'[Dst] = image[page]
      BY <1>4, <2>2, <3>1 DEF WritePage
    <3>3. \A j \in 0 .. page - 1 : flash'[target + j] = image[j]
      BY <1>4, <2>2 DEF WritePage, Staging
    <3> QED
      <4> SUFFICES ASSUME NEW j \in 0 .. page PROVE flash'[target + j] = image[j]
        OBVIOUS
      <4>1. CASE j = page
        BY <3>1, <3>2, <4>1
      <4>2. CASE j # page
        BY <2>2, <3>3, <4>2
      <4> QED
        BY <4>1, <4>2
  <2>4. CopyIsExact'
    <3>1. /\ pages' = pages /\ target' = target /\ image' = image
          /\ Staging' = Staging
      BY <1>4 DEF WritePage, Staging
    <3>2. \A j \in 0 .. page' - 1 : flash'[target' + j] = image'[j]
      BY <2>2, <2>3, <3>1
    <3>3. \A j \in page' .. pages' - 1 : flash'[Staging' + j] = image'[j]
      BY <2>1, <2>2, <3>1
    <3> QED
      BY <3>2, <3>3
  <2>5. TypeOK'
    <3>1. Dst \in 0 .. FlashEnd - 1 /\ Src \in 0 .. FlashEnd - 1
      BY <1>4, <2>2 DEF WritePage, Staging
    <3>2. flash' \in [0 .. FlashEnd - 1 -> PageStates]
      BY <1>4, <3>1 DEF WritePage
    <3> QED
      BY <1>4, <2>2, <3>2 DEF WritePage
  <2> QED
    BY <1>4, <2>2, <2>4, <2>5 DEF WritePage
<1>5. CASE EraseSettings
  BY <1>5 DEF EraseSettings, Staging
<1>6. CASE WriteRest
  BY <1>6 DEF WriteRest, WriteSetting, Staging
<1>7. CASE WriteFirst
  BY <1>7 DEF WriteFirst, WriteSetting, Staging
<1>8. CASE CheckSettings
  BY <1>8 DEF CheckSettings, Staging
<1>9. CASE PowerLoss
  BY <1>9 DEF PowerLoss, Staging
<1>10. CASE UNCHANGED vars
  BY <1>10 DEF vars, Staging
<1> QED
  BY <1>1, <1>2, <1>3, <1>4, <1>5, <1>6, <1>7, <1>8, <1>9, <1>10
     DEF Next, CopyPage, CopySettings

\* The inductive invariant holds in every state of the copier.
THEOREM CopierInvariant == Spec => []CopierInv
<1>1. Init => CopierInv
  BY InitInv
<1>2. CopierInv /\ [Next]_vars => CopierInv'
  BY NextInv
<1> QED
  BY <1>1, <1>2, PTL DEF Spec

\* Copying over an overlapping staging area is exact, for every geometry BEGIN
\* admits (esb_ota_flash.c:208-258).
THEOREM CopyExact == Spec => []CopyIsExact
<1>1. CopierInv => CopyIsExact
  BY DEF CopierInv
<1> QED
  BY <1>1, CopierInvariant, PTL

\* The settings never certify an application that is not in place
\* (esb_ota_flash.c:262-300).
THEOREM TrueSettings == Spec => []SettingsAreTrue
<1>1. CopierInv => SettingsAreTrue
  BY DEF CopierInv, SettingsAreTrue, CopyIsExact, InPlace
<1> QED
  BY <1>1, CopierInvariant, PTL

=============================================================================
