----------------------------- MODULE WarmStore -----------------------------
(***************************************************************************)
(* Warm-durable storage (system/system.c, retained.c): values that live in *)
(* retained memory, sealed by a CRC, and reach NVS either eagerly          *)
(* (sys_write) or later, from a table of dirty ids (sys_write_warm,        *)
(* sys_flush_warm).  The table may carry the identity of a heated          *)
(* calibration session, which is told by receipts what became of its       *)
(* values (calibration/tcal_heated.c).                                     *)
(*                                                                         *)
(* sys_storage_lock is recursive and held for a whole transaction, so one  *)
(* thread at a time runs a script: the sequence of storage operations of   *)
(* one caller.  Every operation is a step, because a reset may strike      *)
(* between any two; receipts are delivered without the lock.  A value is   *)
(* the stamp of the change that made it, and a session's identity is the   *)
(* stamp of its publication.  The build is the one with heated temperature *)
(* calibration.  NVS writes are atomic, as Zephyr's NVS promises.          *)
(***************************************************************************)
EXTENDS Integers, Sequences, FiniteSets, SequencesExt

CONSTANTS
    Temp,       \* MAIN_GYRO_TEMP_ID, the reference temperature of the model
    Model,      \* the ids of the model: points first, then state and coefficients
    Mag,        \* MAIN_MAG_BIAS_ID, warm but without receipts
    WarmMax,    \* WARM_DIRTY_MAX (8)
    Threads,    \* the callers
    Menus,      \* what the callers do in a behaviour: sets of names of scripts
    MaxStamp,   \* bound: changes of a value
    MaxFaults   \* bound: failures of NVS

Tcal == <<Temp>> \o Model
TcalIds == ToSet(Tcal)
Ids == TcalIds \union {Mag}

ASSUME StoreAssumption ==
    /\ Model \in Seq(TcalIds) /\ Len(Model) > 0
    /\ IsInjective(Tcal) /\ Mag \notin TcalIds
    /\ WarmMax \in Nat \ {0} /\ MaxStamp \in Nat /\ MaxFaults \in Nat

VARIABLES
    ram,        \* retained: the value of each id
    sealed,     \* the CRC of retained matches its contents
    nvs,        \* what flash holds of each id; 0 is nothing
    mounted,    \* nvs_init
    dirty,      \* warm_dirty: slots [id, feedback]
    armed,      \* warm_tcal_armed
    receipts,   \* warm_tcal_receipts
    heat,       \* the session that waits for its receipt
    model,      \* sensor_tcal_model_generation()
    thread,     \* per caller: where it is, its script, the receipt it delivers
    counter,    \* the reboot counter and where it is kept
    menu, stamp, faults,
    handed, fresh   \* history: the newest value of each id handed to the store,
                    \* and the ids it was handed in this boot

store == <<dirty, armed, receipts>>
retained == <<ram, sealed>>
flash == <<nvs, mounted>>
history == <<handed, fresh>>
vars == <<ram, sealed, nvs, mounted, dirty, armed, receipts, heat, model, thread,
          counter, menu, stamp, faults, handed, fresh>>

Nobody == 0
NoReceipt == [identity |-> Nobody, written |-> {}, failed |-> FALSE]
Idle == [at |-> "idle", todo |-> <<>>, receipt |-> NoReceipt, turns |-> 0]
NoSession == [pending |-> FALSE, session |-> Nobody, written |-> {}, base |-> 0,
              busy |-> FALSE, resetting |-> FALSE, verdict |-> "none"]
Unset == [id \in Ids |-> 0]

----------------------------------------------------------------------------
\* What the callers do under the lock.

Op(op, args) == [op |-> op, args |-> args]
Each(op, seq) == [i \in 1..Len(seq) |-> Op(op, {seq[i]})]
Seal == Op("seal", {})
End == Op("end", {})
\* sys_write of a value that is in retained already
Store(id) == <<Op("store", {id}), Seal>>
\* the operation on each id in turn, sealed at once
Sealed(op, seq) ==
    [k \in 1..(2 * Len(seq)) |-> IF k % 2 = 1 THEN Op(op, {seq[(k + 1) \div 2]}) ELSE Seal]
StoreModel == Sealed("store", Model)
\* update_tcal_state: sys_write_warm marks and seals
WarmAll == Sealed("mark", Tcal)
Flush == Op("flush", {1})

Scripts == [
    heated    |-> <<Op("publish", TcalIds)>> \o Each("mark", Tcal) \o <<Seal, End>>,
    point     |-> <<Op("refit", TcalIds)>> \o Each("mark", Tcal) \o <<Seal, End>>,
    quiet     |-> <<Op("refit", {Temp, Model[1]}), Seal, End>>,
    imu       |-> <<Op("touch", {Temp})>> \o Store(Temp) \o <<End>>,
    imupoint  |-> <<Op("touch", {Temp})>> \o Store(Temp) \o <<Op("refit", ToSet(Model))>>
                      \o WarmAll \o <<Flush, End>>,
    clear     |-> <<Op("refit", ToSet(Model))>> \o StoreModel \o <<End>>,
    remove    |-> <<Op("refit", ToSet(Model))>> \o WarmAll \o <<Flush, End>>,
    backup    |-> <<Op("refit", TcalIds)>> \o StoreModel \o Store(Temp) \o <<End>>,
    onlinemag |-> <<Op("touch", {Mag}), Op("mark", {Mag}), Seal, End>>,
    manualmag |-> <<Op("touch", {Mag})>> \o Store(Mag) \o <<End>>,
    flush     |-> <<Flush, End>> ]

\* callers that maintenance or a calibration excludes from a heated session
Excluded == {"point", "quiet", "imu", "imupoint", "clear", "remove", "backup"}

Locked == \E t \in Threads : thread[t].at = "script"

\* the change a script starts with is one more stamp; a second one follows in imupoint
Room(name) == name = "flush" \/ stamp + (IF name = "imupoint" THEN 2 ELSE 1) <= MaxStamp

Begin(t, name) ==
    /\ thread[t].at = "idle" /\ ~Locked /\ Room(name)
    /\ name = "heated" => heat.busy
    /\ name \in Excluded => ~heat.busy /\ ~heat.resetting
    /\ thread' = [thread EXCEPT ![t] = [Idle EXCEPT !.at = "script", !.todo = Scripts[name]]]
    /\ UNCHANGED <<retained, flash, store, heat, model, counter, menu, stamp, faults, history>>

\* The operation a caller is at; Done leaves it, Go replaces it by others.
Doing(t, op) == thread[t].at = "script" /\ Head(thread[t].todo).op = op
Subject(t) == CHOOSE id \in Head(thread[t].todo).args : TRUE
Go(t, steps) == [thread EXCEPT ![t].todo = steps \o Tail(@)]
Done(t) == Go(t, <<>>)

----------------------------------------------------------------------------
\* Receipts.

MergedLast(r, mask, failed) ==  \* mutant: assigned, not accumulated
    [r EXCEPT !.written = mask, !.failed = failed]
Merged(r, mask, failed) ==
    [r EXCEPT !.written = @ \union mask, !.failed = @ \/ failed]

\* warm_tcal_receipt_locked: one receipt per identity, dropped when the table is full
AddReceipt(rs, slot, written, failed) ==
    LET known == {i \in 1..Len(rs) : rs[i].identity = slot.feedback}
        mask == IF written THEN {slot.id} \intersect TcalIds ELSE {}
    IN  IF slot.feedback = Nobody THEN rs
        ELSE IF known # {}
        THEN LET i == CHOOSE i \in known : TRUE
             IN  [rs EXCEPT ![i] = Merged(@, mask, failed)]
        ELSE IF Len(rs) < WarmMax
        THEN Append(rs, [identity |-> slot.feedback, written |-> mask, failed |-> failed])
        ELSE rs

\* the model is not the one the session published
NeverReplaced(h) == FALSE       \* mutant: whatever was flushed counts as the session's
Replaced(h) == model # h.base

\* sensor_tcal_feedback_persisted, of a session the sensor ended (one the user
\* stopped is told "partial" where this one is told "success")
Persisted(h, r) ==
    LET written == h.written \union r.written
        verdict == IF r.failed THEN "not saved"
                   ELSE IF Replaced(h) THEN "partial" ELSE "success"
    IN  IF ~h.pending \/ r.identity # h.session THEN h
        ELSE IF r.failed \/ written = TcalIds
        THEN [h EXCEPT !.written = written, !.verdict = verdict, !.pending = FALSE,
                       !.session = Nobody]
        ELSE [h EXCEPT !.written = written]

\* warm_tcal_dispatch: one receipt at a time, delivered without the lock
Take(t) ==
    /\ thread[t].at = "dispatch" /\ ~Locked
    /\ IF receipts # <<>> /\ thread[t].turns < WarmMax
       THEN /\ thread' = [thread EXCEPT ![t].at = "deliver", ![t].receipt = Last(receipts),
                                        ![t].turns = @ + 1]
            /\ receipts' = Front(receipts)
       ELSE /\ thread' = [thread EXCEPT ![t] = Idle]
            /\ UNCHANGED receipts
    /\ UNCHANGED <<retained, flash, dirty, armed, heat, model, counter, menu, stamp, faults, history>>

Deliver(t) ==
    /\ thread[t].at = "deliver"
    /\ heat' = Persisted(heat, thread[t].receipt)
    /\ thread' = [thread EXCEPT ![t].at = "dispatch", ![t].receipt = NoReceipt]
    /\ UNCHANGED <<retained, flash, store, model, counter, menu, stamp, faults, history>>

----------------------------------------------------------------------------
\* The dirty table.

NewIdentity(id) == IF id \in TcalIds THEN armed ELSE Nobody
Slot(id) == [id |-> id, feedback |-> NewIdentity(id)]
SlotsOf(id) == {i \in 1..Len(dirty) : dirty[i].id = id}
IsDirty(id) == SlotsOf(id) # {}
Cancelled(rs, i, identity) ==
    IF dirty[i].feedback # identity THEN AddReceipt(rs, dirty[i], FALSE, TRUE) ELSE rs

HandedOver(id) ==
    /\ handed' = [handed EXCEPT ![id] = ram[id]]
    /\ fresh' = fresh \union {id}

\* warm_dirty_mark_locked; a full table is flushed first, and the id dropped
\* if that made no room
Mark(t) ==
    LET id == Subject(t)
    IN  /\ Doing(t, "mark")
        /\ \/ /\ IsDirty(id)
              /\ LET i == CHOOSE i \in SlotsOf(id) : TRUE
                 IN  /\ receipts' = Cancelled(receipts, i, NewIdentity(id))
                     /\ dirty' = [dirty EXCEPT ![i] = Slot(id)]
              /\ HandedOver(id) /\ thread' = Done(t)
           \/ /\ ~IsDirty(id) /\ Len(dirty) < WarmMax
              /\ dirty' = Append(dirty, Slot(id))
              /\ HandedOver(id) /\ thread' = Done(t)
              /\ UNCHANGED receipts
           \/ /\ ~IsDirty(id) /\ Len(dirty) >= WarmMax
              /\ thread' = Go(t, <<Flush, Op("force", {id})>>)
              /\ UNCHANGED <<dirty, receipts, history>>
        /\ UNCHANGED <<retained, flash, armed, heat, model, counter, menu, stamp, faults>>

\* its second look at the table, after the flush
MarkAfterFlush(t) ==
    LET id == Subject(t)
    IN  /\ Doing(t, "force")
        /\ thread' = Done(t)
        /\ IF Len(dirty) < WarmMax
           THEN /\ dirty' = Append(dirty, Slot(id))
                /\ HandedOver(id)
                /\ UNCHANGED receipts
           ELSE /\ receipts' = AddReceipt(receipts, Slot(id), FALSE, TRUE)
                /\ UNCHANGED <<dirty, history>>
        /\ UNCHANGED <<retained, flash, armed, heat, model, counter, menu, stamp, faults>>

\* sys_nvs_init: mounted before, or mounted now, or one more failure
Mount(ok) ==
    \/ ok /\ mounted' = TRUE /\ UNCHANGED faults
    \/ ~ok /\ ~mounted /\ faults < MaxFaults /\ mounted' = FALSE /\ faults' = faults + 1
Fails == mounted' = TRUE /\ faults < MaxFaults /\ faults' = faults + 1
Writes(id) ==
    nvs' = [nvs EXCEPT ![id] = ram[id]]

\* sys_flush_warm_locked, one entry a step.  A flush goes through the table
\* from its first slot, and the slots written stay in it until it ends.
AfterFailed(i) == SubSeq(dirty, i + 1, Len(dirty))   \* mutant: the failed one goes too
AfterFailure(i) == SubSeq(dirty, i, Len(dirty))
\* the slots that stay get a failed receipt each
FailAll == <<Op("fail", {1})>>
FlushStep(t) ==
    LET i == Subject(t)
    IN  /\ Doing(t, "flush")
        /\ \/ /\ i > Len(dirty)
              /\ dirty' = <<>> /\ thread' = Done(t)
              /\ UNCHANGED <<flash, receipts, faults>>
           \/ /\ i = 1 /\ dirty # <<>> /\ Mount(FALSE)
              /\ thread' = Go(t, FailAll)
              /\ UNCHANGED <<nvs, receipts, dirty>>
           \/ /\ i <= Len(dirty) /\ Mount(TRUE)
              /\ Writes(dirty[i].id)
              /\ receipts' = AddReceipt(receipts, dirty[i], TRUE, FALSE)
              /\ thread' = Go(t, <<Op("flush", {i + 1})>>)
              /\ UNCHANGED dirty
           \/ /\ i <= Len(dirty) /\ Fails
              /\ dirty' = AfterFailure(i)
              /\ thread' = Go(t, FailAll)
              /\ UNCHANGED <<nvs, receipts>>
        /\ UNCHANGED <<retained, armed, heat, model, counter, menu, stamp, history>>

FailStep(t) ==
    LET i == Subject(t)
    IN  /\ Doing(t, "fail")
        /\ IF i > Len(dirty)
           THEN thread' = Done(t) /\ UNCHANGED receipts
           ELSE /\ receipts' = AddReceipt(receipts, dirty[i], FALSE, TRUE)
                /\ thread' = Go(t, <<Op("fail", {i + 1})>>)
        /\ UNCHANGED <<retained, flash, dirty, armed, heat, model, counter, menu, stamp, faults, history>>

\* warm_dirty_clear_id_locked: the last slot takes its place
ClearedSlots(id) ==
    IF ~IsDirty(id) THEN dirty
    ELSE LET i == CHOOSE i \in SlotsOf(id) : TRUE
         IN  Front([dirty EXCEPT ![i] = Last(dirty)])
ClearedReceipts(id) ==
    IF ~IsDirty(id) THEN receipts
    ELSE AddReceipt(receipts, dirty[CHOOSE i \in SlotsOf(id) : TRUE], FALSE, TRUE)

\* sys_write: an eager write supersedes the deferred one only if it succeeds
StoreEager(t) ==
    LET id == Subject(t)
    IN  /\ Doing(t, "store") /\ thread' = Done(t)
        /\ \/ /\ Mount(TRUE)
              /\ Writes(id) /\ HandedOver(id)
              /\ dirty' = ClearedSlots(id) /\ receipts' = ClearedReceipts(id)
           \/ /\ (Mount(FALSE) \/ Fails)
              /\ UNCHANGED <<nvs, dirty, receipts, history>>
        /\ UNCHANGED <<retained, armed, heat, model, counter, menu, stamp>>

----------------------------------------------------------------------------
\* Changes of the values.

\* the caller writes into retained memory: fusion_id or a value, so the CRC is broken
Changes(ids) ==
    /\ stamp' = stamp + 1
    /\ ram' = [id \in Ids |-> IF id \in ids THEN stamp + 1 ELSE ram[id]]
    /\ sealed' = FALSE

Change(t) ==
    /\ Doing(t, "touch") /\ thread' = Done(t)
    /\ Changes(Head(thread[t].todo).args)
    /\ UNCHANGED <<flash, store, heat, model, counter, menu, faults, history>>

\* sensor_tcal_refresh_model: the model has a new generation
Refit(t) ==
    /\ Doing(t, "refit") /\ thread' = Done(t)
    /\ Changes(Head(thread[t].todo).args)
    /\ model' = stamp + 1
    /\ UNCHANGED <<flash, store, heat, counter, menu, faults, history>>

\* sensor_tcal_heated_finalize: publishes the session's model and arms its
\* identity, or finds the session gone
Publish(t) ==
    /\ Doing(t, "publish")
    /\ IF heat.busy /\ ~heat.resetting
       THEN /\ thread' = Done(t)
            /\ Changes(TcalIds)
            /\ model' = stamp + 1 /\ armed' = stamp + 1
            /\ heat' = [heat EXCEPT !.pending = TRUE, !.session = stamp + 1, !.written = {},
                                    !.base = stamp + 1, !.busy = FALSE, !.verdict = "none"]
       ELSE /\ thread' = [thread EXCEPT ![t].todo = <<End>>]
            /\ UNCHANGED <<retained, stamp, model, armed, heat>>
    /\ UNCHANGED <<flash, dirty, receipts, counter, menu, faults, history>>

SealStep(t) ==
    /\ Doing(t, "seal") /\ thread' = Done(t)
    /\ sealed' = TRUE
    /\ UNCHANGED <<ram, flash, store, heat, model, counter, menu, stamp, faults, history>>

\* sys_warm_transaction_end: the lock is released
Release(t) ==
    /\ Doing(t, "end")
    /\ armed' = Nobody
    /\ thread' = [thread EXCEPT ![t] = [Idle EXCEPT !.at = "dispatch"]]
    /\ UNCHANGED <<retained, flash, dirty, receipts, heat, model, counter, menu, stamp, faults, history>>

Operate(t) ==
    Mark(t) \/ MarkAfterFlush(t) \/ FlushStep(t) \/ FailStep(t) \/ StoreEager(t) \/ Change(t) \/ Refit(t)
    \/ Publish(t) \/ SealStep(t) \/ Release(t)

----------------------------------------------------------------------------
\* sys_clear: the calibrations' barrier, the lock, the end of the barrier.

Barrier(t) ==
    /\ "erase" \in menu
    /\ thread[t].at = "idle" /\ ~heat.resetting
    /\ thread' = [thread EXCEPT ![t].at = "clearing"]
    /\ heat' = [heat EXCEPT !.resetting = TRUE, !.busy = FALSE, !.pending = FALSE, !.session = Nobody,
                            !.verdict = IF heat.pending THEN "cancelled" ELSE @]
    /\ UNCHANGED <<retained, flash, store, model, counter, menu, stamp, faults, history>>

Erase(t) ==
    /\ thread[t].at = "clearing" /\ ~Locked
    /\ thread' = [thread EXCEPT ![t].at = "cleared"]
    /\ \/ /\ nvs' = Unset /\ ram' = Unset /\ handed' = Unset /\ fresh' = {}
          /\ mounted' = FALSE /\ sealed' = TRUE
          /\ dirty' = <<>> /\ armed' = Nobody /\ receipts' = <<>>
          /\ counter' = [counter EXCEPT !.ram = 0, !.nvs = 0, !.known = 0]
          /\ UNCHANGED faults
       \/ /\ (Mount(FALSE) \/ Fails)
          /\ UNCHANGED <<nvs, retained, store, counter, history>>
    /\ UNCHANGED <<heat, model, menu, stamp>>

Reopen(t) ==
    /\ thread[t].at = "cleared"
    /\ thread' = [thread EXCEPT ![t] = Idle]
    /\ heat' = [heat EXCEPT !.resetting = FALSE]
    /\ UNCHANGED <<retained, flash, store, model, counter, menu, stamp, faults, history>>

----------------------------------------------------------------------------
\* A heated session up to its publication: sensor_tcal_heated_start cancels
\* the feedback of the session before it; it may end with nothing published.

Start ==
    /\ "heated" \in menu /\ stamp < MaxStamp
    /\ ~heat.busy /\ ~heat.resetting
    /\ heat' = [heat EXCEPT !.busy = TRUE, !.pending = FALSE, !.session = Nobody, !.written = {},
                            !.verdict = IF heat.pending THEN "cancelled" ELSE @]
    /\ UNCHANGED <<retained, flash, store, model, thread, counter, menu, stamp, faults, history>>

Stop ==
    /\ heat.busy
    /\ heat' = [heat EXCEPT !.busy = FALSE, !.verdict = "failed"]
    /\ UNCHANGED <<retained, flash, store, model, thread, counter, menu, stamp, faults, history>>

----------------------------------------------------------------------------
\* The reboot counter, in NVS as long as retained memory is not trusted.

InFlash == ~counter.trusted /\ ~counter.ramOnly

\* history: the first read of a boot, or a write, says what the counter is
Learned(c) == [c EXCEPT !.known = IF @ = -1 THEN c.ram ELSE @]

ReadCounter ==
    /\ "counter" \in menu /\ ~Locked
    /\ \/ /\ ~InFlash
          /\ counter' = Learned(counter)
          /\ UNCHANGED <<mounted, faults>>
       \/ /\ InFlash /\ Mount(TRUE)
          /\ counter' = Learned([counter EXCEPT !.ram = counter.nvs])
       \/ /\ InFlash /\ (Mount(FALSE) \/ Fails)
          /\ counter' = Learned([counter EXCEPT !.ramOnly = TRUE])
    /\ sealed' = (sealed \/ InFlash)
    /\ UNCHANGED <<ram, nvs, store, heat, model, thread, menu, stamp, history>>

WriteCounter(n) ==
    /\ "counter" \in menu /\ ~Locked
    /\ \/ /\ ~InFlash
          /\ counter' = [counter EXCEPT !.ram = n, !.known = n]
          /\ UNCHANGED <<mounted, faults>>
       \/ /\ InFlash /\ Mount(TRUE)
          /\ counter' = [counter EXCEPT !.ram = n, !.nvs = n, !.known = n]
       \/ /\ InFlash /\ (Mount(FALSE) \/ Fails)
          /\ counter' = [counter EXCEPT !.ram = n, !.ramOnly = TRUE, !.known = n]
    /\ sealed' = TRUE
    /\ UNCHANGED <<ram, nvs, store, heat, model, thread, menu, stamp, history>>

----------------------------------------------------------------------------
\* Resets.

\* What a reset leaves: everything but flash and, unless power was lost or
\* the firmware replaced, retained memory; then sys_retained_init, which
\* trusts retained memory if its CRC matches and reads it from NVS if not.
Boot(keeps, pin) ==
    LET valid == keeps /\ sealed
    IN  /\ \/ mounted' = TRUE /\ UNCHANGED faults
           \/ mounted' = FALSE /\ faults < MaxFaults /\ faults' = faults + 1
        /\ ram' = IF valid THEN ram ELSE IF mounted' THEN nvs ELSE Unset
        /\ sealed' = TRUE
        /\ counter' = [counter EXCEPT !.ram = IF valid THEN @ ELSE 0, !.known = -1,
                                      !.ramOnly = FALSE, !.trusted = valid \/ ~pin]
        /\ handed' = IF valid THEN handed ELSE ram'
        /\ fresh' = {}
        /\ dirty' = <<>> /\ armed' = Nobody /\ receipts' = <<>>
        /\ heat' = NoSession /\ model' = 0
        /\ thread' = [t \in Threads |-> Idle]
        /\ UNCHANGED <<nvs, menu, stamp>>

\* a retained_update() of a thread that does not hold the storage lock
OtherSeal ==
    /\ ~sealed /\ sealed' = TRUE
    /\ UNCHANGED <<ram, flash, store, heat, model, thread, counter, menu, stamp, faults, history>>

Init ==
    /\ menu \in Menus
    /\ ram = Unset /\ sealed = TRUE /\ nvs = Unset /\ mounted = TRUE
    /\ dirty = <<>> /\ armed = Nobody /\ receipts = <<>>
    /\ heat = NoSession /\ model = 0
    /\ thread = [t \in Threads |-> Idle]
    /\ counter = [ram |-> 0, nvs |-> 0, trusted |-> TRUE, ramOnly |-> FALSE, known |-> -1]
    /\ stamp = 0 /\ faults = 0
    /\ handed = Unset /\ fresh = {}

Next ==
    \/ \E t \in Threads :
          \/ \E name \in menu \intersect DOMAIN Scripts : Begin(t, name)
          \/ Operate(t)
          \/ Take(t)
          \/ Deliver(t)
          \/ Barrier(t)
          \/ Erase(t)
          \/ Reopen(t)
    \/ Start
    \/ Stop
    \/ ReadCounter
    \/ \E n \in 0..1 : WriteCounter(n)
    \/ OtherSeal
    \/ \E keeps, pin \in BOOLEAN : Boot(keeps, pin)

\* The lock goes to a waiter when it is released, and a thread that holds it
\* or delivers a receipt has no unbounded wait.
Fairness ==
    \A t \in Threads : WF_vars(Operate(t)) /\ WF_vars(Deliver(t)) /\ SF_vars(Take(t))

Spec == Init /\ [][Next]_vars
FairSpec == Spec /\ Fairness

----------------------------------------------------------------------------
\* Properties.

Stamps == 0..MaxStamp
Receipts == [identity : Stamps, written : SUBSET TcalIds, failed : BOOLEAN]

\* Every variable keeps its type, and the table holds one slot per id.
TypeOK ==
    /\ ram \in [Ids -> Stamps] /\ nvs \in [Ids -> Stamps] /\ handed \in [Ids -> Stamps]
    /\ {sealed, mounted} \subseteq BOOLEAN /\ fresh \subseteq Ids
    /\ dirty \in Seq([id : Ids, feedback : Stamps]) /\ Len(dirty) <= WarmMax
    /\ receipts \in Seq(Receipts) /\ Len(receipts) <= WarmMax
    /\ {armed, model, stamp} \subseteq Stamps /\ faults \in 0..MaxFaults
    /\ heat \in [pending : BOOLEAN, session : Stamps, written : SUBSET TcalIds, base : Stamps,
                 busy : BOOLEAN, resetting : BOOLEAN,
                 verdict : {"none", "success", "partial", "not saved", "cancelled", "failed"}]
    /\ \A t \in Threads :
          /\ thread[t].at \in {"idle", "script", "dispatch", "deliver", "clearing", "cleared"}
          /\ thread[t].at = "script" => thread[t].todo # <<>>
          /\ thread[t].receipt \in Receipts /\ thread[t].turns \in 0..WarmMax
    /\ counter \in [ram : 0..1, nvs : 0..1, trusted : BOOLEAN, ramOnly : BOOLEAN, known : -1..1]
    /\ menu \in Menus
    /\ \A i, j \in 1..Len(dirty) : dirty[i].id = dirty[j].id => i = j

\* What was handed to the store since the last reset, by a mark or by an eager
\* write that succeeded, is in flash, or its id is still dirty: whatever fails
\* in whatever flush, and whatever is flushed to make room.
NothingForgotten ==
    \A id \in fresh : nvs[id] >= handed[id] \/ IsDirty(id)

\* A session that is told its model was saved has exactly that model in flash,
\* whatever was written, failed or was replaced between the publication and
\* the delivery of the receipt.
SuccessIsStored ==
    [][heat.verdict # "success" /\ heat'.verdict = "success" =>
          \A i \in 1..Len(Model) : nvs[Model[i]] = heat.session]_vars

\* A session that waits when a flush begins, all its values marked, gets its
\* verdict, whether NVS works or not.
Asked(t) ==
    /\ Doing(t, "flush") /\ heat.pending
    /\ \A i \in 1..Len(thread[t].todo) : thread[t].todo[i].op \notin {"mark", "force"}
FlushAnswers == (\E t \in Threads : Asked(t)) ~> ~heat.pending

\* Within a boot the reboot counter reads as it was last read or written: a
\* failing flash never brings an older value back ("never reread stale NVS
\* over a newer RAM write", system.c:566).
CounterReadsBack == counter.known # -1 => counter.ram = counter.known

\* power.c:750, "persist warm cal before session clear / power loss": after a
\* flush that reported success flash holds the newest value of every id.
FlushSucceeds(t) == Doing(t, "flush") /\ thread' = Done(t) /\ dirty' = <<>>
FlushMakesDurable ==
    [][\A t \in Threads : FlushSucceeds(t) => \A id \in Ids : nvs[id] >= handed[id]]_vars
=============================================================================
