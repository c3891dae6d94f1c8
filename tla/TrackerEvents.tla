--------------------------- MODULE TrackerEvents ---------------------------
(***************************************************************************)
(* The telemetry event queue of connection/tracker_events.c and the part   *)
(* of the connection thread that drains it.  Producers (sensor,            *)
(* calibration, console and power threads) record notices, calibration     *)
(* progress and rest states under event_lock; the connection thread alone  *)
(* selects a record, offers it to the radio and completes it, and sleeps   *)
(* until the deadline the queue gives it.                                  *)
(*                                                                         *)
(* Everything event_lock guards is one record, store: every function that  *)
(* takes the lock is one step.  A timestamp is kept as the age it has at   *)
(* `now` (or the time still to go), in ticks, saturated where no           *)
(* comparison of the code tells a larger value apart; a token is a serial  *)
(* number, so event_seq, which moves with it, is left out.  The free-      *)
(* running diagnostics counters change no decision and are left out too.   *)
(***************************************************************************)
EXTENDS Integers, FiniteSets

CONSTANTS
    QueueSize, OpSize,      \* QUEUE_SIZE (32) and OP_SIZE (8)
    NoticeCopies,           \* admissions of a notice, an END or a state (3)
    Spacing,                \* the send gate after an admission (100 ms)
    Refused,                \* the send gate after a refusal (10 ms)
    Settle,                 \* a new phase rests before it is sent (200 ms)
    Pace,                   \* between two progress or two state packets (500 ms)
    Fresh,                  \* an observation's life; a hidden run's shyness (1000 ms)
    OpBeat, StateBeat,      \* heartbeats (2000 ms and 5000 ms)
    BootDelay, TTL,         \* TRACKER_EVENT_BOOT_DELAY_MS, TRACKER_EVENT_TTL_MS
    Fallback,               \* the longest idle wait (1000 ms)
    Menus,                  \* which producers a behaviour has, and how many calls they make
    Observations,           \* what a sensor frame may report
    MaxEpoch                \* bound: the last sensor epoch an identity change may leave

ASSUME SizesAssumption ==
    /\ QueueSize \in Nat /\ QueueSize > 2
    /\ OpSize \in Nat \ {0} /\ NoticeCopies \in Nat \ {0}
    /\ {Spacing, Refused, Settle, Pace, Fresh, OpBeat, StateBeat,
        BootDelay, TTL, Fallback} \subseteq Nat \ {0}

\* no idle wait outlasts an observation, no pace a heartbeat of a rest state
ASSUME PaceAssumption == Fallback <= Fresh /\ Pace <= StateBeat

VARIABLES
    store,      \* everything under event_lock
    pc,         \* the connection thread
    wakeIn,     \* ticks until its timed wait ends
    sem,        \* connection_wake_sem
    owed,       \* a producer has unlocked and not yet called notify
    rotating,   \* an identity change is waiting for entropy
    frame,      \* the sensor epoch captured before the frame was acquired
    menu,       \* the producers of this behaviour and the calls they have left
    air         \* what the radio took, for the properties

vars == <<store, pc, wakeIn, sem, owed, rotating, frame, menu, air>>

Older(x, most) == IF x < most THEN x + 1 ELSE x
Sooner(x) == IF x > 0 THEN x - 1 ELSE 0

(* ---- records ---------------------------------------------------------- *)
PowerEvents == {"WILL_WOM", "WOM_CANCELLED", "WILL_SHUTDOWN", "BOOT", "WATCHDOG"}
Urgent == {"WILL_SHUTDOWN"}         \* and WILL_REBOOT, treated alike
NoValue == <<0, 0>>         \* a phase and its detail
NoRec == [tok |-> 0, ev |-> "none", op |-> 0, val |-> NoValue, copies |-> 0,
          limit |-> 0, age |-> 0, nonce |-> 0]
RestOf(i) == IF i = 0 THEN "TRACKER_REST" ELSE "FUSION_REST"
Valid(r) == r.tok # 0
Power(r) == r.ev \in PowerEvents

Materialize(s, op, ev, val, limit) ==
    [tok |-> s.serial + 1, ev |-> ev, op |-> op, val |-> val, copies |-> 0,
     limit |-> limit, age |-> 0, nonce |-> s.nonce]

StartupPending(s, r) ==
    \E i \in {0, 1} : s.startup.pending[i] /\ s.startup.tok[i] = r.tok /\ Valid(r)

(* A slot b is the better victim than the slot a chosen so far. *)
BetterVictim(s, a, b) ==
    LET x == s.queue[a]
        y == s.queue[b]
    IN  \/ StartupPending(s, x)
        \/ ~Power(y) /\ Power(x)
        \/ /\ Power(x) <=> Power(y)
           /\ \/ y.copies > 0 /\ x.copies = 0
              \/ (y.copies > 0) = (x.copies > 0) /\ y.tok < x.tok

Victim(s) ==
    LET best[i \in 1..QueueSize] ==
            IF i = 1 THEN 1
            ELSE IF ~StartupPending(s, s.queue[i]) /\ BetterVictim(s, best[i - 1], i) THEN i
            ELSE best[i - 1]
    IN  best[QueueSize]

FreeSlots(s) == {i \in 1..QueueSize : ~Valid(s.queue[i])}

DisplacesAny(old, r) == TRUE
MayDisplace(old, r) == Power(r) \/ ~Power(old)     \* telemetry never evicts a power notice

(* Take the record r into the queue; its token is already s.serial. *)
Enqueue(s, r) ==
    LET free == FreeSlots(s)
        slot == IF free # {} THEN CHOOSE i \in free : \A j \in free : i <= j ELSE Victim(s)
    IN  IF free = {} /\ ~MayDisplace(s.queue[slot], r) THEN s
        ELSE [s EXCEPT !.queue[slot] = r, !.notify = TRUE]

Record(s, r) == Enqueue([s EXCEPT !.serial = r.tok], r)

(* ---- calibration operations ------------------------------------------- *)
Began == <<1, 0>>
NoOp == [id |-> 0, auto |-> FALSE, active |-> FALSE, visible |-> FALSE,
         latest |-> NoRec, phase |-> NoValue, candidate |-> FALSE, why |-> 0,
         born |-> 0, changed |-> 0, beat |-> 0, progress |-> Pace, retry |-> Fresh]

\* hidden_online: an automatic magnetometer run nobody has been told of
Hidden(o) == o.auto /\ ~o.visible

OpSlot(s, id) == {i \in 1..OpSize : id # 0 /\ s.ops[i].id = id}

OpVictim(s) ==
    LET free == {i \in 1..OpSize : s.ops[i].id = 0}
        dull == {i \in 1..OpSize : ~s.ops[i].active}
        pool == IF free # {} THEN free ELSE IF dull # {} THEN dull ELSE 1..OpSize
    IN  IF free # {} THEN CHOOSE i \in free : \A j \in free : i <= j
        ELSE CHOOSE i \in pool : \A j \in pool : s.ops[i].id <= s.ops[j].id

Allocate(s, auto) ==
    [s EXCEPT !.nextOp = @ + 1,
              !.ops[OpVictim(s)] = [NoOp EXCEPT !.id = s.nextOp + 1, !.auto = auto,
                                                !.active = TRUE, !.beat = OpBeat]]

PublishOp(s, i, ev, val, limit) ==
    LET r == Materialize(s, s.ops[i].id, ev, val, limit)
    IN  Record([s EXCEPT !.ops[i].latest = IF s.ops[i].active THEN r ELSE @,
                         !.ops[i].visible = TRUE], r)

(* ---- rest states ------------------------------------------------------ *)
NoSlot == [published |-> NoRec, val |-> NoValue, candidate |-> FALSE, observed |-> FALSE,
           seen |-> 0, publishAge |-> Pace, sentAge |-> StateBeat]

SetState(s, i, val) ==
    LET t == s.states[i]
    IN  CASE t.candidate /\ t.val = val -> s
          [] ~(t.candidate /\ t.val = val) /\ Valid(t.published) /\ t.published.val = val ->
                [s EXCEPT !.states[i].candidate = FALSE, !.states[i].val = val]
          [] OTHER ->
                [s EXCEPT !.states[i] = [t EXCEPT !.val = val, !.candidate = TRUE,
                                                  !.published.copies = t.published.limit],
                          !.notify = TRUE]

(* ---- maintenance, before every selection and every deadline ----------- *)
DropExpired(s) ==
    [s EXCEPT !.queue = [i \in 1..QueueSize |->
        IF Valid(@[i]) /\ ~StartupPending(s, @[i]) /\ @[i].age >= TTL THEN NoRec ELSE @[i]]]

StartupDueFirst(s, i) ==
    /\ s.nonce # 0 /\ s.startup.scheduled /\ s.startup.in = 0
    /\ s.startup.pending[i] /\ s.startup.tok[0] = 0
StartupDue(s, i) ==
    /\ s.nonce # 0 /\ s.startup.scheduled /\ s.startup.in = 0
    /\ s.startup.pending[i] /\ s.startup.tok[i] = 0

Announce(s, i) ==
    LET r == Materialize(s, 0, IF i = 0 THEN "BOOT" ELSE "WATCHDOG", NoValue, NoticeCopies)
    IN  IF StartupDue(s, i)
        THEN Record([s EXCEPT !.startup.tok[i] = r.tok], r)
        ELSE s

Reveal(s, i) ==
    IF s.ops[i].active /\ Hidden(s.ops[i]) /\ s.ops[i].born >= Fresh
    THEN [PublishOp(s, i, "BEGIN", s.ops[i].phase, 1) EXCEPT !.ops[i].candidate = FALSE]
    ELSE s

\* phase 2 is "no fresh observation"; the fusion slot keeps its back end
AgeState(s, i) ==
    LET t == s.states[i]
        u == IF t.observed /\ t.seen >= Fresh
             THEN SetState([s EXCEPT !.states[i].observed = FALSE], i,
                           <<2, IF i = 1 THEN t.val[2] ELSE 0>>)
             ELSE s
        p == u.states[i].published
    IN  IF Valid(p) /\ p.copies < p.limit /\ p.age >= TTL
        THEN [u EXCEPT !.states[i].published.copies = p.limit]
        ELSE u

Maintain(s) ==
    LET begun == Announce(Announce(DropExpired(s), 0), 1)
        shown[i \in 0..OpSize] == IF i = 0 THEN begun ELSE Reveal(shown[i - 1], i)
    IN  AgeState(AgeState(shown[OpSize], 0), 1)

(* ---- selection -------------------------------------------------------- *)
(* A choice is the store it leaves and the record it picked.                *)
Pick(s, r) == [s |-> s, r |-> r]

Oldest(rs) == CHOOSE r \in rs : \A q \in rs : r.tok <= q.tok
Queued(s) == {r \in {s.queue[i] : i \in 1..QueueSize} : Valid(r)}

\* power records, repeats included, ahead of everything; intents first
PowerFirst(s) ==
    LET rs == {r \in Queued(s) : Power(r)}
        urgent == {r \in rs : r.ev \in Urgent}
    IN  IF urgent # {} THEN {Oldest(urgent)} ELSE IF rs # {} THEN {Oldest(rs)} ELSE {}

FirstCopies(s) ==
    LET rs == {r \in Queued(s) : r.copies = 0} IN IF rs # {} THEN {Oldest(rs)} ELSE {}

MayProgress(o) == o.candidate => o.progress >= Pace
OpBeats(s) ==
    {i \in 1..OpSize :
        LET o == s.ops[i]
        IN  o.active /\ o.visible /\ (Valid(o.latest) \/ o.candidate) /\ o.beat = 0 /\ MayProgress(o)}
StateBeats(s) ==
    {i \in {0, 1} :
        LET t == s.states[i]
        IN  /\ t.observed /\ ~t.candidate /\ Valid(t.published) /\ t.published.copies > 0
            /\ t.sentAge >= StateBeat}

SendProgress(s, i) ==
    LET r == Materialize(s, s.ops[i].id, "STEP", s.ops[i].phase, 1)
    IN  Pick([s EXCEPT !.serial = r.tok, !.ops[i].latest = r, !.ops[i].candidate = FALSE], r)

\* due heartbeats compete by how long they have been due: any of them
Beats(s) ==
    {IF s.ops[i].candidate THEN SendProgress(s, i) ELSE Pick(s, s.ops[i].latest) : i \in OpBeats(s)}
        \cup {Pick(s, s.states[i].published) : i \in StateBeats(s)}

\* the first of 0..n-1 (or 1..n) at or after `from` in cyclic order that is in S
Cyclic(S, from, n) == CHOOSE i \in S : \A j \in S : (i - from) % n <= (j - from) % n

Repeats(s) == {i \in 1..QueueSize : s.queue[i].copies > 0 /\ s.queue[i].copies < s.queue[i].limit}
NewStates(s) == {i \in {0, 1} : s.states[i].candidate /\ s.states[i].publishAge >= Pace}
UnsentStep(o) == Valid(o.latest) /\ o.latest.ev = "STEP" /\ o.latest.copies = 0
SettledHidden(o) == o.id # 0 /\ o.candidate /\ o.changed >= Settle /\ o.progress >= Pace
Settled(o) ==
    o.id # 0 /\ o.candidate /\ ~Hidden(o) /\ o.changed >= Settle /\ o.progress >= Pace
Steps(s) == {i \in 1..OpSize : Settled(s.ops[i]) \/ UnsentStep(s.ops[i])}
OldStates(s) ==
    {i \in {0, 1} : LET t == s.states[i]
                    IN  ~t.candidate /\ Valid(t.published) /\ t.published.copies < t.published.limit}

SendState(s, i) ==
    LET r == Materialize(s, 0, RestOf(i), s.states[i].val, NoticeCopies)
    IN  Pick([s EXCEPT !.serial = r.tok, !.stateTurn = 1 - i,
                       !.states[i] = [@ EXCEPT !.published = r, !.candidate = FALSE,
                                               !.sentAge = StateBeat]], r)

Picks(s) ==
    CASE PowerFirst(s) # {} -> {Pick(s, r) : r \in PowerFirst(s)}
      [] PowerFirst(s) = {} /\ FirstCopies(s) # {} -> {Pick(s, r) : r \in FirstCopies(s)}
      [] OTHER ->
           IF Beats(s) # {} THEN Beats(s)
           ELSE IF Repeats(s) # {} THEN
                LET i == Cyclic(Repeats(s), s.queueTurn, QueueSize)
                IN  {Pick([s EXCEPT !.queueTurn = (i % QueueSize) + 1], s.queue[i])}
           ELSE IF NewStates(s) # {} THEN {SendState(s, Cyclic(NewStates(s), s.stateTurn, 2))}
           ELSE IF Steps(s) # {} THEN
                LET i == Cyclic(Steps(s), s.opTurn, OpSize)
                    u == [s EXCEPT !.opTurn = (i % OpSize) + 1]
                IN  {IF Settled(s.ops[i]) THEN SendProgress(u, i) ELSE Pick(u, s.ops[i].latest)}
           ELSE IF OldStates(s) # {} THEN
                LET i == Cyclic(OldStates(s), s.stateTurn, 2)
                IN  {Pick([s EXCEPT !.stateTurn = 1 - i], s.states[i].published)}
           ELSE {}

(* ---- the next deadline, in ticks from now ----------------------------- *)
Longest(a, b) == IF a > b THEN a ELSE b
Left(age, most) == IF age >= most THEN 0 ELSE most - age

OpDeadlines(o) ==
    LET pace == Left(o.progress, Pace)
    IN  IF o.active /\ Hidden(o) THEN {Left(o.born, Fresh)}
        ELSE (IF o.active /\ o.visible /\ (Valid(o.latest) \/ o.candidate)
              THEN {IF o.candidate THEN Longest(o.beat, pace) ELSE o.beat} ELSE {})
             \cup (IF o.candidate THEN {Longest(Left(o.changed, Settle), pace)} ELSE {})
             \cup (IF UnsentStep(o) THEN {0} ELSE {})

SlotDeadlines(t) ==
    (IF t.observed THEN {Left(t.seen, Fresh)} ELSE {})
    \cup (IF t.candidate THEN {Left(t.publishAge, Pace)}
          ELSE IF ~Valid(t.published) THEN {}
          ELSE IF t.published.copies < t.published.limit THEN {0}
          ELSE IF t.observed THEN {Left(t.sentAge, StateBeat)} ELSE {})

Deadlines(s) ==
    {s.startup.in : i \in {j \in {0, 1} : s.startup.pending[j] /\ s.startup.tok[j] = 0}}
    \cup {0 : r \in Queued(s)}
    \cup (UNION {OpDeadlines(s.ops[i]) : i \in {j \in 1..OpSize : s.ops[j].id # 0}})
    \cup (UNION {SlotDeadlines(s.states[i]) : i \in {0, 1}})

\* tracker_events_deadline after its maintenance, capped by the idle wait
Deadline(s) ==
    IF s.nonce = 0 \/ Deadlines(s) = {} THEN Fallback
    ELSE LET first == CHOOSE d \in Deadlines(s) : \A e \in Deadlines(s) : d <= e
             wait == Longest(first, s.gate)
         IN  IF wait < Fallback THEN wait ELSE Fallback

AfterMaintain(s) == IF s.nonce = 0 THEN s ELSE Maintain(s)

(* ---- admission -------------------------------------------------------- *)
Counted(r) == [r EXCEPT !.copies = Older(@, NoticeCopies + 1)]

\* a startup observation lives its full TTL from its first admission
Spent(n) == n.copies >= n.limit

QueueReceipt(s, r, r0) ==
    LET n == Counted(r)
        first == r.copies = 0 /\ r.tok \in {s.startup.tok[0], s.startup.tok[1]}
    IN  IF r.tok # r0.tok THEN r
        ELSE IF Spent(n) THEN NoRec
        ELSE IF first THEN [n EXCEPT !.age = 0] ELSE n

OpReceipt(o, r0) ==
    LET mine == Valid(o.latest) /\ o.latest.tok = r0.tok
    IN  IF mine \/ (r0.op # 0 /\ o.id = r0.op)
        THEN [o EXCEPT !.latest = IF mine THEN Counted(@) ELSE @,
                       !.beat = OpBeat,
                       !.progress = IF r0.ev = "STEP" THEN 0 ELSE @]
        ELSE o

StateReceipt(t, i, r0) ==
    LET mine == Valid(t.published) /\ t.published.tok = r0.tok
        first == (r0.ev = RestOf(i) /\ r0.copies = 0) \/ (mine /\ t.published.copies = 0)
    IN  [t EXCEPT !.published = IF mine THEN Counted(@) ELSE @,
                  !.sentAge = IF mine THEN 0 ELSE @,
                  !.publishAge = IF first THEN 0 ELSE @]

PendingAsBefore(s, r0) == s.startup.pending
PendingAfter(s, r0) == [i \in {0, 1} |-> s.startup.pending[i] /\ s.startup.tok[i] # r0.tok]

Admitted(s, r0) ==
    [s EXCEPT !.gate = Spacing,
              !.selected = NoRec,
              !.startup.pending = PendingAfter(s, r0),
              !.queue = [i \in 1..QueueSize |-> QueueReceipt(s, @[i], r0)],
              !.ops = [i \in 1..OpSize |-> OpReceipt(@[i], r0)],
              !.states = [i \in {0, 1} |-> StateReceipt(@[i], i, r0)]]

(* ---- the system ------------------------------------------------------- *)
NoSession ==
    [queue |-> [i \in 1..QueueSize |-> NoRec], ops |-> [i \in 1..OpSize |-> NoOp],
     states |-> [i \in {0, 1} |-> NoSlot]]

NoStartup == [scheduled |-> FALSE, retired |-> FALSE, in |-> 0,
              pending |-> [i \in {0, 1} |-> FALSE], tok |-> [i \in {0, 1} |-> 0]]

Init ==
    /\ store = [queue |-> NoSession.queue, ops |-> NoSession.ops, states |-> NoSession.states,
                startup |-> NoStartup, nonce |-> 1, entropyFailed |-> FALSE, epoch |-> 1,
                serial |-> 0, nextOp |-> 0, gate |-> 0, notify |-> FALSE, selected |-> NoRec,
                queueTurn |-> 1, opTurn |-> 1, stateTurn |-> 0]
    /\ pc = "run" /\ wakeIn = 0 /\ sem = FALSE /\ owed = FALSE /\ rotating = FALSE /\ frame = 0
    /\ menu \in Menus
    /\ air = [boots |-> [i \in {0, 1} |-> {}], cancel |-> 0, intent |-> 0, ended |-> {}]

Produces(name) ==
    /\ name \in menu.names /\ menu.calls > 0 /\ menu' = [menu EXCEPT !.calls = @ - 1]
    /\ UNCHANGED <<pc, wakeIn, sem, rotating>>

Producer(name, new) ==
    /\ Produces(name) /\ store' = new /\ owed' = TRUE /\ UNCHANGED <<frame, air>>

RetractNothing(s) == s
RetractWarnings(s) ==
    [s EXCEPT !.queue = [i \in 1..QueueSize |-> IF @[i].ev = "WILL_WOM" THEN NoRec ELSE @[i]]]

\* tracker_event_notice: dropped whole without an identity
Posted(s, ev) ==
    LET u == IF ev \in Urgent
             THEN [s EXCEPT !.startup.retired = TRUE, !.startup.pending = [i \in {0, 1} |-> FALSE]]
             ELSE s
        v == IF ev = "WOM_CANCELLED"
             THEN RetractWarnings(u) ELSE u
    IN  Record(v, Materialize(v, 0, ev, NoValue, NoticeCopies))

Notice(ev) ==
    /\ Produces(ev)
    /\ store' = IF store.nonce = 0 THEN store ELSE Posted(store, ev)
    /\ owed' = TRUE
    /\ air' = [air EXCEPT
                 !.cancel = IF ev = "WOM_CANCELLED" /\ store.nonce # 0 THEN store.serial + 1 ELSE @,
                 !.intent = IF ev \in Urgent /\ store.nonce # 0 /\ @ = 0 THEN store.serial + 1 ELSE @]
    /\ UNCHANGED frame

ScheduleBoot(watchdog) ==
    Producer("boot",
        IF store.startup.scheduled \/ store.startup.retired \/ store.entropyFailed THEN store
        ELSE [store EXCEPT !.startup = [scheduled |-> TRUE, retired |-> FALSE, in |-> BootDelay,
                                        pending |-> [i \in {0, 1} |-> i = 0 \/ watchdog],
                                        tok |-> @.tok],
                           !.notify = TRUE])

Accept ==
    Producer("accept",
        IF store.nonce = 0 THEN store
        ELSE LET i == OpVictim(store) IN PublishOp(Allocate(store, FALSE), i, "ACCEPTED", NoValue, NoticeCopies))

Begin(auto) ==
    Producer("begin",
        IF store.nonce = 0 THEN store
        ELSE LET i == OpVictim(store)
                 s == [Allocate(store, auto) EXCEPT !.ops[i].phase = Began, !.ops[i].changed = 0,
                                                    !.notify = TRUE]
             IN  IF auto THEN s ELSE PublishOp(s, i, "BEGIN", Began, 1))

\* cal_event_start, for an operation its owner still holds by id
Start(id) ==
    Producer("start",
        LET on == {i \in OpSlot(store, id) : store.ops[i].active}
        IN  IF on = {} THEN store
            ELSE LET i == CHOOSE j \in on : TRUE
                 IN  PublishOp([store EXCEPT !.ops[i].phase = Began], i, "BEGIN", Began, 1))

Retry == <<3, 1>>
Step(id, phase) ==
    Producer("step",
        LET on == {i \in OpSlot(store, id) : store.ops[i].active}
        IN  IF on = {} THEN store
            ELSE LET i == CHOOSE j \in on : TRUE
                     o == store.ops[i]
                     p == IF phase = Retry THEN [o EXCEPT !.retry = 0] ELSE o
                 IN  IF phase = Retry /\ o.retry < Fresh THEN store
                     ELSE IF o.phase = phase THEN [store EXCEPT !.ops[i] = p]
                     ELSE [store EXCEPT !.notify = @ \/ ~o.candidate,
                                        !.ops[i] = [p EXCEPT !.latest = IF UnsentStep(o) THEN NoRec ELSE @,
                                                             !.phase = phase, !.changed = 0,
                                                             !.candidate = TRUE]])

\* a storage error supplements an operation that has already ended
StorageError(id) ==
    Producer("storage",
        IF OpSlot(store, id) = {} THEN store
        ELSE Record(store, Materialize(store, id, "STORAGE", NoValue, NoticeCopies)))

SetCompletionReason(id) ==
    Producer("reason",
        LET on == {i \in OpSlot(store, id) : store.ops[i].active}
        IN  IF on = {} THEN store ELSE [store EXCEPT !.ops[CHOOSE j \in on : TRUE].why = 1])

EndedInProgress(s, i) == [s EXCEPT !.ops[i].active = FALSE, !.ops[i].latest = NoRec]
Ended(s, i) ==
    [s EXCEPT !.ops[i].active = FALSE, !.ops[i].candidate = FALSE, !.ops[i].latest = NoRec]

End(id, success) ==
    Producer("end",
        LET on == {i \in OpSlot(store, id) : store.ops[i].active}
        IN  IF on = {} THEN store
            ELSE LET i == CHOOSE j \in on : TRUE
                     o == store.ops[i]
                     done == Ended(store, i)
                 IN  IF Hidden(o) /\ ~success THEN done
                     ELSE PublishOp(done, i, "END", IF success THEN <<4, o.why>> ELSE <<4, 2>>, NoticeCopies))

Reject ==
    Producer("reject",
        IF store.nonce = 0 THEN store
        ELSE LET i == OpVictim(store)
             IN  PublishOp([Allocate(store, FALSE) EXCEPT !.ops[i].active = FALSE],
                           i, "REJECTED", NoValue, NoticeCopies))

\* tracker_event_set_state keeps its checks; the sensor is its only user today
Capture ==
    /\ "observe" \in menu.names /\ frame # store.epoch
    /\ frame' = store.epoch
    /\ UNCHANGED <<store, pc, wakeIn, sem, owed, rotating, menu, air>>

Seen(s, i, val) ==
    SetState([s EXCEPT !.states[i].observed = TRUE, !.states[i].seen = 0], i, val)

\* an unsupported fusion back end is a state nobody observes
Observed(s, o) ==
    LET t == IF o.tracker = "none" THEN s ELSE Seen(s, 0, <<IF o.tracker = "rest" THEN 1 ELSE 0, 0>>)
    IN  CASE o.fusion = "unsupported" -> SetState([t EXCEPT !.states[1].observed = FALSE], 1, <<3, 0>>)
          [] o.fusion = "none" -> t
          [] OTHER -> Seen(t, 1, <<IF o.fusion = "rest" THEN 1 ELSE 0, 1>>)

Observe(o) ==
    Producer("observe",
        IF store.nonce = 0 \/ frame # store.epoch THEN store ELSE Observed(store, o))

Invalidated(s, i) ==
    LET t == [s EXCEPT !.states[i].observed = FALSE, !.states[i].published = NoRec,
                       !.states[i].candidate = FALSE]
    IN  IF s.nonce = 0 THEN t
        ELSE SetState(t, i, <<2, IF i = 1 THEN s.states[1].val[2] ELSE 1>>)

SensorInvalidate ==
    Producer("invalidate", [Invalidated(Invalidated(store, 0), 1) EXCEPT !.epoch = @ + 1])

NotifyUnheard ==
    /\ owed
    /\ owed' = FALSE
    /\ store' = [store EXCEPT !.notify = FALSE]
    /\ UNCHANGED <<pc, wakeIn, sem, rotating, frame, menu, air>>
Notify ==
    /\ owed
    /\ owed' = FALSE
    /\ sem' = (sem \/ store.notify)
    /\ store' = [store EXCEPT !.notify = FALSE]
    /\ UNCHANGED <<pc, wakeIn, rotating, frame, menu, air>>

(* An identity change disables publication, waits for entropy, then clears *)
(* everything but a startup observation that was never admitted.           *)
SessionChange ==
    /\ "session" \in menu.names /\ ~rotating /\ ~store.entropyFailed /\ store.epoch <= MaxEpoch
    /\ rotating' = TRUE
    /\ store' = [store EXCEPT !.nonce = 0]
    /\ UNCHANGED <<pc, wakeIn, sem, owed, frame, menu, air>>

SessionFresh(ok) ==
    /\ rotating /\ rotating' = FALSE
    /\ store' = [store EXCEPT !.queue = NoSession.queue, !.ops = NoSession.ops,
                              !.states = NoSession.states, !.gate = 0,
                              !.startup.tok = [i \in {0, 1} |-> 0],
                              !.notify = \E i \in {0, 1} : store.startup.pending[i],
                              !.selected = NoRec, !.epoch = @ + 1,
                              !.nonce = IF ok THEN store.epoch + 1 ELSE 0,
                              !.entropyFailed = ~ok]
    /\ UNCHANGED <<pc, wakeIn, sem, owed, frame, menu, air>>

(* ---- the connection thread -------------------------------------------- *)
Select ==
    /\ pc = "run"
    /\ LET s == Maintain(store)
           picks == IF s.nonce = 0 \/ s.gate > 0 THEN {} ELSE Picks(s)
       IN  \/ /\ picks # {} /\ pc' = "offer"
              /\ \E c \in picks : store' = [c.s EXCEPT !.selected = c.r]
           \/ /\ picks = {} /\ pc' = "idle"
              /\ store' = s
    /\ UNCHANGED <<wakeIn, sem, owed, rotating, frame, menu, air>>

\* tracker_events_complete, success: the radio took the packet
Admit ==
    /\ pc = "offer" /\ pc' = "run"
    /\ LET r == store.selected
           live == Valid(r) /\ r.nonce = store.nonce
       IN  /\ store' = IF live THEN Admitted(store, r) ELSE store
           /\ air' = IF ~live THEN air
                     ELSE [air EXCEPT
                       !.ended = IF r.ev = "END" THEN @ \cup {<<r.op, r.tok>>} ELSE @,
                       !.boots = [i \in {0, 1} |->
                           IF r.ev = (IF i = 0 THEN "BOOT" ELSE "WATCHDOG")
                           THEN @[i] \cup {r.nonce} ELSE @[i]]]
    /\ UNCHANGED <<wakeIn, sem, owed, rotating, frame, menu>>

Refuse ==
    /\ pc = "offer" /\ pc' = "run"
    /\ store' = IF Valid(store.selected) /\ store.selected.nonce = store.nonce
                THEN [store EXCEPT !.gate = Refused, !.selected = NoRec] ELSE store
    /\ UNCHANGED <<wakeIn, sem, owed, rotating, frame, menu, air>>

\* a composite that cannot be built returns before it completes its event
Abandon ==
    /\ pc = "offer" /\ pc' = "run"
    /\ UNCHANGED <<store, wakeIn, sem, owed, rotating, frame, menu, air>>

Idle ==
    /\ pc = "idle"
    /\ LET s == AfterMaintain(store)
       IN  /\ store' = s
           /\ wakeIn' = Deadline(s)
           /\ pc' = IF Deadline(s) = 0 THEN "run" ELSE "asleep"
           /\ sem' = (sem /\ Deadline(s) > 0)
    /\ UNCHANGED <<owed, rotating, frame, menu, air>>

Wake ==
    /\ pc = "asleep" /\ (sem \/ wakeIn = 0)
    /\ pc' = "run" /\ sem' = FALSE /\ wakeIn' = 0
    /\ UNCHANGED <<store, owed, rotating, frame, menu, air>>

(* ---- time ------------------------------------------------------------- *)
AgedRecord(r) == IF Valid(r) THEN [r EXCEPT !.age = Older(@, TTL)] ELSE r

\* a stamp no comparison will look at again before it is renewed stands at 0
AgedOp(o) ==
    IF o.id = 0 THEN o
    ELSE [o EXCEPT !.born = IF o.active /\ Hidden(o) THEN Older(@, Fresh) ELSE 0,
                   !.changed = IF o.candidate THEN Older(@, Settle) ELSE 0,
                   !.beat = Sooner(@), !.progress = Older(@, Pace), !.retry = Older(@, Fresh)]

AgedSlot(t) ==
    [t EXCEPT !.seen = IF t.observed THEN Older(@, Fresh) ELSE 0,
              !.publishAge = Older(@, Pace), !.sentAge = Older(@, StateBeat),
              !.published.age = IF t.published.copies < t.published.limit
                                THEN Older(@, TTL) ELSE @]

Aged(s) ==
    [s EXCEPT !.gate = Sooner(@), !.startup.in = Sooner(@),
              !.queue = [i \in 1..QueueSize |-> AgedRecord(@[i])],
              !.ops = [i \in 1..OpSize |-> AgedOp(@[i])],
              !.states = [i \in {0, 1} |-> AgedSlot(@[i])]]

\* the radio and the deadline are consulted well within a tick; the rest of
\* the loop may take long (a search, an update, a lost connection)
Tick ==
    /\ pc \in {"run", "asleep"}
    /\ store' = Aged(store)
    /\ wakeIn' = Sooner(wakeIn)
    /\ UNCHANGED <<pc, sem, owed, rotating, frame, menu, air>>

Ids == 1..store.nextOp

Produce ==
    \/ \E ev \in (PowerEvents \ {"BOOT", "WATCHDOG"}) \cup {"BUTTON"} : Notice(ev)
    \/ \E w \in BOOLEAN : ScheduleBoot(w)
    \/ Accept \/ Reject
    \/ \E auto \in BOOLEAN : Begin(auto)
    \/ \E id \in Ids : Start(id) \/ StorageError(id) \/ SetCompletionReason(id)
    \/ \E id \in Ids, phase \in {<<2, 0>>, Retry} : Step(id, phase)
    \/ \E id \in Ids, ok \in BOOLEAN : End(id, ok)
    \/ \E o \in Observations : Observe(o)
    \/ SensorInvalidate

Complete == Admit \/ Refuse \/ Abandon
Connection == Select \/ Complete \/ Idle \/ Wake

Next ==
    \/ Produce \/ Capture \/ Notify
    \/ SessionChange \/ \E ok \in BOOLEAN : SessionFresh(ok)
    \/ Connection
    \/ Tick

Spec == Init /\ [][Next]_vars

\* The thread leaves each of its places (only its own steps move pc, and one
\* of them is enabled there), the clock runs, entropy answers, and a radio
\* asked again and again takes a packet.
Leaves(place) == pc = place /\ (place = "asleep" => sem \/ wakeIn = 0)
                    /\ pc' \in {"run", "offer", "idle", "asleep"} \ {place}

Fairness ==
    /\ \A place \in {"run", "offer", "idle", "asleep"} : WF_pc(Leaves(place))
    /\ SF_vars(Admit) /\ WF_vars(Tick)
    /\ WF_vars(\E ok \in BOOLEAN : SessionFresh(ok))

FairSpec == Spec /\ Fairness

(* ---- properties ------------------------------------------------------- *)
Records == [tok : Nat, ev : PowerEvents \cup {"none", "BUTTON", "ACCEPTED", "BEGIN", "STEP",
                                             "END", "REJECTED", "STORAGE", "TRACKER_REST", "FUSION_REST"},
            op : Nat, val : (0..4) \X (0..2),
            copies : 0..(NoticeCopies + 1), limit : {0, 1, NoticeCopies}, age : 0..TTL, nonce : Nat]

\* Every timestamp stays within the largest interval the code compares it
\* with, copies never run past the repeat budget in the queue.
TypeOK ==
    /\ pc \in {"run", "offer", "idle", "asleep"} /\ wakeIn \in 0..Fallback
    /\ {sem, owed, rotating} \subseteq BOOLEAN
    /\ store.queue \in [1..QueueSize -> Records]
    /\ \A i \in 1..QueueSize :
          Valid(store.queue[i]) => store.queue[i].copies < store.queue[i].limit
    /\ \A i \in 1..OpSize :
          LET o == store.ops[i]
          IN  /\ o.latest \in Records /\ o.id \in 0..store.nextOp
              /\ o.beat \in 0..OpBeat /\ o.progress \in 0..Pace /\ o.changed \in 0..Settle
    /\ \A i \in {0, 1} :
          LET t == store.states[i]
          IN  /\ t.published \in Records /\ t.seen \in 0..Fresh
              /\ t.publishAge \in 0..Pace /\ t.sentAge \in 0..StateBeat
    /\ store.gate \in 0..Longest(Spacing, Refused) /\ store.startup.in \in 0..BootDelay

\* tracker_events_deadline and choose() were written apart: with the gate
\* open, the deadline is "now" exactly when a selection would find a record.
\* One way is a busy loop of the connection thread, the other lost work.
DeadlineIsWork ==
    LET s == Maintain(store)
    IN  s.nonce # 0 /\ s.gate = 0 => (0 \in Deadlines(s) <=> Picks(s) # {})

\* While the thread sleeps and nobody is about to wake it, no record may be
\* sent yet: what a producer added woke it, what time made due ended its
\* wait.  A boot observation that an identity change put back is the
\* exception: no caller of tracker_events_session_changed calls notify, and
\* it waits for the next producer or the end of the wait.
NoOversleep ==
    LET s == Maintain(store)
        called == sem \/ (owed /\ store.notify)
        putBack == store.notify /\ \E i \in {0, 1} : StartupDue(store, i)
    IN  pc = "asleep" /\ ~called /\ ~putBack /\ s.nonce # 0 /\ s.gate = 0 /\ Picks(s) # {}
            => wakeIn = 0

\* The receiver hears of one physical boot under one identity only, and
\* never through a record younger than a shutdown or reboot intent; until it
\* was admitted, the observation announced under this identity stays in the
\* queue: no TTL, cancellation or eviction takes it.
StartupOnce ==
    /\ \A i \in {0, 1} :
          store.nonce # 0 /\ store.startup.pending[i] /\ store.startup.tok[i] # 0
              => \E r \in Queued(store) : r.tok = store.startup.tok[i]
    /\ \A i \in {0, 1} : Cardinality(air.boots[i]) <= 1
    /\ air.intent # 0 =>
          \A r \in Queued(store) : r.ev \in {"BOOT", "WATCHDOG"} => r.tok < air.intent

\* Once wake-on-motion was called off, no older warning of it is selected.
WarningRetracted ==
    [][store'.selected # store.selected /\ store'.selected.ev = "WILL_WOM"
          => store'.selected.tok > air.cancel]_vars

\* A queued power notice goes only by its last admission, its age, its
\* cancellation, a later power notice in its slot or a change of identity.
PowerNoticesStay ==
    [][\A i \in 1..QueueSize :
          LET r == store.queue[i]
              n == store'.queue[i]
          IN  Valid(r) /\ Power(r) /\ n.tok # r.tok =>
                \/ r.copies + 1 >= r.limit /\ store.selected.tok = r.tok
                \/ r.age >= TTL
                \/ r.ev = "WILL_WOM" /\ air'.cancel # air.cancel
                \/ Power(n)
                \/ rotating]_vars

\* END is the last word on an operation: once the receiver has it, nothing
\* younger of that operation is queued, kept for a heartbeat or selected,
\* a storage error excepted.
EndIsFinal ==
    \A e \in air.ended :
        \A r \in Queued(store) \cup {store.selected} \cup {store.ops[i].latest : i \in 1..OpSize} :
            r.op = e[1] /\ r.ev # "STORAGE" => r.tok <= e[2]

\* A scheduled boot observation is admitted, retired by an intent, or the
\* identity is lost for good.
StartupDelivered ==
    \A i \in {0, 1} :
        store.startup.pending[i] ~> (~store.startup.pending[i] \/ store.entropyFailed)
=============================================================================
