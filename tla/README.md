# A verification project for the SlimeNRF tracker firmware

TLA+ models, TLC configurations and TLAPS proofs about the firmware in `src/`
(a SlimeVR motion tracker on Nordic nRF52/nRF54, Zephyr RTOS). Paths below are
relative to the repository's own `src/` directory: `system/power.c` is
`src/src/system/power.c` in this tree.

The models are about the parts of the firmware where several threads, an
unreliable radio, failing hardware and resets meet: who may put the tracker to
sleep, switch it off or reboot it; how an over-the-air (OTA) update changes the
program in flash without losing the tracker; how events, commands and pairing
cross the radio; what survives a reset; how long a heater stays on; and how
calibration coefficients reach the fusion, retained memory and flash together.

## 1. The system

### 1.1 Threads

| thread | code | what it does here |
| --- | --- | --- |
| power thread | `power_thread`, `system/power.c:875` | claims one power request at a time, runs it, watches battery and dock; wakes at least every 100 ms |
| sensor thread | `sensor/sensor.c` | samples, fuses, decides when the tracker is idle, plans and withdraws wake-on-motion (WOM) sleep, applies calibration candidates, drives the heater |
| connection thread | `connection/connection.c` | serves the OTA session, drains the OTA receive queue and the event queue, sends packets, polls the channel search |
| ESB thread | `connection/esb.c` | pairs, executes what the receiver asked for |
| calibration worker | `sensor/calibration/calibration.c` | runs collectors, writes candidates, ends heated sessions |
| consoles, buttons, remote commands | `console.c`, `system/status.c`, `connection/esb.c` | ask for power-off, reboot, sleep; change the sleep timeout; abort an update |
| radio interrupt | `connection/esb.c` | fills the OTA receive queue, reads PONGs and commands, requests aborts |

### 1.2 Components

Every component, with its sources and how far it is modelled, is an entry of
`PROJECT.json`. Those that keep state which other components depend on:

| component | state | operations | hard behaviours | what makes it correct |
| --- | --- | --- | --- | --- |
| Power request mailbox (`system/power_request.h`) | one slot: request, state, wrapping generation; the OTA reboot reservation; `physical_started` | submit, cancel WOM, begin, finish, start WOM, start physical, reserve and resolve an OTA reboot | a claim cancelled and replaced while it runs; a generation that wraps | a completion hits only its own claim; a physical shutdown and a reservation exclude each other |
| Power owner and sleep policy (`system/power.c`) | the `wom_*` plan, the readiness budget, `power_plan_lock` | plan, withdraw and announce sleep, change the timeout, `sys_WOM`, `sys_system_off`, `sys_system_reboot`, the private battery/dock shutdown | guards read without their lock and used later; steps that fail after the point of no return | no shutdown over an update; no sleep without its notice; accepted requests happen |
| OTA session (`system/esb_ota.c`) | `struct ota_context`, `ota_reboot_pending`, `ota_abort_requested` | BEGIN, DATA, VERIFY, ACTIVATE, abort, recovery of a failed or silent session | lost, repeated, reordered and stale packets; flash operations that fail; abort and timeout racing a late packet | what is activated is the image that was begun; a failed session ends in a reboot |
| Flash staging and RAM copier (`system/esb_ota_flash.c`) | page buffer, page address, last erased page; flash; the bootloader settings page | flush with an advance erase, slot erase, copy and reset from RAM | an advance erase that fails, image ends at page boundaries, source and target overlapping, power loss | staged bytes are in place; nothing outside the area of the image is touched, and that area begins where BEGIN has checked; settings never certify a mixed application |
| OTA RAM engine (`system/ota_ram_engine.inc`) | its own radio loop and page writer | receive, verify, activate, recover | runs with the application already being erased | ends in a whole image or in the bootloader |
| Sensor life cycle (`sensor/sensor.c`) | `main_suspended`, thread handle, device state | suspend, resume, scan, restart, runtime magnetometer change | a suspension shared by all its owners, a thread aborted or suspended inside a critical section | sensors stay suspended while somebody needs them to |
| Radio link (`connection/esb.c`, `channel_control.c`) | pairing, channel and its proof, the outstanding PING, the command and the sleep-timeout transaction received, what is stored | initialize, pair, search, hop, PING/PONG, execute, store | late PONGs of another channel, an interrupt between two reads, a receiver that repeats until answered, sessions restarted under both threads | a proof is of this channel; outcomes and commands are not mixed up; a transaction runs once; only proven addresses and channels reach flash |
| TDMA (`connection/tdma.c`) | slot, epoch, clock estimate | configure, wait for a slot | a wait computed from an old epoch | no transmission outside the slot |
| Tracker events (`connection/tracker_events.c`) | the event queue, operations, rest states, the boot observation, the session nonce | record, coalesce, evict, select, admit or refuse, deadline, identity change | completion of a record that was replaced meanwhile; a full queue; two long functions that must agree on what is due | no busy loop and no oversleep; the receiver hears of a boot once; withdrawn warnings and ended operations stay so |
| Warm store (`system/system.c`, `retained.c`) | retained memory and its CRC, the dirty table, receipts of a heated session, NVS, the reboot counter | mark, write, flush, clear, restore | reset or failing write between any two operations; a full dirty table | nothing handed over is forgotten; success means stored |
| Watchdog (`system/watchdog.c`) | channels, pauses, boot counter | feed, pause, resume | a resume missed on an error path | a hung thread resets the tracker, a paused one does not |
| Heater (`system/heater.c`, `sensor/calibration/tcal_heated.c`) | the hardware lease (TIMER4), the session, its place in the calibration slot, latches | start, sample, renew, stop, off, finalize; close for a shutdown, an update, a magnetometer change | the CPU stalls inside a renewal; four threads end a session; readings published late | heat never outlives its lease or its owner; the slot is given back exactly when it is off |
| Calibration (`sensor/calibration/calibration.c`, `cal_imu.c`, `imu_calibration.c`) | request slot and generation, the one candidate transaction, receipts, live, retained and stored coefficients, the fusion's frame | request, collect, submit, apply, consume, persist, reset, reset-all, prepare power-down | a collector overtaken by a reset, two candidates in a row, power-down in the middle of a write | what the user is told is true; nothing outdated is written; a kept fusion state fits its coefficients |

Interactions. The sensor thread, the users and the OTA session are producers
of the mailbox and the power thread is its only consumer. `power_plan_lock`
(a mutex) protects the plan and makes plan and mailbox change together; the
mailbox has a spinlock of its own. The OTA session reserves the mailbox before
it publishes itself (BEGIN), before it touches the boot configuration
(ACTIVATE) and before it gives up (abort, recovery); the power owner reads the
session's flags, without any lock, as a veto. `main_imu_suspend` calls back
into the power owner to withdraw a planned sleep, and is itself called by the
power owner and by the OTA session. Announcements (`WILL_WOM`, `WOM_CANCELLED`,
...) go to the event queue. Heater and calibration share one request slot; the
candidate transaction is handed from worker to sensor thread and back; both
write through the warm store, whose receipts tell a heated session what became
of its model. The radio link executes power and calibration commands by asking
the owners above.

The hazards this gives rise to are listed with their lines under `hazards` in
`PROJECT.json`, each with the properties below that would catch it, or with
the reason why none does.

### 1.3 Left out for good

Sensor drivers and bus scans (register sequences of devices), sensor fusion and
the numerical fits (floating point, out of TLC's reach), LED patterns, the
radio capture and raw collection recorders, console and HID text, the parser of
the customer record, start-up code. They have no concurrent state of their own
on which the properties here depend, or are not finite-state. Most of the
repository's lines are of this kind, so what is modelled is a small share of
them: the share in which threads meet.

## 2. The modules

```
PowerMailbox  <-- PowerOwner  <-- PowerOwnerMC           PowerArbiter  (abstract)
                      ^    \______ INSTANCE, refinement ______/
               PowerOwnerProofs
EsbOta <-- EsbOtaMC, EsbOtaProofs        OtaCopier <-- OtaCopierProofs
TrackerEvents <-- TrackerEventsMC, TrackerEventsProofs
RadioLink <-- RadioLinkMC, RadioLinkProofs
WarmStore <-- WarmStoreMC, WarmStoreProofs
Heater <-- HeaterProofs                  Calibration <-- CalibrationProofs
```

### 2.1 PowerMailbox

`power_request.h`, one operator per helper. Each C helper holds the spinlock
from beginning to end, so it is a function from a mailbox to a mailbox
(`MbSubmit`, `MbBegin`, `MbFinish`, ...); its return value is an operator of its
own (`MbSubmitOk`, `MbClaimed`, ...) evaluated in the mailbox before the call.
`GenMod` is the size of the generation counter, 2^32 in the code and any
positive number in the proofs.

### 2.2 PowerOwner

The power owner with all its competitors. Variables are the code's: `mb` is
`power_requests`, `plan` the `wom_*` variables, `budget` the readiness budget,
`lock` the holder of `power_plan_lock`; `otaState`, `session`, `pending`,
`abortReq` are the four flags of `esb_ota.c`, `suspended` is `main_suspended`.
`pc` is where the power thread is, with the locals of its iteration in `req`,
`gen`, `veto` and `consumed`; `conn` is where the connection thread is inside an
OTA handler. `env` holds the flags the power owner only reads: update
suppression, calibration or test mode, link readiness, and a drained battery
or an inserted dock. `wire` is the last power notice queued for the receiver.

Granularity. A critical section that only uses what its lock protects is one
step. Those of `sys_WOM` and `sys_system_off` read the OTA session and
`main_suspended`, which the lock does not protect, and act on them later:
they are an entry step (`WomEnter`, `OffEnter`) that reads the veto and a gate
step (`WomStale`, `WomGiveUp`, `WomEarly`, `WomCommit`, `OffBlocked`, `OffCommit`)
that acts on it, with the lock held in between and every other thread free to
move. `power_request_begin` and `power_request_finish` are steps of their own,
so a claim can be cancelled, replaced and its generation reused while the owner
works on it. In `esb_ota.c` each access to a flag that the power owner reads is
a step of its own, in the order of the code (reserve, publish, release; reserve,
publish the handoff, clear, release).

`configure_system_off`, `sensor_setup_WOM` and the suspension of the sensors
succeed or fail (`ConfigureFails`, `WomSetupFails`, `BeginFails`); a failed
`configure_system_off` has or has not already suspended the sensors. When the
power owner starts a reboot from inside `sys_WOM`, `pc` is `reboot` while `req`
is still the sleep that was claimed.

Idealisations. A forced sleep that a user asks for is one step: its critical
section reads a veto too, but whatever could change it meanwhile must take the
lock or a reservation afterwards and then withdraws the plan. Suspension by a
scan, by a magnetometer change or by a retrim is not modelled (only its trace in
`WomSetupFails`), nor is the sensor thread's being stopped after a failed
wake-up setup: it may plan again, which adds behaviours. Packets reach the
handlers here only as far as ownership goes: `Verify` stands for the data
phase, which is the subject of `EsbOta`.

### 2.3 PowerArbiter

What all of this is for, in two variables: the hardware has one holder. It is
free, reserved by an update or being shut down, and the tracker leaves it off,
asleep or reset; once an update has been prepared, the only way
to leave is a reset. `PowerOwner` implements it under

```
holder   <- the way the tracker left, if it is no longer powered;
            "shutdown" if physical_started; "ota" if a reboot is RESERVED;
            "free" otherwise
prepared <- the OTA reboot is READY
```

### 2.4 EsbOta

The OTA session and the page writer, in the two builds that stage an image: the
legacy one, which places it below the settings storage and erases each page in
advance, and the MCUboot one, which erases its slot at BEGIN. Handlers run to
completion on one thread and are one step each; what can happen between packets
is everything else: aborts, the service loop's recovery, time, a reboot or
shutdown becoming physical, failing or completing. The receiver and the radio
are the most general ones: any packet of any image, at any time. That covers
loss, repetition, reordering, the receive queue that drops when it is full and
packets of another update. Images are sequences of units, `<<i, k>>` being the
k-th of image `i`, so a byte in the wrong place or of the wrong image is visible.
Programming a page that was not erased leaves garbage. CRC-32 is modelled by
what it stands for: it matches if and only if the staged content is the image
that was begun. The sequence number does not wrap: BEGIN admits no image that
long.

The geometry is the code's, and so is its mistake. `RunningEnd`, with which BEGIN of
a legacy build compares the staging base, is `_flash_used`, the *size* of the running
firmware, raised to `OTA_FLASH_BASE`; where that firmware lies (`Firmware`, from its
base, as long as its size) is something else. The two are separate constants of the
model, `FlashBase` and `FlashUsed`, in pages begun. An MCUboot build stages in a slot
of its own, which lies above the running one (`SlotAssumption`: devicetree
partitions do not overlap).

### 2.5 OtaCopier

`ota_flash_copy_from_ram`: page loop with its skip of equal pages, erase and
word-by-word write, then the settings page (erased, all words but the first,
then the first, then read back) and the reset or the UF2 recovery. Staging area
and application may overlap. Power may be lost before any step.

### 2.6 TrackerEvents

`tracker_events.c` and the loop of the connection thread that drains it. Each
function under `event_lock` is one step on the record `store`; the connection
thread's places (`run`, `offer`, `idle`, `asleep`) are between its calls, where
producers, time and identity changes come in. Timestamps are ages, saturated
where no comparison tells a larger one apart, so the model needs no bound on
uptime. A record is found again by its token, as in the code, after it may have
been coalesced, evicted or cleared. The radio accepts or refuses each offer.
`Deadlines` and `Picks` are translated separately, from
`tracker_events_deadline` and `choose`, because the code writes them twice.
Left out: event sequence numbers, the wire encoding, drop counters.

### 2.7 WarmStore

The storage lock is held for a whole transaction, so one thread at a time runs a
*script*: the sequence of storage operations a caller makes (a heated session's
publication, an accelerometer write, a flush, a clear, ...). Every operation is
a step, because a reset may come between any two, keep or lose retained memory,
and find its CRC good or bad. Receipts are delivered after the lock is released.
A value is the stamp of the change that made it. NVS writes are atomic.

### 2.8 RadioLink

Four actors: the radio interrupt, the connection thread (search, PING), the ESB
thread (pairing, execution) and the console. What `esb_radio_lock` protects is
one step; `esb_reset_pair` and the console's commands do not hold it where the
code does not, and the interrupt runs between any two steps outside `irq_lock`,
so flag and data of a PING are read in two steps. The PONG in the receive FIFO is
a variable of its own (`rx`), so it can be decoded after a hop. `history` keeps
what was answered, proven, executed and run, for the properties. Data packets,
retransmission, the clock and loss accounting are left out; so is the search's
timing, whose order (`SearchOrder`) is checked over the real band and the real
table of 41 channels.

### 2.9 Heater

TIMER4 with its two compares counts on its own (`Tick`); the CPU's write is five
steps, so it may stall after any of them with the output driven. Between the last
look at the lease (`Check`) and the PWM (`Drive`) the timer may fire: the output is
then started late, by a CPU that does not know, and the next compare ends it again,
which is what the comment at `heater.c:299-303` says. Everything else
that touches the hardware runs under `calibration_request_lock` and is one step.
Time is in ticks of a third of the lease. `Change`,
`PowerOff` and `OtaBegin` list the steps of the owners that stop the sensors. A
temperature is only fresh or stale, low or high: the controller's arithmetic
is a choice. Idealisations: plug removal is merged with the time limit; the
callers of a magnetometer change outrank the sensor thread, so it cannot run
between their abort and their mark; two concurrent changes of the sensors and a
failing `heater_init` are left out.

### 2.10 Calibration

A *job* is an accepted request or reset, numbered as it is accepted, and
coefficients are the number of the job they come from, so a mixture is visible.
Collector, worker, sensor thread, the power thread's preparation and reset-all
are five control loops over the one transaction `pending`, the receipt that is
set apart while the fusion follows (`receipt`), and `applied`, `ram` and `flash`.
The fusion's state is the number of the frame it works on (`base`). The build is
the one with T-Cal and the accelerometer matrix and without heated T-Cal.
Idealisations: sensors are suspended between frames (the code waits five seconds
for that); closing the slot is merged with the first application of a
power-down; the release of `persistence_lock` with the end of the warm
transaction; automatic T-Cal stores temperature and trim only, and what it did not
promise to keep is remembered in `log.fleeting`, so that `Backed` excuses nothing
else from being stored; a partial success counts as success for the session's LED. A sensor retrim that ends
during a power-down resumes the sensor thread under it, since one
`main_suspended` flag serves both; the model has that step and ends there
(section 6).

### 2.11 Names with a mutant

An operator that is preceded by the word *mutant* in its comment is a plausible
bug (a dropped guard, a swapped order, a missing reset). It is used nowhere in
the specification; substituting it for the operator it stands beside must make
the property it is listed with in `PROJECT.json` fail.

## 3. The runs

Each run takes seconds to three minutes. Deadlock is checked in the runs of
`PowerOwner` and `EsbOta`. It is not in the others, where the system may stop: the
copier's program ends, menus and requests run out, a radio whose
initialization has failed is not opened again.

| run | question | properties |
| --- | --- | --- |
| `PowerOwnerWom` | Is every sleep announced, and every announcement true, with the clock in the model? | `AnnouncementStands`, `SleepIsAnnounced` |
| `PowerOwnerOta` | Does an update own the tracker against users, battery/dock and sleep, and does what was accepted happen? | `NoShutdownDuringOta`, `PlanIsBacked`, `OtaRebootIsOwed`, `OtaStaysActive`, `ImplementsArbiter`, `OffHappens`, `UpdateEnds` |
| `EsbOta` | Does the session stage, verify and activate what it was begun with? | `StagedInPlace`, `ActivatedIsWhole`, `StagingOnly`, `FirmwareSpared` |
| `OtaCopier` | Does the copy survive overlap and power loss? | `CopyIsExact`, `SettingsAreTrue` |
| `TrackerEvents` | Are the right events sent, once, and none left behind? | `DeadlineIsWork`, `NoOversleep`, `StartupOnce`, `EndIsFinal`, `WarningRetracted`, `PowerNoticesStay`, `StartupDelivered` |
| `WarmStore` | Does a value survive failing writes, and does a receipt tell the truth? | `NothingForgotten`, `SuccessIsStored`, `FlushAnswers` |
| `RadioLink` | Do late and repeated packets confirm, store or execute anything they should not? | `ProofIsHere`, `StoresProven`, `OutcomeIsWhole`, `AckedWasExecuted`, `RunsOnce` |
| `Heater` | Is heat bounded and owned, wherever a thread stalls? | `HeatIsLeased`, `HeatHasOwner`, `SlotMatchesSession`, `ColdWhenHeld`, `SessionEnds` |
| `Calibration` | Do user, fusion, retained memory and flash agree on a calibration? | `VerdictIsTrue`, `NothingOutdated`, `AcceptedSurvives`, `SavedFusionFits`, `EveryoneIsAnswered` |
| `PowerOwnerSticky`, `WarmStoreLost`, `EsbOtaOverlap` | Does the code do what its comments say? It does not: section 6. | `PhysicalShutdownCompletes`, `FlushMakesDurable`, `FirmwareUntouched` |

What the properties say:

- `SleepIsAnnounced`: no interleaving of planning, withdrawing, announcing and
  time lets a sleep pass its gate unless the last notice is a `WILL_WOM` that is
  at least the lead time old.
- `AnnouncementStands`: as long as no hardware step has failed, a `WILL_WOM`
  that is the last thing the receiver heard stands for a live plan or a sleep
  under way, whoever withdrew whatever before.
- `NoShutdownDuringOta`: the veto read on entry is still good at the gate, and
  stays so until the tracker has gone.
- `PlanIsBacked`: a planned sleep always has its request in the mailbox.
- `OtaRebootIsOwed`, `OtaStaysActive`: neither a failed reboot, nor a retry, nor
  a deferred power-off, nor an abort lets a prepared update lose its reboot or an
  active update look inactive before the tracker has gone.
- `OffHappens`, `UpdateEnds`: no livelock between producers that keep asking and
  an owner that keeps retrying; no session is stuck.
- `StagedInPlace`, `ActivatedIsWhole`, `StagingOnly`: flash, page buffer and byte
  count are one gapless sequence; only the complete image is activated; no step
  changes a page outside the area its session's image is staged in, wherever BEGIN
  has put that area.
- `FirmwareSpared`: an MCUboot build never loses a page of the firmware it runs
  from, a legacy build none below what BEGIN takes for the end of that firmware.
  That this is not its end is section 6's.
- `CopyIsExact`, `SettingsAreTrue`: what has been copied is right,
  what is still to be copied is intact, and settings that make the bank valid
  exist only over a complete application.
- `DeadlineIsWork`, `NoOversleep`: the deadline is *now* exactly when a selection
  would find a record, and a thread asleep whom nobody is about to wake has no
  record it may send. The one exception is named in the property: a boot observation
  that an identity change put back (section 6).
- `StartupOnce`, `StartupDelivered`: the boot is told under one identity only,
  never younger than an intent to shut down, and is told in the end.
- `EndIsFinal`, `WarningRetracted`, `PowerNoticesStay`: nothing follows an
  operation's END, a withdrawn `WILL_WOM` is not selected, and no eviction or
  completion of another record removes a power notice.
- `NothingForgotten`, `SuccessIsStored`, `FlushAnswers`: a value handed over in
  this boot is in flash or its id is dirty; a session that is told *success* has
  exactly its model in flash; a session that asks gets a verdict, whether NVS
  works or not.
- `ProofIsHere`, `StoresProven`: no late PONG proves the next channel, and flash
  gets only a receiver that has answered and a channel that was proven.
- `OutcomeIsWhole`, `AckedWasExecuted`, `RunsOnce`: flag, result and token of an
  outcome belong together; what is acknowledged was executed with its value; a
  repeated transaction does not run again.
- `HeatIsLeased`, `HeatHasOwner`, `SlotMatchesSession`, `ColdWhenHeld`,
  `SessionEnds`: section 2.9's hazards, in this order: a stalled CPU, a session
  ended by another thread, a slot leaked or freed early, an admission reopened
  under an owner, a session nobody ends.
- `VerdictIsTrue`, `NothingOutdated`, `AcceptedSurvives`, `SavedFusionFits`,
  `EveryoneIsAnswered`: *success* is said of what is live, consumed and written;
  what a reset overtook is written nowhere; a power-down loses no candidate; a
  fusion state is kept only with the coefficients it was computed on; and all
  requests are answered.

### Bounds, and why they are enough

- `GenMod = 2`: the generation wraps after two requests, so every reuse of a
  generation that 2^32 requests would be needed for happens within a few steps.
- `PowerOwnerWom`: two idle deadlines (0, already over when the notice is due;
  4, which leaves room for a notice, its lead time and an expired lease before
  it), lead time 3, lease 2, budget 2, six units of uptime. Every order of the
  thresholds the code compares occurs: the lease expires before and after the
  announcement, the lead time moves the deadline or does not, the budget ends
  before, at and after it. The five-second and thirty-second constants matter
  only through these comparisons.
- `PowerOwnerOta`: time is needed only to let leases and lead times pass, so one
  unit; users ask for off, reboot and sleep and change settings any number of
  times; suppression and battery/dock come and go freely. A suppression that never
  ends vetoes a power-off for good, as it should, so `OffHappens` is asked of
  behaviours in which it does.
- `MaxFaults` counts hardware steps that may fail (it is not renewed by a
  reboot): one. A step that fails for ever stops anything.
- `EsbOta`: pages of three units and packets of two, so that packets straddle
  pages; an image of six units that fills two pages exactly, one of five that ends
  inside a page and inside its last, padded packet, one with an MCUboot header,
  and one too large even for BEGIN; a firmware of two pages from page one, staging
  space up to page five, one foreign page above; the image of three pages that
  reaches into the firmware has `EsbOtaOverlap` to itself; one failing flash operation; a timeout of one unit.
- `OtaCopier`: images of one to three pages over a region of three pages that
  starts at page three, bases from one to three, two page contents, so that equal
  pages are skipped and overlapping ones are not; every old flash content.

- `TrackerEvents`: a queue of three, one operation, two copies, timers of one or two
  ticks so that each order of two of them occurs. A behaviour has one *menu* of
  producers, with two or three calls: intents and identity changes around a boot
  observation; a full queue; an operation's life; the rest states. One identity
  change.
- `WarmStore`: a temperature, two model ids and the magnetometer over a table of
  three slots (the real one has eight for five ids, so that a full table is
  defensive there; with eight the run passes too); two threads, two changes of
  value, one failing write, any number of resets; menus of scripts as above.
- `RadioLink`: a band of three even channels heard two channels away; one receiver
  and one stranger; PING counters 0 and 1, so a counter is reused at once; two
  transactions; one trouble (a move, a hold, a restart, a failure or a command of
  the console) on top of the menu.
- `Heater`: a lease of three control periods: the compare is written before, at and
  behind the counter. Owners repeat their procedures without bound.
- `Calibration`: two jobs, one reset-all, one failing write, one power-down. Two
  jobs are what a receipt set apart by a second candidate needs.

### Fairness

- `WF(OwnerStep)` (`PowerOwnerOta`, `PowerOwnerSticky`): the power thread waits at
  most 100 ms per iteration (`power.c:1104`) and has no other unbounded wait.
- `SF` on the power thread's and the connection thread's steps that need
  `power_plan_lock`: a Zephyr mutex is handed to a waiter when it is released, so
  a thread that finds it free again and again gets it.
- `SF(ConnLocks)` also contains the steps of `esb_ota_service`, which the
  connection thread calls at the head of every iteration, before any packet, so
  a session that failed or fell silent is recovered as soon as the reservation
  is granted. BEGIN, ACTIVATE and data have no fairness. One thing is assumed of
  the receiver: it does not repeat VERIFY for ever, the only packet that renews the
  session's timeout without progress (`esb_ota.c:699`).
- `WF(SetTimeoutEnd)`: the holder of a setting change saves it and releases.
- `TrackerEvents`: the connection thread leaves each of its places, the clock runs,
  entropy answers, and a radio asked again and again takes a packet (`SF(Admit)`).
- `WarmStore`: a waiter gets the lock that is released again and again, and its
  holder goes on.
- `Heater`: time passes (`WF(TimeOut)`), the steps of a write are bounded
  (`WF(WriteSteps)`), and the worker, which looks at the session every 5 to 100 ms,
  finds the lock free (`SF(Poll)`, `SF(Finalize)`). None for the sensor thread: it may
  stall for ever.
- `Calibration`: one condition for all, while a thread can run some thread runs.
  Requests and resets are bounded, so this is enough for an end and says nothing
  about priorities.
- `RadioLink` has none: that the receiver is found in the end is not so after a
  failed initialization (`esb.c:3038`).

## 4. What is proved

For every generation width, every set of deadlines and commands, every lead time,
lease and budget, every bound on time and faults, every flash geometry that
`FlashAssumption` and `SlotAssumption` admit, every page, packet and image size, every table, set of ids and script,
every heating lease, every size of event queue and operation table, every number of
copies and every interval of the events, every number of jobs, reset-alls and failing writes, and every
band, search order, set of strangers, width of the PING counter and number of troubles
on the air; TLC evaluates the assumptions on every run.

| module | theorem | says |
| --- | --- | --- |
| `PowerOwnerProofs` | `TypeCorrect` | `Spec => []TypeOK` |
| | `OwnerInvariant` | `Spec => []OwnerInv` |
| | `ShutdownSafety` | `Spec => []NoShutdownDuringOta` |
| | `ClaimSafety` | `Spec => []ClaimIsCurrent` |
| | `Refinement` | `PowerOwner` implements `PowerArbiter` |
| | `OwedReboot`, `ActiveUntilReset` | the two action properties |
| | `PlanBacked` | `Spec => []PlanIsBacked` |
| | `AnnouncementHolds` | `Spec => []AnnouncementStands` |
| | `SleepAnnounced` | `Spec => SleepIsAnnounced` |
| `EsbOtaProofs` | `StagedPlaces` | `Spec => []StagedInPlace` |
| | `ActivatedWhole` | `Spec => []ActivatedIsWhole` |
| | `StagingAlone` | `Spec => StagingOnly` |
| | `FirmwareIsSpared` | `Spec => []FirmwareSpared` |
| `OtaCopierProofs` | `CopierInvariant`, `CopyExact`, `TrueSettings` | the copier, with power loss, for every overlap |
| `WarmStoreProofs` | `StoreForgetsNothing` | `Spec => []NothingForgotten` |
| | `CounterIsTrue` | `Spec => []CounterReadsBack` |
| `HeaterProofs` | `HeatRunsOut` | `Spec => []HeatIsLeased` |
| | `HeatIsOwned` | `Spec => []HeatHasOwner` |
| | `SlotIsMatched` | `Spec => []SlotMatchesSession` |
| | `HeldIsCold` | `Spec => []ColdWhenHeld` |
| `TrackerEventsProofs` | `StartupAnnouncedOnce` | `Spec => []StartupOnce` |
| | `EndIsLast` | `Spec => []EndIsFinal` |
| | `DueExactlyWhenWork` | `Spec => []DeadlineIsWork` |
| | `NeverOversleeps` | `Spec => []NoOversleep` |
| | `CancelledIsSilent` | `Spec => WarningRetracted` |
| | `PowerOverTelemetry` | `Spec => PowerNoticesStay` |
| `CalibrationProofs` | `VerdictHolds` | `Spec => []VerdictIsTrue` |
| | `NothingComesBack` | `Spec => []NothingOutdated` |
| | `AcceptedIsKept` | `Spec => []AcceptedSurvives` |
| | `FusionFits` | `Spec => SavedFusionFits` |
| `RadioLinkProofs` | `ProofHere` | `Spec => []ProofIsHere` |
| | `StoresOnlyProven` | `Spec => StoresProven` |
| | `AckedExecuted` | `Spec => []AckedWasExecuted` |
| | `OutcomeWhole` | `Spec => []OutcomeIsWhole` |
| | `RunsOnlyOnce` | `Spec => RunsOnce` |

Every safety property of `PowerOwner`, `EsbOta`, `OtaCopier`, `Heater`,
`Calibration`, `RadioLink` and `TrackerEvents` is proved.

**The owner.** `NoShutdownDuringOta` is not inductive: that the unlocked veto is
still good at the gate depends on who holds what. `OwnerInv` supplies it in
parts. `ReservationMatchesConn`: the reservation is taken exactly while the
connection thread is between reserve and resolve, never over a physical
shutdown, and everything that makes an update active happens inside such a
stretch. `GuardIsGood`: hence an update that became active after the veto was
read still holds its reservation while the power thread holds the lock, because
it cannot resolve without that lock, and the gate in the mailbox sees it.
`ClaimMatchesPc`, `ClaimIsCurrent` and `ClaimIsKept`: the thread's position says
what was claimed, an executing slot is that claim with its generation, and only
the owner ends a claim that is past its gate. This is where a wrapping generation
could have hurt and does not: a slot executes only between begin and finish of
the one consumer, so a generation is never compared with one 2^32 requests old
for a request that is executing. `PhysicalIsExclusive`: physical work belongs to
no update except the reboot one is owed.

The proof that every step preserves it goes by the step's actor. Producers and
the environment only change the mailbox in ways the lemma `Yields` describes (no
claim is ended but a reversible sleep, no flag set), so one lemma covers all of
them; the connection thread has one step per action over `ReserveFacts` and
`ResolveFacts`; the power thread has one step per action, with the gates in
`InvGate` and the returns in `InvReturn`. What a mailbox operation does is
stated once, in the first section of `PowerOwnerProofs`. The refinement maps each step to the
arbiter's action with the same name or to a stutter.

**The sleep plan.** `PlanIsBacked` becomes inductive with two facts more
(`PlanInv`): nothing is planned between the entry of `sys_system_off` and its gate,
and a claimed sleep that is being consumed is physical. Without them a completion
or a withdrawal could part the plan from its request. `AnnouncementStands` and
`SleepIsAnnounced` follow from `NoticeInv`, which relates the last notice to the
plan as `PlanInv` relates the plan to the mailbox: an announced plan's notice is
the last one, at least the lead time before its commit, and while nothing has
failed a `WILL_WOM` is only ever the notice of such a plan or of a sleep past its
gate.

**The update session.** `StagingInv` says that a session in progress holds a
gapless start of its image, or all of it (`Staged`). What makes this inductive is
`Sound`: the page the writer stands on is blank if it was erased in advance, so
the flush that skips its own erase never programs a written page. `PageInside` is
the geometry: a page that holds part of the image lies inside its staging area,
which bounds the flush, the advance erase, whose guard is just that, and the page
a failing operation may spoil. The lemmas go up from pages (`PagesFacts`,
`PagesExact`) over the writer (`FlushFacts`, `FilledFacts`, `AppendFacts`,
`LastFlushFacts`) to a packet (`DataStaged`) and the handlers. `Judged` adds that
a good verdict is about the image as it lies in flash, which no later step of the
session touches. `StagingAlone` collects where each handler may change flash, and
`FirmwareIsSpared` places that area where BEGIN's check has let it be.

**The copier.** The staging area ends where flash ends and an image that fits
starts at or above the base of the running firmware, so a source page never lies below its
target (`TargetBelowStaging`); pages are copied in ascending order, and one is
only erased when it differs from its source, so target and source of an erased
page are different and the page lies strictly below every source still needed
(`SourceIsSafe`). `CopierInv` adds that the settings are untouched until the last
page is in place.

**The warm store.** `NothingForgotten` is not inductive in a flush that fails in
the middle: which slots are still dirty depends on how far it came. `StoreInv` says
so (slots before its position are in flash, and a failed flush drops just those), with
the lock having one holder and a value in retained memory being at least as new
as the one handed over. `CounterInv` relates what the reboot counter reads to
where it is kept.

**The event queue.** `Sound` says what tokens, queue, operations, rest states, boot
observations and ENDs have to do with each other. `Tokens`: tokens are serial numbers,
none is queued twice. `Unspent`: what is queued has a copy left and is no rest state.
`OpsShape`, `StatesShape`: what a heartbeat repeats belongs to a live operation that was
told of, or to its rest state. `Boots`, `Heard`: a pending observation that was announced
lies in the queue, and every record that announces a boot carries the current token and
identity and precedes any intent. `Closed`: an END that was admitted, selected or queued
closes its operation, and nothing younger of it exists. `Kept`: the repeated copies are
old. One lemma per function of `tracker_events.c` says that it keeps `Sound`, over four
that cover the ways a store changes: a record taken in (`TakenSound`), an operation or a
rest state replaced (`FitsSound`, `SlotSound`) and records leaving or ageing
(`LessenedSound`). The scan for a victim and the pass that reveals hidden runs are
recursive functions over tables whose size is a constant; what they preserve is by
induction over the slots, from the well-foundedness of `<` (`Induction`).
`DeadlineIsWork` follows after a maintenance (`Current`): `DueIsWork` compares the two
functions case by case. The two action properties use one more relation, `Keeping`: no
producer but a notice adds a warning or puts telemetry where a power notice was; the
maintenance keeps it but for what has aged, and the rest is the notice, whose
cancellation takes the warnings along (`Warned`), the admission and the new identity.

**The sleep.** `NoOversleep` is about a deadline that was computed once, against a
store that producers and time go on changing. `TimeInv` says what is true all along:
while the thread sleeps and nobody is about to wake it, its wait ends no later than any
deadline of the store (`Waits`), the gate of the radio included. Three arguments keep it.
Idle: the deadline it takes is the least (`IdleWaits`). Time: a tick moves every
deadline and the end of the wait alike (`AgedWaits`). Producers: each is `Calm`, that is,
it gives notice or adds no deadline that lies before all of those it found. For an
offered record this holds because a record that is refused finds a full queue, which is
due at once (`LoudCalm`); for a step of an operation because only a phase to be sent
already is replaced in silence (`SteppedLater`); for a rest state (`QuietLater`) it needs
what `RestShape` says of the slot: a value nobody observes is neither rest nor motion, a
new candidate has ended the repetition of the old value, and a heartbeat is no older
than the last publication. This is also where the order of the intervals enters, as
`PaceAssumption`: the idle wait (1000 ms, `connection.c:1663`) is no longer than an
observation lives (1000 ms, `tracker_events.c:506`), and the pace of publication
(500 ms, line 595) no longer than a heartbeat (5000 ms, line 572). Last, a store in
which nothing is due is one the maintenance leaves alone (`NothingMaintained`), so
`DueIsWork` applies to it as it is.

**The heater.** `LeaseInv` relates the timer to the sample it was set for: outside
a write the first compare equals that sample's deadline; inside it the count is
still at least the ticks the CPU has been away, and the fixed second compare
bounds it. `Owned` says which latches are set while the output is driven.
`ColdInv` follows the two procedures that need the heater quiet by their positions:
from its abort on each finds the heater inactive, and between its first step and
that abort something already refuses a start: the cut latch or the update for a
power-down, an invalid reading and then the suspension for a magnetometer change.

**Calibration.** Five threads share one transaction, and each property is about a
different pair of them, so the invariant is built in layers; each is preserved with
the help of those below it. `Shape`: jobs are numbered without a gap, the slot
names a job, a lock has the holder whose position says so, and what a writer
carries is still the transaction it took (`Carried`): nobody but a reset-all takes
a transaction away from its writer, and a reset-all waits for `persistence_lock`.
`Overtaken`: reset-alls cut the jobs at a number (`Threshold`), and what is still in
the slot, the transaction, retained memory or flash lies above the last cut.
`Follows`: while the fusion is behind, `stale` says so and somebody is going to
clear it. `Answered`: at each stage of a candidate, who still owes its user a result
(`Open`: the transaction; `Owing`: the receipt or the slot), and what a result
means once given (`Truth`). A cancellation and a reset-all between its two critical
sections are why `Truth` has a case for the position of the reset-all. `Kept`: an
admitted candidate is withdrawn, live with its write made or failed, or the
transaction. `Matches` and `Promised`: retained memory holds what is live, with
the exceptions `Backed` names, or the missing write is the transaction's.
The worker's eleven steps change the shared state in seven ways (`WorkerCases`),
so each layer is proved over those.

**The radio link.** Five invariants over `Typed`, each preserved on its own or over
those before it, and each with one step per kind of PONG, since the interrupt may run
between any two steps of the threads. Whatever closes or opens a session is
summarised once (`Begun`: nothing outstanding, nothing found or proven, what the ESB
thread executes is no longer current). `ChannelInv`: while the connection thread
changes the channel and while the ESB thread pairs, no PING is outstanding and no
proof stands (`Still`), so a PONG that waits in the FIFO across a hop finds nothing it
answers. `StoreInv`: the address of a pairing that is found has answered, is the
stored one already, or the console is at it (`Vouched`), and the channel to be stored
is either as it was or encodes the one the radio is on, which `ProofIsHere` makes the
proven one. `CommandInv`: an execution that is `current` is of the command received,
with the value it still has, so only such a one acknowledges. `OutcomeInv`: flag and
result in the cache, in the publication, in the PING being built and on the air are
those its token had; this needs that both are taken anew, together, when the PING is
sealed. `TransactionInv` is why nothing runs twice: the tokens that ran are at most
the last one received, which is at most the receiver's (`Tokens`); a NORMAL that
answers the PING carrying an outcome proves the receiver past that token (`OnAir`); so
for the token that ran last, the execution is still `current`, its outcome is
cached, or no request with its token can come any more (`Once`). The last
case is the one a test would not reach: the cache is gone, and only what is in the FIFO
could bring the token back.

## 5. What is only model-checked

- Liveness (`OffHappens`, `UpdateEnds`, `StartupDelivered`, `FlushAnswers`,
  `SessionEnds`, `EveryoneIsAnswered`): out of the prover's reach.
- `SuccessIsStored` of `WarmStore`. It is stated of the model's ids only: a failing
  eager write of the temperature (`cal_imu.c:213`) leaves the old identity on its
  dirty slot.

## 6. What the runs refute

Three comments of the source say something the code does not do. Each has a run
of its own that exhibits it, and an entry under `findings` with the quotation.

- `PowerOwnerSticky`. The battery/dock path calls `sys_system_off` without a
  mailbox claim. If it fails after its gate, `physical_started` stays set with
  nothing to clear it. If the dock is then removed, the tracker runs on and
  refuses every further power request and every update.
- `WarmStoreLost`. The dirty table is in plain RAM. After a reset that keeps
  retained memory nothing marks the ids again: an orderly power-off then flushes
  nothing and reports success, and flash keeps the older value.
- `EsbOtaOverlap`. "data goes to staging area, not running firmware"
  (`esb_ota.c:510`). BEGIN of a legacy build takes the size of the running firmware
  for its end (`esb_ota.c:393-398`), so an image is admitted although its staging
  begins up to `OTA_FLASH_BASE` below that end. In the run a firmware of two pages
  lies in pages 1 and 2; an image of three pages is staged from page 2 on, and its
  first flush replaces the second half of the firmware that receives it. On a board
  that boots behind a SoftDevice the base is 0x27000, and the sizes of the new and
  the running image only have to exceed 0xC7000 bytes together.

Behaviours met on the way that the models contain, and that no property here is
contradicted by, but that a maintainer may want to know:

- `sys_WOM` returns false when `configure_system_off` fails, to keep the request,
  but has already cleared the plan without which the retry withdraws it; the
  receiver is not told (`power.c:663`).
- The header of an MCUboot image is looked for in whatever packet comes first, so
  a lost first packet ends the session instead of being asked for again
  (`esb_ota.c:553`).
- A rest state that was refused ends the repetition of the value before it, and is
  taken as published when it returns unsent (`tracker_events.c:347`).
- `tracker_events_session_changed` sets `notify_pending` for a boot observation it puts
  back (`tracker_events.c:854`), but none of the calls that follow a pairing
  (`esb.c:2090`, `2222`, `2257`) is followed by `tracker_events_notify`. A connection
  thread that sleeps meanwhile hears of it with the next event or when its wait of at
  most a second ends.
- An off that the heater does not confirm is for ever: `fatal_error` is never
  cleared, although `tcal_heated.c:165-166` speaks of a retry. OFF, reboot and
  BEGIN of an update are refused for the rest of the boot.
- A sensor retrim that ends during a power-down resumes the sensor thread in the
  middle of it. What follows would contradict `calibration.h:88`: the model ends
  at that step.
- A reset-all that is refused or fails has already cancelled candidates and
  receipts. After one that succeeds the live coefficients stay, as documented, and
  the next save of the fusion pairs them with erased stored ones.
- `esb_reset_pair` clears the address after its `esb_deinitialize` has released
  `esb_radio_lock` (`esb.c:2254-2257`). When the ESB thread has paired again in between, the
  address can vanish under the poll that is storing it (`esb.c:2693`): flash then
  holds no address, although a request for pairing by button, unlike the console's clear, does not
  touch what is stored. `StoresProven` admits it.
- After a failed initialization that follows a pairing the radio is not opened again
  by itself (`esb.c:3038`).

## 7. Not modelled

External: the bootloader and MCUboot, of which only what the copier leaves for
them is stated; the receiver, which is as general as the question allows; Zephyr.

- The sensor life cycle (suspend, resume, scan, restart). One `main_suspended` flag
  serves every owner (`sensor.c:1975-2021`, `cal_imu.c:112-121`), a forced scan
  aborts a sensor thread wherever it is and creates it again (`sensor.c:1656`), and an
  iteration that has passed the check of the flag works on under the suspension
  (`sensor.c:3758-3766`, `3912`). What happens then depends on where, in fusion and
  driver code that has no model, the thread is caught, after waits of five and ten
  seconds. `PowerOwner`, `Heater` and `Calibration` have the suspensions they need.
- The OTA RAM engine (`ota_ram_engine.inc`): one sequential loop with interrupts off
  over a radio and a flash of its own, on one chip.
- Power loss in the middle of the legacy copy: the settings stay those of the old
  image over a mixed application (`esb_ota_flash.c:236`). `SettingsAreTrue` says that
  they never certify the mixture as the new image; what the bootloader does with it
  is outside.
- TDMA: slot and clock arithmetic on microsecond timers, on one thread; a wait
  computed from an epoch that changes meanwhile (`tdma.c:557`) ends with the slot.
- The watchdog: feeding and pausing of channels by every thread, the resume on every
  error path (`watchdog.c:358`). What can be wrong are its call sites, in code that has
  no model.
- The connection thread's packet scheduling and the end of the OTA suppression, which
  only one branch of its loop reaches (`connection.c:1833`).
- Of calibration: magnetometer, sensitivity and runtime T-Cal collectors, sample
  collection, and all estimation. Between the application of a candidate and the
  write of retained memory the worker may store coefficients while retained memory
  still names the older fusion state; nothing is claimed of that window.
- Everything in section 1.3.
