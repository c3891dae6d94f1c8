-------------------------- MODULE CalibrationProofs --------------------------
(***************************************************************************)
(* For every number of jobs, reset-alls and failing writes: what a user is *)
(* told is what happened to the candidate, nothing outdated comes back,    *)
(* a power-down leaves nothing behind, and a fusion state that is kept     *)
(* fits the coefficients.  The invariant is built in layers: the shape of  *)
(* the state and of the locks; what is overtaken; the stages of one        *)
(* candidate; what retained memory owes to the live coefficients.          *)
(***************************************************************************)
EXTENDS Calibration, TLAPS

Effects == {"none", "bias", "frame", "coefficients"}
Kinds == {"imu", "poses"}
Collecting == {"collect", "retrim", "trimmed", "commit"}
Committed == worker.pc \in {"tail", "clear"}
Busy(p) == p.effect # "none" \/ p.persist

Transactions ==
    [id : Coefficients, effect : Effects, part : {"bias", "matrix"}, keep : BOOLEAN, persist : BOOLEAN,
     changed : BOOLEAN, held : BOOLEAN, op : BOOLEAN, err : BOOLEAN, gen : Nat]
Workers ==
    [pc : {"top", "write", "written", "look", "tail", "clear"} \cup Collecting, id : Coefficients,
     gen : Nat, kind : Kinds \cup {"none"}, err : BOOLEAN, trimmed : BOOLEAN, auto : BOOLEAN]
Logs ==
    [admitted : SUBSET Jobs, applied : SUBSET Jobs, frame : [Jobs -> Nat], saved : SUBSET Jobs,
     unsaved : SUBSET Jobs, withdrawn : SUBSET Jobs, fleeting : SUBSET Jobs, erased : Coefficients,
     revived : BOOLEAN]
Memories == [{"bias", "matrix", "temp", "trim", "fusion"} -> Nat]
Flashes == [{"bias", "matrix", "temp", "trim"} -> Nat]
Ends == [Jobs -> {"none", "success", "failed", "cancelled"}]
Results == [Jobs -> {"none", "success", "unsaved", "failed", "cancelled"}]
Clients == [Jobs -> {"", "user", "silent", "reset"}]
Slots == [kind : Kinds \cup {"none"}, id : Coefficients, gen : Nat]
Flags == [closing : BOOLEAN, clearing : BOOLEAN, ready : BOOLEAN, stale : BOOLEAN, save : BOOLEAN]
Receipts == [id : Coefficients, err : BOOLEAN]
Lives == [bias : Coefficients, matrix : Coefficients, frame : Nat]
Locks == [by : {"free", "worker", "power", "clear"}, next : Transactions]
Sensors == [pc : {"idle", "consume", "applied", "save"}, suspended : BOOLEAN, ok : BOOLEAN, unread : BOOLEAN]
Powers == {"run", "apply", "persist", "write", "written", "drop", "retain", "off"}
Clears == [pc : {"none", "invalidate", "wipe", "gate", "erase", "release", "end"}, mark : Coefficients,
           count : Nat]

-----------------------------------------------------------------------------
(* The first layer: values, numbering, the slot and the locks *)

Typed ==
    /\ client \in Clients /\ slot \in Slots /\ gen \in Nat
    /\ flag \in Flags /\ pending \in Transactions /\ receipt \in Receipts
    /\ applied \in Lives /\ base \in Nat /\ ram \in Memories /\ flash \in Flashes
    /\ plock \in Locks /\ storage \in {"free", "worker", "power"}
    /\ worker \in Workers /\ sensor \in Sensors /\ wanted \in BOOLEAN
    /\ power \in Powers /\ clear \in Clears
    /\ end \in Ends /\ told \in Results /\ log \in Logs

\* Jobs are numbered in the order of their acceptance.
Numbered == \E n \in 0..MaxJobs : Accepted = 1..n

\* The slot names the job, and the worker in a collector names the slot.
SlotInv ==
    /\ slot.kind = "none" <=> slot.id = 0
    /\ slot.id # 0 => slot.id \in Accepted /\ slot.gen > 0
    /\ slot.gen <= gen
    /\ worker.pc \in Collecting \cup {"tail"} =>
          slot.id # 0 /\ worker.id = slot.id /\ worker.gen = slot.gen /\ worker.kind = slot.kind
    /\ worker.pc = "clear" => slot.id # 0 /\ worker.id = slot.id
    /\ worker.pc \in {"top", "write", "written", "look"} => worker.id = 0

\* Who holds which lock, and what a holder writes is the transaction.
Holders ==
    /\ plock.by = "free" => plock = NoWriter
    /\ plock.by = "worker" <=> worker.pc \in {"write", "written"}
    /\ plock.by = "power" <=> power \in {"write", "written"}
    /\ plock.by = "clear" <=> clear.pc # "none"
    /\ storage = "worker" <=> worker.pc \in {"written", "commit", "tail"}
    /\ storage = "power" <=> power = "written"
    /\ flag.clearing <=> clear.pc \in {"gate", "erase", "release", "end"}
    /\ clear.pc \in {"erase", "release"} => power = "run"
Carried ==
    /\ flag.clearing => pending = Empty /\ receipt.id = 0
    /\ plock.by \in {"worker", "power"} =>
          /\ pending.persist
          /\ plock.next.id = pending.id /\ plock.next.part = pending.part /\ plock.next.keep = pending.keep
    /\ pending.persist => pending.effect = "none"
    /\ Busy(pending) \/ pending.held => pending.id # 0
    /\ Busy(pending) => pending.part = "bias" \/ pending.keep
    /\ (worker.pc = "written" \/ power = "written") /\ pending.keep => ram[pending.part] = pending.id

-----------------------------------------------------------------------------
(* The second layer: what resets and reset-alls have overtaken *)

\* what the reset-all under way is going to withdraw from flash
Threshold == IF clear.pc \in {"wipe", "gate", "erase"} THEN clear.mark ELSE log.erased
Known ==
    /\ log.admitted \subseteq Accepted /\ log.withdrawn \subseteq Accepted
    /\ log.saved \cup log.unsaved \subseteq log.applied /\ log.applied \subseteq log.admitted
    /\ log.erased = 0 \/ log.erased \in Accepted
    /\ clear.pc \in {"wipe", "gate", "erase"} =>
          log.erased <= clear.mark /\ (clear.mark = 0 \/ clear.mark \in Accepted)
    /\ pending.id # 0 => pending.id \in log.admitted
    /\ pending.persist => pending.id \in log.applied
    /\ receipt.id # 0 => receipt.id \in log.admitted
Current ==
    /\ slot.id # 0 /\ slot.gen = gen => slot.id > Threshold /\ slot.id > log.erased
    /\ slot.id # 0 /\ ~Committed => slot.id \notin log.admitted /\ (slot.gen = gen => slot.id \notin log.withdrawn)
    /\ worker.pc = "tail" => worker.id > log.erased
    /\ Busy(pending) => pending.id > log.erased /\ pending.id \notin log.withdrawn
Wiped ==
    \A c \in {"bias", "matrix", "temp", "trim"} : /\ flash[c] = 0 \/ flash[c] > log.erased
                                                  /\ ram[c] = 0 \/ ram[c] > log.erased

-----------------------------------------------------------------------------
(* The third layer: the stages of a candidate *)

\* Whether the fusion has followed.
Follows ==
    /\ base <= applied.frame /\ (~flag.stale => base = applied.frame)
    /\ sensor.pc = "applied" => base = applied.frame
    /\ flag.stale => sensor.pc \in {"consume", "applied"} \/ power \notin {"run", "apply"}
    /\ power # "run" => sensor.pc = "idle" /\ (sensor.suspended \/ log.revived)
    /\ \A j \in Jobs : log.frame[j] <= applied.frame
    /\ receipt.id # 0 => flag.stale /\ ~pending.persist
    /\ flag.stale /\ pending.persist => pending.changed
    /\ pending.held => Busy(pending)
\* A candidate that is in is not yet answered.
Open ==
    /\ pending.effect # "none" => pending.id \notin log.applied
    /\ Busy(pending) =>
          /\ pending.id \notin log.saved \cup log.unsaved
          /\ pending.held <=> client[pending.id] # "silent"
          /\ told[pending.id] = "none" \/ (told[pending.id] = "cancelled" /\ clear.pc = "wipe")
    /\ pending.effect # "none" => /\ pending.op <=> client[pending.id] = "user"
                                  /\ end[pending.id] = "none"
Owing ==
    /\ receipt.id # 0 => /\ receipt.id \in log.applied /\ client[receipt.id] # "silent"
                         /\ IF receipt.err THEN receipt.id \in log.unsaved
                                           ELSE receipt.id \in log.saved \ log.unsaved
    /\ slot.id # 0 /\ ~Committed =>
          /\ end[slot.id] = "none"
          /\ told[slot.id] = "none" \/ (told[slot.id] = "cancelled" /\ slot.gen # gen)
    /\ \A j \in Jobs : client[j] = "" => end[j] = "none" /\ told[j] = "none"
    /\ slot.id \in log.applied \ log.withdrawn /\ power = "run" => pending.id = slot.id /\ pending.persist
Truth(j) ==
    /\ client[j] = "user" => (end[j] = "success" <=> j \in log.applied)
    /\ told[j] = "success" => /\ j \in log.applied \cap log.saved
                              /\ j \notin log.unsaved
                              /\ base >= log.frame[j]
    /\ told[j] = "unsaved" => j \in log.applied \cap log.unsaved
    /\ told[j] = "failed" => j \notin log.applied
    /\ told[j] = "cancelled" /\ j \in log.applied \ log.withdrawn =>
          /\ clear.pc = "wipe"
          /\ \/ pending.id = j /\ pending.persist
             \/ power # "run" /\ receipt.id = j
    /\ j \in log.applied /\ client[j] # "silent" /\ told[j] = "none" =>
          (pending.held /\ pending.id = j) \/ receipt.id = j

-----------------------------------------------------------------------------
(* The fourth layer: what the power-down and retained memory hold *)

Kept ==
    /\ log.admitted \subseteq log.withdrawn \cup (log.applied \cap (log.saved \cup log.unsaved))
                              \cup (IF Busy(pending) THEN {pending.id} ELSE {})
    /\ power \notin {"run", "apply"} => flag.closing /\ pending.effect = "none"
    /\ power \in {"drop", "retain", "off"} => ~pending.persist

Unwritten(c) == pending.persist /\ pending.part = c /\ pending.keep
Matches(c) ==
    /\ applied[c] = 0 \/ applied[c] \in Accepted
    /\ \/ ram[c] = applied[c]
       \/ applied[c] \in log.withdrawn \/ (applied[c] # 0 /\ applied[c] <= log.erased)
       \/ c = "bias" /\ applied[c] \in log.fleeting
       \/ Unwritten(c)
    /\ pending.persist /\ pending.part = c => pending.id = applied[c]
    /\ clear.pc \in {"gate", "erase"} =>
          applied[c] = 0 \/ applied[c] \in log.withdrawn \/ applied[c] <= clear.mark
    /\ clear.pc = "wipe" =>
          applied[c] = 0 \/ applied[c] \in log.withdrawn \/ applied[c] <= clear.mark
            \/ (pending.persist /\ pending.part = c)
Promised == /\ Busy(pending) /\ ~pending.keep => pending.id \in log.fleeting
            /\ pending.effect = "coefficients" => pending.part = "matrix"
            /\ pending.persist /\ ~pending.changed => pending.part = "matrix"
AllMatch == \A c \in {"bias", "matrix"} : Matches(c)
AllTrue == \A j \in Jobs : Truth(j)
-----------------------------------------------------------------------------
(* What the helpers do *)

LEMMA Fresh ==
    ASSUME Numbered, Accepted # Jobs
    PROVE  /\ NextJob \in Jobs /\ NextJob \notin Accepted
           /\ Accepted = 1..(NextJob - 1)
<1>1. PICK n \in 0..MaxJobs : Accepted = 1..n
  BY DEF Numbered
<1>2. n < MaxJobs /\ MaxJobs \in Nat
  BY <1>1, BoundsAssumption DEF Jobs
<1>3. n + 1 \in Jobs /\ n + 1 \notin Accepted /\ \A k \in Jobs : k < n + 1 => k \in Accepted
  BY <1>1, <1>2 DEF Jobs
<1>4. NextJob \in Jobs /\ NextJob \notin Accepted /\ \A k \in Jobs : k < NextJob => k \in Accepted
  BY <1>3 DEF NextJob
<1>5. NextJob = n + 1
  BY <1>1, <1>2, <1>3, <1>4 DEF Jobs
<1> QED
  BY <1>1, <1>2, <1>4, <1>5

\* A result is shown to at most one job, which had none.
LEMMA ToldIs ==
    ASSUME NEW t \in Results, NEW j \in Coefficients,
           NEW r \in {"success", "unsaved", "failed", "cancelled"}
    PROVE  /\ Told(t, j, r) \in Results
           /\ \A k \in Jobs : \/ Told(t, j, r)[k] = t[k]
                              \/ k = j /\ client[k] # "silent" /\ t[k] = "none" /\ Told(t, j, r)[k] = r
           /\ j # 0 /\ client[j] # "silent" => Told(t, j, r)[j] # "none"
BY BoundsAssumption DEF Told, Results, Jobs, Coefficients
LEMMA CancelledIs ==
    ASSUME NEW t \in Results, NEW j \in Coefficients
    PROVE  /\ Told(t, j, "cancelled") \in Results
           /\ \A k \in Jobs : \/ Told(t, j, "cancelled")[k] = t[k]
                              \/ /\ k = j /\ client[k] # "silent" /\ t[k] = "none"
                                 /\ Told(t, j, "cancelled")[k] = "cancelled"
           /\ j # 0 /\ client[j] # "silent" => Told(t, j, "cancelled")[j] # "none"
BY ToldIs
LEMMA EndedIs ==
    ASSUME NEW e \in Ends, NEW j \in Coefficients, NEW r \in {"success", "failed", "cancelled"}
    PROVE  /\ Ended(e, j, r) \in Ends
           /\ \A k \in Jobs : \/ Ended(e, j, r)[k] = e[k]
                              \/ k = j /\ client[k] = "user" /\ e[k] = "none" /\ Ended(e, j, r)[k] = r
           /\ j # 0 /\ client[j] = "user" => Ended(e, j, r)[j] # "none"
BY BoundsAssumption DEF Ended, Ends, Jobs, Coefficients

LEMMA VerdictIs ==
    ASSUME NEW t \in Results, NEW j \in Coefficients, NEW err
    PROVE  /\ \A k \in Jobs : \/ Told(t, j, Verdict(err))[k] = t[k]
                              \/ /\ k = j /\ t[k] = "none"
                                 /\ Told(t, j, Verdict(err))[k] = Verdict(err)
           /\ j # 0 /\ client[j] # "silent" => Told(t, j, Verdict(err))[j] # "none"
<1>1. Verdict(err) \in {"success", "unsaved", "failed", "cancelled"}
  BY DEF Verdict
<1> QED
  BY <1>1, BoundsAssumption DEF Told, Results, Jobs, Coefficients

\* What an apply changes: the live coefficients of its part, and the stage of the candidate.
LEMMA Applies ==
    ASSUME Typed, NEW close \in BOOLEAN, ApplyPending(close), ~flag.clearing, pending.effect # "none",
           pending.id # 0
    PROVE  /\ applied' \in Lives
           /\ applied'[pending.part] = pending.id
           /\ \A c \in {"bias", "matrix"} : c # pending.part => applied'[c] = applied[c]
           /\ pending.effect # "coefficients" => applied'.frame = applied.frame + 1
           /\ pending.effect = "coefficients" => applied'.frame = applied.frame
           /\ flag' \in Flags
           /\ flag'.clearing = flag.clearing /\ flag'.closing = (flag.closing \/ close)
           /\ flag'.stale = (flag.stale \/ pending.effect # "coefficients")
           /\ pending' = [pending EXCEPT !.effect = "none", !.persist = TRUE,
                                         !.changed = pending.effect # "coefficients"]
           /\ pending' \in Transactions
           /\ end' \in Ends
           /\ log' \in Logs /\ log'.applied = log.applied \cup {pending.id}
           /\ log'.frame = [log.frame EXCEPT ![pending.id] = applied'.frame]
           /\ log' = [log EXCEPT !.applied = @ \cup {pending.id}, !.frame[pending.id] = applied'.frame]
<1> DEFINE changed == pending.effect # "coefficients"
<1> DEFINE frame == IF changed THEN applied.frame + 1 ELSE applied.frame
<1>1. /\ pending.part \in {"bias", "matrix"} /\ pending.id \in Coefficients
      /\ applied.frame \in Nat /\ changed \in BOOLEAN /\ frame \in Nat
  <2>1. applied.frame \in Nat
    BY DEF Typed, Lives
  <2>2. pending.part \in {"bias", "matrix"} /\ pending.id \in Coefficients
    BY DEF Typed, Transactions
  <2> QED
    BY <2>1, <2>2
<1>2. pending.id \in Jobs
  BY <1>1, BoundsAssumption DEF Coefficients, Jobs
<1>3. /\ applied' = [applied EXCEPT ![pending.part] = pending.id, !.frame = frame]
      /\ flag' = [flag EXCEPT !.stale = flag.stale \/ changed, !.closing = flag.closing \/ close]
      /\ pending' = [pending EXCEPT !.effect = "none", !.persist = TRUE, !.changed = changed]
      /\ end' = IF pending.op THEN Ended(end, pending.id, "success") ELSE end
      /\ log' = [log EXCEPT !.applied = log.applied \cup {pending.id}, !.frame[pending.id] = applied'.frame]
  BY DEF ApplyPending
<1>4. /\ applied' \in Lives
      /\ applied'[pending.part] = pending.id /\ applied'.frame = frame
      /\ \A c \in {"bias", "matrix"} : c # pending.part => applied'[c] = applied[c]
  <2> HIDE DEF frame, changed
  <2>1. CASE pending.part = "bias"
    BY <1>1, <1>3, <2>1 DEF Typed, Lives
  <2>2. CASE pending.part = "matrix"
    BY <1>1, <1>3, <2>2 DEF Typed, Lives
  <2> QED
    BY <1>1, <2>1, <2>2
<1>5. /\ flag' \in Flags
      /\ flag'.clearing = flag.clearing /\ flag'.closing = (flag.closing \/ close)
      /\ flag'.stale = (flag.stale \/ changed)
  <2> HIDE DEF changed
  <2>1. flag.stale \in BOOLEAN /\ flag.closing \in BOOLEAN
    BY DEF Typed, Flags
  <2>2. (flag.stale \/ changed) \in BOOLEAN /\ (flag.closing \/ close) \in BOOLEAN
    BY <1>1, <2>1
  <2> QED
    BY <1>3, <2>2 DEF Typed, Flags
<1>6. pending' \in Transactions
  <2> HIDE DEF changed
  <2> QED
    BY <1>1, <1>3 DEF Typed, Transactions, Effects
<1>7. end' \in Ends
  <2>1. end \in Ends
    BY DEF Typed
  <2>2. Ended(end, pending.id, "success") \in Ends
    BY <1>1, <2>1, EndedIs
  <2> QED
    BY <1>3, <2>1, <2>2
<1>8. [log.frame EXCEPT ![pending.id] = applied'.frame] \in [Jobs -> Nat]
  BY <1>1, <1>2, <1>4 DEF Typed, Logs
<1>9. /\ log' \in Logs /\ log'.applied = log.applied \cup {pending.id}
      /\ log'.frame = [log.frame EXCEPT ![pending.id] = applied'.frame]
  BY <1>2, <1>3, <1>8 DEF Typed, Logs
<1> QED
  BY <1>1, <1>3, <1>4, <1>5, <1>6, <1>7, <1>9
LEMMA Positive ==
    ASSUME NEW i \in Coefficients, i # 0
    PROVE  i \in Jobs
BY BoundsAssumption DEF Jobs, Coefficients

LEMMA EmptyIs == Empty \in Transactions /\ Empty.id = 0 /\ Empty.effect = "none" /\ ~Empty.persist /\ ~Empty.held
BY BoundsAssumption DEF Empty, Transactions, Coefficients, Effects

-----------------------------------------------------------------------------
(* Types *)

LEMMA RequestTyped ==
    ASSUME Typed, Numbered, NEW kind \in Kinds, NEW who \in {"user", "silent"}, Request(kind, who)
    PROVE  Typed'
<1>1. NextJob \in Jobs /\ NextJob \in Coefficients
  BY Fresh, BoundsAssumption DEF Request, Jobs, Coefficients
<1>2. client' \in Clients
  BY <1>1 DEF Request, Typed, Clients
<1>3. slot' \in Slots /\ gen' \in Nat
  BY <1>1 DEF Request, Typed, Slots, Kinds
<1> QED
  BY <1>2, <1>3 DEF Request, Typed

LEMMA ResetTyped ==
    ASSUME Typed, Numbered, NEW kind \in Kinds, Reset(kind)
    PROVE  Typed'
<1>1. NextJob \in Jobs /\ NextJob \in Coefficients
  BY Fresh, BoundsAssumption DEF Reset, Jobs, Coefficients
<1>2. client' \in Clients /\ gen' \in Nat
  <2>1. client' \in Clients
    BY <1>1 DEF Reset, Typed, Clients
  <2>2. gen' \in Nat
    BY DEF Reset, Typed
  <2> QED
    BY <2>1, <2>2
<1>3. pending' \in Transactions
  <2>1. Candidate(NextJob, "reset", "frame", "bias", TRUE, FALSE, 0) \in Transactions
    BY <1>1 DEF Candidate, Transactions, Effects
  <2>2. Candidate(NextJob, "reset", "coefficients", "matrix", TRUE, FALSE, 0) \in Transactions
    BY <1>1 DEF Candidate, Transactions, Effects
  <2> QED
    BY <2>1, <2>2 DEF Reset
<1>4. Uncommitted \subseteq Jobs
  BY Positive DEF Uncommitted, Typed, Slots
<1>5. log' \in Logs
  BY <1>1, <1>4 DEF Reset, Typed, Logs
<1> QED
  BY <1>2, <1>3, <1>5 DEF Reset, Typed

LEMMA ClearTyped ==
    ASSUME Typed, Numbered, Clear
    PROVE  Typed'
<1>1. CASE ClearLock
  <2>1. clear' \in Clears
    <3>1. clear \in Clears /\ clear.count + 1 \in Nat
      BY DEF Typed, Clears
    <3>2. clear' = [clear EXCEPT !.pc = "invalidate", !.count = clear.count + 1]
      BY <1>1 DEF ClearLock
    <3> QED
      BY <3>1, <3>2 DEF Clears
  <2>2. plock' \in Locks
    BY <1>1, EmptyIs DEF ClearLock, Locks
  <2> QED
    BY <1>1, <2>1, <2>2 DEF Typed, ClearLock
<1>2. CASE ClearInvalidate
  <2>1. Uncommitted \subseteq Jobs
    BY Positive DEF Uncommitted, Typed, Slots
  <2>2. log' \in Logs
    BY <1>2, <2>1 DEF ClearInvalidate, Typed, Logs
  <2>3. told' \in Results
    BY <1>2, ToldIs DEF ClearInvalidate, Typed, Slots
  <2>4. (IF Accepted = Jobs THEN MaxJobs ELSE NextJob - 1) \in Coefficients
    BY Fresh, BoundsAssumption DEF Coefficients, Jobs
  <2>5. clear' \in Clears
    BY <1>2, <2>4 DEF ClearInvalidate, Typed, Clears
  <2> QED
    BY <1>2, <2>2, <2>3, <2>5 DEF ClearInvalidate, Typed
<1>3. CASE ClearWipe
  <2>1. pending.id \in Coefficients /\ receipt.id \in Coefficients
    BY DEF Typed, Transactions, Receipts
  <2>2. log' \in Logs
    <3> DEFINE new == log'.withdrawn \ log.withdrawn
    <3>1. PICK extra \in SUBSET Jobs : log' = [log EXCEPT !.withdrawn = log.withdrawn \cup extra]
      <4> DEFINE u == IF pending.effect # "none" \/ pending.persist THEN {pending.id} ELSE {}
      <4> DEFINE a == (IF pending.held THEN {pending.id} ELSE {}) \cup {receipt.id}
      <4>1. log' = [log EXCEPT !.withdrawn = log.withdrawn \cup ((u \cup a) \ {0})]
        BY <1>3 DEF ClearWipe
      <4>2. ((u \cup a) \ {0}) \in SUBSET Jobs
        BY <2>1, Positive
      <4> QED
        BY <4>1, <4>2
    <3> QED
      BY <3>1 DEF Typed, Logs
  <2>3. told' \in Results
    <3>1. told \in Results
      BY DEF Typed
    <3>2. Told(told, pending.id, "cancelled") \in Results
      BY <2>1, <3>1, ToldIs
    <3> DEFINE owed == IF pending.held THEN Told(told, pending.id, "cancelled") ELSE told
    <3>3. owed \in Results
      BY <3>1, <3>2
    <3>4. told' = Told(owed, receipt.id, "cancelled")
      BY <1>3 DEF ClearWipe
    <3> HIDE DEF owed
    <3> QED
      BY <2>1, <3>3, <3>4, ToldIs
  <2>4. end' \in Ends
    <3>1. end \in Ends
      BY DEF Typed
    <3>2. Ended(end, pending.id, "cancelled") \in Ends
      BY <2>1, <3>1, EndedIs
    <3> QED
      BY <1>3, <3>1, <3>2 DEF ClearWipe
  <2>5. pending' \in Transactions /\ receipt' \in Receipts
    BY <1>3, EmptyIs, BoundsAssumption DEF ClearWipe, NoReceipt, Coefficients, Receipts
  <2>6. /\ clear' \in Clears
        /\ flag' \in Flags
    BY <1>3 DEF ClearWipe, ClearStep, Typed, Clears, Flags
  <2> QED
    BY <1>3, <2>2, <2>3, <2>4, <2>5, <2>6 DEF ClearWipe, Typed
<1>4. CASE ClearGate
  BY <1>4 DEF Typed, ClearGate, Clears
<1>5. CASE ClearErase
  <2>1. /\ clear' \in Clears
    BY <1>5 DEF ClearErase, ClearStep, Typed, Clears
  <2>2. NotKept \in Nat /\ 0 \in Nat
    BY BoundsAssumption DEF NotKept
  <2>3. [c \in DOMAIN ram |-> IF c = "fusion" THEN NotKept ELSE 0] \in Memories
    BY <2>2 DEF Typed, Memories
  <2>4. Defaults \in Flashes
    BY DEF Defaults, Flashes
  <2>5. ram' \in Memories /\ flash' \in Flashes
    BY <1>5, <2>3, <2>4 DEF ClearErase, Typed
  <2>6. log' \in Logs
    BY <1>5 DEF ClearErase, Typed, Logs, Clears
  <2> QED
    BY <1>5, <2>1, <2>5, <2>6 DEF ClearErase, Typed
<1>6. CASE ClearEnd
  <2>1. clear' \in Clears
    <3>1. clear \in Clears /\ 0 \in Coefficients
      BY BoundsAssumption DEF Typed, Coefficients
    <3>2. clear' = [clear EXCEPT !.pc = "none", !.mark = 0]
      BY <1>6 DEF ClearEnd
    <3> QED
      BY <3>1, <3>2 DEF Clears
  <2>2. plock' \in Locks
    BY <1>6, EmptyIs DEF ClearEnd, NoWriter, Locks
  <2>3. flag' \in Flags
    BY <1>6 DEF ClearEnd, Flags, Typed
  <2> QED
    BY <1>6, <2>1, <2>2, <2>3 DEF Typed, ClearEnd
<1> QED
  BY <1>1, <1>2, <1>3, <1>4, <1>5, <1>6 DEF Clear
\* The receipt of a written transaction: in its place, apart, or answered.
LEMMA PersistEnds ==
    ASSUME Typed, NEW t \in {"worker", "power"}, PersistEnd(t), pending.id # 0
    PROVE  /\ pending' \in Transactions /\ receipt' \in Receipts /\ told' \in Results /\ log' \in Logs
           /\ plock' = NoWriter /\ plock' \in Locks /\ storage' = "free" /\ plock.by = t /\ storage = t
           /\ flag' \in Flags /\ flag'.clearing = flag.clearing /\ flag'.closing = flag.closing
           /\ flag'.stale = flag.stale
           /\ pending'.id = pending.id /\ pending'.effect = pending.effect /\ ~pending'.persist
           /\ pending'.part = pending.part /\ pending'.keep = pending.keep
           /\ \E apart \in BOOLEAN, ends \in BOOLEAN :
                 /\ apart <=> pending.held /\ flag.stale /\ pending.changed
                 /\ ends <=> ~apart /\ pending.held /\ pending.effect = "none" /\ ~flag.stale
                 /\ pending'.held <=> pending.held /\ ~apart /\ ~ends
                 /\ receipt' = IF apart THEN [id |-> pending.id, err |-> pending'.err] ELSE receipt
                 /\ told' = IF ends THEN Told(told, pending.id, Verdict(pending'.err)) ELSE told
           /\ log' = IF pending'.err THEN [log EXCEPT !.unsaved = @ \cup {pending.id}]
                                     ELSE [log EXCEPT !.saved = @ \cup {pending.id}]
<1> DEFINE done == [pending EXCEPT !.persist = FALSE, !.op = FALSE, !.err = @ \/ plock.next.err]
<1> DEFINE apart == Apart(done)
<1> DEFINE ends == ~apart /\ Completes(done, flag.stale)
<1>1. /\ pending \in Transactions /\ plock.next \in Transactions /\ receipt \in Receipts
      /\ flag \in Flags /\ told \in Results /\ log \in Logs
  BY DEF Typed, Locks
<1>2. pending.err \in BOOLEAN /\ plock.next.err \in BOOLEAN /\ (pending.err \/ plock.next.err) \in BOOLEAN
  BY <1>1 DEF Transactions
<1>3. /\ done \in Transactions /\ done.id = pending.id /\ done.effect = pending.effect
      /\ done.part = pending.part /\ done.keep = pending.keep /\ done.held = pending.held
      /\ done.persist = FALSE /\ done.changed = pending.changed
  BY <1>1, <1>2 DEF Transactions
<1>4. /\ flag' = [flag EXCEPT !.save = @ \/ done.changed]
      /\ receipt' = IF apart THEN [id |-> done.id, err |-> done.err] ELSE receipt
      /\ pending' = [done EXCEPT !.held = done.held /\ ~apart /\ ~ends]
      /\ told' = IF ends THEN Told(told, done.id, Verdict(done.err)) ELSE told
      /\ log' = IF done.err THEN [log EXCEPT !.unsaved = @ \cup {done.id}]
                            ELSE [log EXCEPT !.saved = @ \cup {done.id}]
      /\ plock' = NoWriter /\ storage' = "free" /\ plock.by = t /\ storage = t
  BY DEF PersistEnd
<1>5. /\ apart \in BOOLEAN /\ ends \in BOOLEAN
      /\ apart <=> pending.held /\ flag.stale /\ pending.changed
      /\ ends <=> ~apart /\ pending.held /\ pending.effect = "none" /\ ~flag.stale
  <2> HIDE DEF done
  <2> QED
    BY <1>3 DEF Apart, Completes
<1> HIDE DEF done, apart, ends
<1>6. done.held \in BOOLEAN /\ done.changed \in BOOLEAN /\ done.err \in BOOLEAN /\ done.id \in Coefficients
  BY <1>3 DEF Transactions
<1>7. /\ pending' \in Transactions
      /\ pending'.id = done.id /\ pending'.effect = done.effect /\ pending'.persist = done.persist
      /\ pending'.part = done.part /\ pending'.keep = done.keep /\ pending'.err = done.err
      /\ pending'.held = (done.held /\ ~apart /\ ~ends)
  <2>1. (done.held /\ ~apart /\ ~ends) \in BOOLEAN
    BY <1>5, <1>6
  <2> QED
    BY <1>3, <1>4, <2>1 DEF Transactions
<1>8. receipt' \in Receipts
  BY <1>1, <1>4, <1>6 DEF Receipts
<1>9. Verdict(done.err) \in {"success", "unsaved", "failed", "cancelled"}
  BY DEF Verdict
<1>10. told' \in Results
  BY <1>1, <1>4, <1>6, <1>9, ToldIs
<1>11. log' \in Logs
  <2>1. done.id \in Jobs
    BY <1>3, <1>6, Positive
  <2> QED
    BY <1>1, <1>4, <2>1 DEF Logs
<1>12. flag' \in Flags /\ flag'.clearing = flag.clearing /\ flag'.closing = flag.closing /\ flag'.stale = flag.stale
  BY <1>1, <1>4, <1>6 DEF Flags
<1>13. plock' \in Locks
  BY <1>4, EmptyIs DEF NoWriter, Locks
<1> QED
  BY <1>3, <1>4, <1>5, <1>7, <1>8, <1>10, <1>11, <1>12, <1>13
\* The write: retained memory takes it, flash unless it fails.
LEMMA PersistWrites ==
    ASSUME Typed, NEW t \in {"worker", "power"}, PersistWrite(t)
    PROVE  /\ plock.by = t /\ storage = "free" /\ storage' = t
           /\ ram' \in Memories /\ flash' \in Flashes /\ plock' \in Locks /\ plock'.by = plock.by
           /\ plock'.next.id = plock.next.id /\ plock'.next.part = plock.next.part
           /\ plock'.next.keep = plock.next.keep
           /\ plock.next.keep => ram'[plock.next.part] = plock.next.id
           /\ \A c \in {"bias", "matrix", "temp", "trim"} :
                 /\ ram'[c] = ram[c] \/ (c = plock.next.part /\ ram'[c] = plock.next.id /\ plock.next.keep)
                 /\ flash'[c] = flash[c] \/ (c = plock.next.part /\ flash'[c] = plock.next.id)
           /\ ram'["fusion"] = ram["fusion"]
<1>1. /\ plock \in Locks /\ plock.next \in Transactions /\ ram \in Memories /\ flash \in Flashes
      /\ plock.by \in {"free", "worker", "power", "clear"}
  BY DEF Typed, Locks
<1>2. plock.next.part \in {"bias", "matrix"} /\ plock.next.id \in Nat
  BY <1>1, BoundsAssumption DEF Transactions, Coefficients
<1>3. /\ plock.by = t /\ storage = "free" /\ storage' = t
      /\ plock.next.keep => ram' = [ram EXCEPT ![plock.next.part] = plock.next.id]
      /\ ~plock.next.keep => ram' = ram
      /\ flash' = [flash EXCEPT ![plock.next.part] = plock.next.id] \/ flash' = flash
      /\ plock' = plock \/ plock' = [plock EXCEPT !.next.err = TRUE]
  BY DEF PersistWrite
<1>4. ram' \in Memories /\ flash' \in Flashes
  BY <1>1, <1>2, <1>3 DEF Memories, Flashes
<1>5. /\ plock.next.keep => ram'[plock.next.part] = plock.next.id
      /\ \A c \in {"bias", "matrix", "temp", "trim"} :
            /\ ram'[c] = ram[c] \/ (c = plock.next.part /\ ram'[c] = plock.next.id /\ plock.next.keep)
            /\ flash'[c] = flash[c] \/ (c = plock.next.part /\ flash'[c] = plock.next.id)
      /\ ram'["fusion"] = ram["fusion"]
  BY <1>1, <1>2, <1>3 DEF Memories, Flashes
<1>6. /\ plock' \in Locks /\ plock'.by = plock.by
      /\ plock'.next.id = plock.next.id /\ plock'.next.part = plock.next.part
      /\ plock'.next.keep = plock.next.keep
  <2>1. CASE plock' = plock
    BY <1>1, <2>1
  <2>2. CASE plock' = [plock EXCEPT !.next.err = TRUE]
    <3>1. /\ [plock.next EXCEPT !.err = TRUE] \in Transactions
          /\ [plock.next EXCEPT !.err = TRUE].id = plock.next.id
          /\ [plock.next EXCEPT !.err = TRUE].part = plock.next.part
          /\ [plock.next EXCEPT !.err = TRUE].keep = plock.next.keep
      BY <1>1 DEF Transactions
    <3>2. plock' = [plock EXCEPT !.next = [plock.next EXCEPT !.err = TRUE]]
      BY <1>1, <2>2
    <3> QED
      BY <1>1, <3>1, <3>2 DEF Locks
  <2> QED
    BY <1>3, <2>1, <2>2
<1> QED
  BY <1>3, <1>4, <1>5, <1>6

LEMMA PersistBegins ==
    ASSUME Typed, NEW t \in {"worker", "power"}, PersistBegin(t)
    PROVE  plock' \in Locks /\ plock'.by = t /\ plock'.next = pending /\ plock.by = "free" /\ pending.persist
BY DEF PersistBegin, Typed, Locks, NoWriter

LEMMA WorkerMoves ==
    ASSUME Typed
    PROVE  /\ \A pc \in {"top", "write", "written", "look", "tail", "clear"} \cup Collecting :
                 Goes(pc) => /\ worker' \in Workers /\ worker'.pc = pc /\ worker'.id = worker.id
                             /\ worker'.gen = worker.gen /\ worker'.kind = worker.kind
           /\ Leaves => /\ worker' \in Workers /\ worker'.pc = "clear" /\ worker'.id = worker.id
<1>1. worker \in Workers /\ worker.id \in Coefficients /\ 0 \in Coefficients
  BY BoundsAssumption DEF Typed, Workers, Coefficients
<1>2. Idle \in Workers
  BY <1>1 DEF Idle, Workers
<1>3. ASSUME NEW pc \in {"top", "write", "written", "look", "tail", "clear"} \cup Collecting, Goes(pc)
      PROVE  /\ worker' \in Workers /\ worker'.pc = pc /\ worker'.id = worker.id
             /\ worker'.gen = worker.gen /\ worker'.kind = worker.kind
  BY <1>1, <1>3 DEF Goes, Workers
<1>4. ASSUME Leaves
      PROVE  worker' \in Workers /\ worker'.pc = "clear" /\ worker'.id = worker.id
  BY <1>1, <1>2, <1>4 DEF Leaves, Workers
<1> QED
  BY <1>3, <1>4

LEMMA StopsIs ==
    ASSUME Typed, NEW outcome \in {"failed", "cancelled"}, Stops(outcome)
    PROVE  /\ end' \in Ends /\ told' \in Results
           /\ end' = Ended(end, worker.id, outcome) /\ told' = Told(told, worker.id, outcome)
           /\ worker' \in Workers /\ worker'.pc = "clear" /\ worker'.id = worker.id
<1>1. end \in Ends /\ told \in Results /\ worker.id \in Coefficients
  BY DEF Typed, Workers
<1>2. end' = Ended(end, worker.id, outcome) /\ told' = Told(told, worker.id, outcome) /\ Leaves
  BY DEF Stops
<1> QED
  BY <1>1, <1>2, EndedIs, ToldIs, WorkerMoves
LEMMA WorkerTyped ==
    ASSUME Typed, SlotInv, Holders, Carried, Worker
    PROVE  Typed'
<1>0. /\ worker \in Workers /\ worker.id \in Coefficients /\ worker.id \in Nat /\ worker.gen \in Nat
      /\ worker.err \in BOOLEAN /\ slot \in Slots /\ slot.id \in Coefficients /\ slot.gen \in Nat
      /\ slot.kind \in Kinds \cup {"none"}
      /\ ram \in Memories /\ flash \in Flashes /\ log \in Logs /\ sensor \in Sensors /\ flag \in Flags
  BY BoundsAssumption DEF Typed, Workers, Slots, Coefficients
<1>1. CASE WorkerPersists
  <2>1. CASE At("top") /\ PersistBegin("worker") /\ Goes("write")
    <3>1. plock' \in Locks /\ worker' \in Workers
      BY <2>1, PersistBegins, WorkerMoves
    <3> QED
      BY <1>1, <2>1, <3>1 DEF WorkerPersists, PersistBegin, Typed
  <2>2. CASE At("write") /\ PersistWrite("worker") /\ Goes("written")
    <3>1. ram' \in Memories /\ flash' \in Flashes /\ plock' \in Locks /\ worker' \in Workers /\ storage' = "worker"
      BY <2>2, PersistWrites, WorkerMoves
    <3> QED
      BY <1>1, <2>2, <3>1 DEF WorkerPersists, PersistWrite, Typed
  <2>3. CASE At("written") /\ PersistEnd("worker") /\ Goes("look")
    <3>1. plock.by = "worker"
      BY <2>3 DEF PersistEnd
    <3>2. pending.id # 0
      BY <3>1 DEF Carried, Busy
    <3>3. /\ pending' \in Transactions /\ receipt' \in Receipts /\ told' \in Results /\ log' \in Logs
          /\ plock' \in Locks /\ storage' = "free" /\ flag' \in Flags /\ worker' \in Workers
      BY <2>3, <3>2, PersistEnds, WorkerMoves
    <3> QED
      BY <1>1, <2>3, <3>3 DEF WorkerPersists, PersistEnd, Typed
  <2> QED
    BY <1>1, <2>1, <2>2, <2>3 DEF WorkerPersists
<1>2. CASE WorkerHasNothing
  <2>1. worker' \in Workers
    BY <1>2, WorkerMoves DEF WorkerHasNothing
  <2> QED
    BY <1>2, <2>1 DEF WorkerHasNothing, Typed
<1>3. CASE Look
  <2>1. told' \in Results /\ end' \in Ends
    BY <1>0, <1>3, ToldIs, EndedIs DEF Look, Typed
  <2>2. NoSlot \in Slots
    BY BoundsAssumption DEF NoSlot, Slots, Coefficients
  <2>3. slot' \in Slots
    BY <1>0, <1>3, <2>2 DEF Look
  <2>4. worker' \in Workers
    <3>1. [Idle EXCEPT !.pc = "collect", !.id = slot.id, !.gen = slot.gen, !.kind = slot.kind] \in Workers
      BY <1>0 DEF Idle, Workers, Kinds, Collecting
    <3> QED
      BY <1>3, <3>1, WorkerMoves DEF Look
  <2> QED
    BY <1>3, <2>1, <2>3, <2>4 DEF Look, Typed
<1>4. CASE CollectFails
  <2>1. end' \in Ends /\ told' \in Results /\ worker' \in Workers
    BY <1>4, StopsIs DEF CollectFails
  <2> QED
    BY <1>4, <2>1 DEF CollectFails, Typed
<1>5. CASE RetrimBegin
  <2>1. worker' \in Workers
    BY <1>5, WorkerMoves DEF RetrimBegin, Collecting
  <2>2. sensor' \in Sensors /\ flag' \in Flags
    BY <1>0, <1>5 DEF RetrimBegin, Sensors, Flags
  <2> QED
    BY <1>5, <2>1, <2>2 DEF RetrimBegin, Typed
<1>6. ASSUME NEW pc \in {"trimmed", "clear"}, RetrimResume(pc)
      PROVE  Typed'
  <2>1. worker' \in Workers /\ end' \in Ends /\ told' \in Results
    <3>1. CASE pc = "clear"
      BY <1>6, <3>1, StopsIs DEF RetrimResume
    <3>2. CASE pc = "trimmed"
      BY <1>6, <3>2, WorkerMoves DEF RetrimResume, Typed, Collecting
    <3> QED
      BY <3>1, <3>2
  <2>2. sensor' \in Sensors
    BY <1>0, <1>6 DEF RetrimResume, Sensors
  <2>3. flag' \in Flags
    <3>1. (IF sensor.suspended THEN sensor.ok ELSE flag.ready) \in BOOLEAN
      BY <1>0 DEF Sensors, Flags
    <3> QED
      BY <1>0, <1>6, <3>1 DEF RetrimResume, Flags
  <2>4. log' \in Logs
    <3>1. (log.revived \/ power # "run") \in BOOLEAN
      BY <1>0 DEF Logs
    <3> QED
      BY <1>0, <1>6, <3>1 DEF RetrimResume, Logs
  <2> QED
    BY <1>6, <2>1, <2>2, <2>3, <2>4 DEF RetrimResume, Typed
<1>7. CASE RetrimStore
  <2>1. ram' \in Memories /\ flash' \in Flashes /\ wanted' \in BOOLEAN
    <3>1. [ram EXCEPT !.trim = worker.id] \in Memories /\ [flash EXCEPT !.trim = worker.id] \in Flashes
      BY <1>0 DEF Memories, Flashes
    <3> QED
      BY <1>0, <1>7, <3>1 DEF RetrimStore, Typed
  <2>2. worker' \in Workers /\ end' \in Ends /\ told' \in Results
    <3>1. CASE Stops("cancelled")
      BY <3>1, StopsIs
    <3>2. CASE UNCHANGED <<end, told>> /\ worker' = [worker EXCEPT !.pc = "collect", !.trimmed = TRUE]
      BY <1>0, <3>2 DEF Typed, Workers, Collecting
    <3>3. CASE UNCHANGED <<end, told>> /\ worker' = [worker EXCEPT !.pc = "collect", !.trimmed = TRUE, !.err = TRUE]
      BY <1>0, <3>3 DEF Typed, Workers, Collecting
    <3> QED
      BY <1>7, <3>1, <3>2, <3>3 DEF RetrimStore
  <2> QED
    BY <1>7, <2>1, <2>2 DEF RetrimStore, Typed
<1>8. CASE OpenTransaction
  <2>1. /\ worker' \in Workers /\ end' \in Ends /\ told' \in Results
        /\ storage' \in {"free", "worker", "power"}
    BY <1>8, StopsIs, WorkerMoves DEF OpenTransaction, Typed, Collecting
  <2> QED
    BY <1>8, <2>1 DEF OpenTransaction, Typed
<1>9. ASSUME NEW keep \in BOOLEAN, CommitBias(keep)
      PROVE  Typed'
  <2>0. worker.id \in Jobs
    BY <1>0, <1>9, Positive DEF CommitBias, At, SlotInv, Collecting
  <2>1. CASE Valid(worker.gen) /\ Admits
    <3>1. /\ pending' = Candidate(worker.id, client[worker.id], "bias", "bias", keep, worker.err, worker.gen)
          /\ log' = [log EXCEPT !.admitted = log.admitted \cup {worker.id},
                                !.fleeting = IF keep THEN log.fleeting ELSE log.fleeting \cup {worker.id}]
          /\ worker' = [worker EXCEPT !.pc = "tail", !.auto = ~keep]
          /\ UNCHANGED <<storage, end, told>>
      BY <1>9, <2>1 DEF CommitBias
    <3>2. pending' \in Transactions
      BY <1>0, <1>9, <3>1 DEF Candidate, Transactions, Effects
    <3>3. log' \in Logs
      <4>1. log.fleeting \in SUBSET Jobs /\ log.admitted \in SUBSET Jobs
        BY <1>0 DEF Logs
      <4> QED
        BY <1>0, <2>0, <3>1, <4>1 DEF Logs
    <3>4. worker' \in Workers
      BY <1>0, <1>9, <3>1 DEF Workers
    <3> QED
      BY <1>9, <3>1, <3>2, <3>3, <3>4 DEF CommitBias, Typed
  <2>2. CASE ~(Valid(worker.gen) /\ Admits)
    <3>1. UNCHANGED <<pending, log>> /\ storage' = "free" /\ (Stops("failed") \/ Stops("cancelled"))
      BY <1>9, <2>2 DEF CommitBias
    <3>2. worker' \in Workers /\ end' \in Ends /\ told' \in Results
      BY <3>1, StopsIs
    <3> QED
      BY <1>9, <3>1, <3>2 DEF CommitBias, Typed
  <2> QED
    BY <2>1, <2>2
<1>10. CASE Tail
  <2>1. worker' \in Workers
    BY <1>10, WorkerMoves DEF Tail
  <2>2. ram' \in Memories /\ flash' \in Flashes
    <3>1. [ram EXCEPT !.temp = worker.id] \in Memories /\ [flash EXCEPT !.temp = worker.id] \in Flashes
      BY <1>0 DEF Memories, Flashes
    <3> QED
      BY <1>0, <1>10, <3>1 DEF Tail
  <2>3. pending' = pending \/ pending' = [pending EXCEPT !.err = TRUE]
    BY <1>10 DEF Tail
  <2>4. pending' \in Transactions
    BY <2>3 DEF Typed, Transactions
  <2>5. log' = log /\ storage' = "free"
    BY <1>10 DEF Tail
  <2> QED
    BY <1>10, <2>1, <2>2, <2>4, <2>5 DEF Tail, Typed
<1>11. CASE CommitAccel
  <2>0. worker.id \in Jobs
    BY <1>0, <1>11, Positive DEF CommitAccel, At, SlotInv, Collecting
  <2>1. CASE Valid(worker.gen) /\ Admits
    <3>1. /\ pending' = Candidate(worker.id, client[worker.id], "frame", "matrix", TRUE, FALSE, worker.gen)
          /\ log' = [log EXCEPT !.admitted = log.admitted \cup {worker.id}]
          /\ Leaves /\ UNCHANGED <<end, told>>
      BY <1>11, <2>1 DEF CommitAccel
    <3>2. pending' \in Transactions
      BY <1>0, <3>1 DEF Candidate, Transactions, Effects
    <3>3. log' \in Logs
      BY <1>0, <2>0, <3>1 DEF Logs
    <3>4. worker' \in Workers
      BY <3>1, WorkerMoves
    <3> QED
      BY <1>11, <3>1, <3>2, <3>3, <3>4 DEF CommitAccel, Typed
  <2>2. CASE ~(Valid(worker.gen) /\ Admits)
    <3>1. UNCHANGED <<pending, log>> /\ (Stops("failed") \/ Stops("cancelled"))
      BY <1>11, <2>2 DEF CommitAccel
    <3>2. worker' \in Workers /\ end' \in Ends /\ told' \in Results
      BY <3>1, StopsIs
    <3> QED
      BY <1>11, <3>1, <3>2 DEF CommitAccel, Typed
  <2> QED
    BY <2>1, <2>2
<1>12. CASE Release
  <2>1. NoSlot \in Slots /\ Idle \in Workers
    BY BoundsAssumption DEF NoSlot, Slots, Coefficients, Idle, Workers
  <2> QED
    BY <1>12, <2>1 DEF Release, Typed
<1> QED
  BY <1>1, <1>2, <1>3, <1>4, <1>5, <1>6, <1>7, <1>8, <1>9, <1>10, <1>11, <1>12 DEF Worker

LEMMA SensorTyped ==
    ASSUME Typed, Carried, Sensor
    PROVE  Typed'
<1>0. /\ sensor \in Sensors /\ flag \in Flags /\ ram \in Memories /\ receipt \in Receipts
      /\ pending \in Transactions /\ told \in Results /\ applied.frame \in Nat /\ base \in Nat
      /\ receipt.id \in Coefficients /\ pending.id \in Coefficients /\ NotKept \in Nat
  BY BoundsAssumption DEF Typed, Lives, Receipts, Transactions, NotKept
<1>1. CASE FrameApply
  <2>1. /\ applied' \in Lives /\ flag' \in Flags /\ pending' \in Transactions /\ end' \in Ends /\ log' \in Logs
    <3>1. CASE ~flag.clearing /\ pending.effect # "none"
      BY <1>1, <3>1, Applies DEF FrameApply, Carried, Busy
    <3>2. CASE ~(~flag.clearing /\ pending.effect # "none")
      <4>1. /\ flag' = [flag EXCEPT !.save = flag.save /\ Effect # "save", !.closing = flag.closing \/ FALSE]
            /\ UNCHANGED <<applied, pending, end, log>>
        BY <1>1, <3>2 DEF FrameApply, ApplyPending
      <4>2. (flag.save /\ Effect # "save") \in BOOLEAN /\ (flag.closing \/ FALSE) \in BOOLEAN
        BY <1>0 DEF Flags
      <4>3. flag' \in Flags
        BY <1>0, <4>1, <4>2 DEF Flags
      <4> QED
        BY <4>1, <4>3 DEF Typed
    <3> QED
      BY <3>1, <3>2
  <2>2. sensor' \in Sensors
    <3>1. \E pc \in {"idle", "consume", "applied", "save"} : sensor' = [sensor EXCEPT !.pc = pc]
      <4>1. Effect \in {"bias", "frame", "coefficients", "save", "none"}
        BY <1>0 DEF Effect, Transactions, Effects, Flags
      <4>2. wanted \in BOOLEAN /\ (Effect # "none" \/ wanted)
        BY <1>1 DEF FrameApply, Typed
      <4> QED
        BY <1>1, <4>1, <4>2 DEF FrameApply
    <3> QED
      BY <1>0, <3>1 DEF Sensors
  <2> QED
    BY <1>1, <2>1, <2>2 DEF FrameApply, Typed
<1>2. CASE FrameConsume
  <2>1. sensor' \in Sensors /\ base' \in Nat
    BY <1>0, <1>2 DEF FrameConsume, Sensors
  <2> QED
    BY <1>2, <2>1 DEF FrameConsume, Typed
<1>3. CASE FrameApplied
  <2> DEFINE first == Told(told, receipt.id, Verdict(receipt.err))
             ends == Completes(pending, FALSE)
  <2>1. Verdict(receipt.err) \in {"success", "unsaved", "failed", "cancelled"}
        /\ Verdict(pending.err) \in {"success", "unsaved", "failed", "cancelled"}
    BY DEF Verdict
  <2>2. first \in Results
    BY <1>0, <2>1, ToldIs
  <2>3. Told(first, pending.id, Verdict(pending.err)) \in Results
    <3> HIDE DEF first
    <3> QED
      BY <1>0, <2>1, <2>2, ToldIs
  <2>4. told' \in Results
    BY <1>3, <2>2, <2>3 DEF FrameApplied
  <2>5. ends \in BOOLEAN /\ (pending.held /\ ~ends) \in BOOLEAN
    BY <1>0 DEF Completes, Transactions
  <2>6. pending' = [pending EXCEPT !.held = pending.held /\ ~ends]
    BY <1>3 DEF FrameApplied
  <2>7. pending' \in Transactions
    <3> HIDE DEF ends
    <3> QED
      BY <1>0, <2>5, <2>6 DEF Transactions
  <2>8. flag' \in Flags /\ sensor' \in Sensors
    BY <1>0, <1>3 DEF FrameApplied, Flags, Sensors
  <2>9. receipt' \in Receipts
    BY <1>3, BoundsAssumption DEF FrameApplied, NoReceipt, Receipts, Coefficients
  <2> QED
    BY <1>3, <2>4, <2>7, <2>8, <2>9 DEF FrameApplied, Typed
<1>4. CASE FrameSave
  <2>1. sensor' \in Sensors
    BY <1>0, <1>4 DEF FrameSave, Sensors
  <2>2. ram' \in Memories
    BY <1>0, <1>4 DEF FrameSave, Retains, Memories
  <2> QED
    BY <1>4, <2>1, <2>2 DEF FrameSave, Typed
<1> QED
  BY <1>1, <1>2, <1>3, <1>4 DEF Sensor

LEMMA PowerTyped ==
    ASSUME Typed, Carried, PowerSuspend \/ PowerStep
    PROVE  Typed'
<1>0. /\ sensor \in Sensors /\ flag \in Flags /\ ram \in Memories /\ base \in Nat /\ NotKept \in Nat
  BY BoundsAssumption DEF Typed, NotKept
<1>1. CASE PowerSuspend
  <2>1. sensor' \in Sensors /\ flag' \in Flags /\ power' \in Powers
    BY <1>0, <1>1 DEF PowerSuspend, Sensors, Flags, Powers
  <2> QED
    BY <1>1, <2>1 DEF PowerSuspend, Typed
<1>2. CASE PowerApply
  <2>1. /\ applied' \in Lives /\ flag' \in Flags /\ pending' \in Transactions /\ end' \in Ends /\ log' \in Logs
    <3>1. CASE ~flag.clearing /\ pending.effect # "none"
      BY <1>2, <3>1, Applies DEF PowerApply, Carried, Busy
    <3>2. CASE ~(~flag.clearing /\ pending.effect # "none")
      <4>1. /\ flag' = [flag EXCEPT !.save = flag.save /\ Effect # "save", !.closing = flag.closing \/ TRUE]
            /\ UNCHANGED <<applied, pending, end, log>>
        BY <1>2, <3>2 DEF PowerApply, ApplyPending
      <4>2. (flag.save /\ Effect # "save") \in BOOLEAN /\ (flag.closing \/ TRUE) \in BOOLEAN
        BY <1>0 DEF Flags
      <4>3. flag' \in Flags
        BY <1>0, <4>1, <4>2 DEF Flags
      <4> QED
        BY <4>1, <4>3 DEF Typed
    <3> QED
      BY <3>1, <3>2
  <2> QED
    BY <1>2, <2>1 DEF PowerApply, Typed, Powers
<1>3. CASE PowerPersists
  <2>1. CASE PersistBegin("power") /\ power' = "write"
    <3>1. plock' \in Locks /\ power' \in Powers
      BY <2>1, PersistBegins DEF Powers
    <3> QED
      BY <1>3, <2>1, <3>1 DEF PowerPersists, PersistBegin, Typed
  <2>2. CASE PersistWrite("power") /\ power' = "written"
    <3>1. /\ ram' \in Memories /\ flash' \in Flashes /\ plock' \in Locks /\ power' \in Powers
          /\ storage' = "power"
      BY <2>2, PersistWrites DEF Powers
    <3> QED
      BY <1>3, <2>2, <3>1 DEF PowerPersists, PersistWrite, Typed
  <2>3. CASE PersistEnd("power") /\ power' = "drop"
    <3>1. plock.by = "power"
      BY <2>3 DEF PersistEnd
    <3>2. pending.id # 0
      BY <3>1 DEF Carried, Busy
    <3>3. /\ pending' \in Transactions /\ receipt' \in Receipts /\ told' \in Results /\ log' \in Logs
          /\ plock' \in Locks /\ storage' = "free" /\ flag' \in Flags /\ power' \in Powers
      BY <2>3, <3>2, PersistEnds DEF Powers
    <3> QED
      BY <1>3, <2>3, <3>3 DEF PowerPersists, PersistEnd, Typed
  <2> QED
    BY <1>3, <2>1, <2>2, <2>3 DEF PowerPersists
<1>4. CASE PowerHasNothing
  BY <1>4 DEF PowerHasNothing, Typed, Powers
<1>5. CASE PowerDrop
  <2>1. ram' \in Memories
    BY <1>0, <1>5 DEF PowerDrop, Memories
  <2> QED
    BY <1>5, <2>1 DEF PowerDrop, Typed, Powers
<1>6. ASSUME NEW off \in BOOLEAN, PowerRetain(off)
      PROVE  Typed'
  <2>1. ram' \in Memories
    BY <1>0, <1>6 DEF PowerRetain, Retains, Memories
  <2> QED
    BY <1>6, <2>1 DEF PowerRetain, Typed, Powers
<1> QED
  BY <1>1, <1>2, <1>3, <1>4, <1>5, <1>6 DEF PowerStep
-----------------------------------------------------------------------------
(* What the threads leave alone *)

LEMMA ClearLeaves == Clear => UNCHANGED <<client, slot, applied, base, storage, worker, sensor, wanted, power>>
BY DEF Clear, ClearLock, ClearInvalidate, ClearWipe, ClearGate, ClearErase, ClearEnd
LEMMA WorkerLeaves == Worker => UNCHANGED <<client, gen, applied, base, power, clear>>
BY DEF Worker, WorkerPersists, PersistBegin, PersistWrite, PersistEnd, WorkerHasNothing, Look, CollectFails,
       RetrimBegin, RetrimResume, RetrimStore, OpenTransaction, CommitBias, Tail, CommitAccel, Release
LEMMA SensorLeaves ==
    Sensor => UNCHANGED <<client, slot, gen, flash, plock, storage, worker, power, clear, faults>>
BY DEF Sensor, FrameApply, FrameConsume, FrameApplied, FrameSave
LEMMA PowerLeaves == PowerSuspend \/ PowerStep => UNCHANGED <<client, slot, gen, base, worker, wanted, clear>>
BY DEF PowerSuspend, PowerStep, PowerApply, PowerPersists, PersistBegin, PersistWrite, PersistEnd,
       PowerHasNothing, PowerDrop, PowerRetain

-----------------------------------------------------------------------------
(* Numbering and the slot *)

LEMMA Grows ==
    ASSUME Typed, Numbered, Accepted # Jobs, NEW who \in {"user", "silent", "reset"},
           client' = [client EXCEPT ![NextJob] = who]
    PROVE  /\ Numbered' /\ Accepted' = Accepted \cup {NextJob}
           /\ client'[NextJob] = who /\ \A j \in Jobs : j # NextJob => client'[j] = client[j]
<1>1. NextJob \in Jobs /\ NextJob \notin Accepted /\ Accepted = 1..(NextJob - 1)
  BY Fresh
<1>2. client'[NextJob] = who /\ \A j \in Jobs : j # NextJob => client'[j] = client[j]
  BY <1>1 DEF Typed, Clients
<1>3. Accepted' = Accepted \cup {NextJob}
  BY <1>1, <1>2 DEF Accepted
<1>4. Accepted' = 1..NextJob /\ NextJob \in 0..MaxJobs
  BY <1>1, <1>3, BoundsAssumption DEF Jobs
<1> QED
  BY <1>2, <1>3, <1>4 DEF Numbered

LEMMA NumberedStep ==
    ASSUME Typed, Numbered, Next
    PROVE  Numbered'
<1>1. ASSUME NEW kind \in Kinds, NEW who \in {"user", "silent"}, Request(kind, who)
      PROVE  Numbered'
  BY <1>1, Grows DEF Request
<1>2. ASSUME NEW kind \in Kinds, Reset(kind)
      PROVE  Numbered'
  BY <1>2, Grows DEF Reset
<1>3. ASSUME client' = client
      PROVE  Numbered'
  BY <1>3 DEF Numbered, Accepted
<1> QED
  BY <1>1, <1>2, <1>3, ClearLeaves, WorkerLeaves, SensorLeaves, PowerLeaves DEF Next, Kinds

LEMMA SlotStep ==
    ASSUME Typed, Numbered, SlotInv, Holders, Carried, Next
    PROVE  SlotInv'
<1>0. /\ slot \in Slots /\ slot.gen \in Nat /\ gen \in Nat /\ worker \in Workers
      /\ worker.pc \in {"top", "write", "written", "look", "tail", "clear"} \cup Collecting
      /\ slot.id \in Coefficients /\ slot.kind \in Kinds \cup {"none"}
  BY DEF Typed, Slots, Workers
<1>1. ASSUME NEW kind \in Kinds, NEW who \in {"user", "silent"}, Request(kind, who)
      PROVE  SlotInv'
  <2>1. /\ NextJob \in Jobs /\ Accepted' = Accepted \cup {NextJob}
        /\ slot.kind = "none" /\ slot' = [kind |-> kind, id |-> NextJob, gen |-> gen + 1]
        /\ gen' = gen + 1 /\ worker' = worker
    BY <1>1, Fresh, Grows DEF Request
  <2>2. slot.id = 0 /\ worker.pc \in {"top", "write", "written", "look"} /\ worker.id = 0
    BY <1>0, <2>1 DEF SlotInv
  <2>3. NextJob # 0 /\ kind # "none" /\ gen + 1 > 0
    BY <1>0, <2>1, BoundsAssumption DEF Jobs, Kinds
  <2> QED
    BY <1>0, <2>1, <2>2, <2>3 DEF SlotInv, Collecting
<1>2. ASSUME NEW kind \in Kinds, Reset(kind)
      PROVE  SlotInv'
  <2>1. Accepted' = Accepted \cup {NextJob} /\ slot' = slot /\ worker' = worker
    BY <1>2, Grows DEF Reset
  <2>2. gen' \in Nat /\ gen' >= gen
    BY <1>0, <1>2 DEF Reset
  <2> QED
    BY <1>0, <2>1, <2>2 DEF SlotInv
<1>3. CASE Clear \/ Sensor \/ PowerSuspend \/ PowerStep
  <2>1. UNCHANGED <<client, slot, worker>> /\ gen' >= gen /\ gen' \in Nat
    BY <1>0, <1>3, ClearLeaves, SensorLeaves, PowerLeaves
    DEF Clear, ClearLock, ClearInvalidate, ClearWipe, ClearGate, ClearErase, ClearEnd
  <2>2. Accepted' = Accepted
    BY <2>1 DEF Accepted
  <2> QED
    BY <1>0, <2>1, <2>2 DEF SlotInv
<1>4. CASE Worker
  <2>0. Accepted' = Accepted /\ gen' = gen
    BY <1>4, WorkerLeaves DEF Accepted
  <2>1. CASE WorkerPersists \/ WorkerHasNothing
    <3>1. slot' = slot /\ \/ worker.pc = "top" /\ (Goes("write") \/ Goes("look"))
                          \/ worker.pc = "write" /\ Goes("written")
                          \/ worker.pc = "written" /\ Goes("look")
      BY <2>1 DEF WorkerPersists, WorkerHasNothing, PersistBegin, PersistWrite, PersistEnd, At
    <3>2. worker'.pc \in {"write", "written", "look"} /\ worker'.id = worker.id /\ worker.id = 0
      BY <3>1, WorkerMoves DEF SlotInv
    <3> QED
      BY <2>0, <3>1, <3>2 DEF SlotInv, Collecting
  <2>2. CASE Look
    <3>1. worker.id = 0
      BY <2>2 DEF Look, At, SlotInv
    <3>2. CASE slot' = slot /\ Goes("top")
      BY <2>0, <3>1, <3>2, WorkerMoves DEF SlotInv, Collecting
    <3>3. CASE slot' = NoSlot /\ Goes("top")
      <4>1. worker'.pc = "top" /\ worker'.id = 0
        BY <3>1, <3>3, WorkerMoves
      <4> QED
        BY <1>0, <2>0, <3>3, <4>1 DEF SlotInv, Collecting, NoSlot
    <3>4. CASE slot' = slot /\ slot.kind # "none"
               /\ worker' = [Idle EXCEPT !.pc = "collect", !.id = slot.id, !.gen = slot.gen, !.kind = slot.kind]
      <4>1. worker'.pc = "collect" /\ worker'.id = slot.id /\ worker'.gen = slot.gen /\ worker'.kind = slot.kind
        BY <3>4 DEF Idle
      <4> QED
        BY <2>0, <3>4, <4>1 DEF SlotInv, Collecting
    <3> QED
      BY <2>2, <3>2, <3>3, <3>4 DEF Look
  <2>3. CASE Release
    <3>1. slot' = NoSlot /\ worker' = Idle
      BY <2>3 DEF Release
    <3> QED
      BY <1>0, <2>0, <3>1 DEF SlotInv, Collecting, NoSlot, Idle
  <2>4. ASSUME worker.pc \in Collecting \cup {"tail"}, slot' = slot, worker'.id = worker.id,
               \/ worker'.pc = "clear"
               \/ worker'.gen = worker.gen /\ worker'.kind = worker.kind
                    /\ worker'.pc \in Collecting \cup {"tail"}
        PROVE  SlotInv'
    BY <2>0, <2>4 DEF SlotInv, Collecting
  <2>5. CASE CollectFails
    BY <2>4, <2>5, StopsIs DEF CollectFails, At, Collecting
  <2>6. CASE RetrimBegin
    BY <2>4, <2>6, WorkerMoves DEF RetrimBegin, At, Collecting
  <2>7. ASSUME NEW pc \in {"trimmed", "clear"}, RetrimResume(pc)
        PROVE  SlotInv'
    BY <2>4, <2>7, WorkerMoves, StopsIs DEF RetrimResume, At, Collecting
  <2>8. CASE RetrimStore
    <3>1. worker.pc = "trimmed" /\ slot' = slot
      BY <2>8 DEF RetrimStore, At
    <3>2. CASE Stops("cancelled")
      BY <2>4, <3>1, <3>2, StopsIs DEF Collecting
    <3>3. CASE worker' = [worker EXCEPT !.pc = "collect", !.trimmed = TRUE]
               \/ worker' = [worker EXCEPT !.pc = "collect", !.trimmed = TRUE, !.err = TRUE]
      <4>1. worker'.pc = "collect" /\ worker'.id = worker.id /\ worker'.gen = worker.gen
            /\ worker'.kind = worker.kind
        BY <1>0, <3>3 DEF Workers
      <4> QED
        BY <2>4, <3>1, <4>1 DEF Collecting
    <3> QED
      BY <2>8, <3>2, <3>3 DEF RetrimStore
  <2>9. CASE OpenTransaction
    BY <2>4, <2>9, WorkerMoves, StopsIs DEF OpenTransaction, At, Collecting
  <2>10. ASSUME NEW keep \in BOOLEAN, CommitBias(keep)
         PROVE  SlotInv'
    <3>1. worker.pc = "commit" /\ slot' = slot
      BY <2>10 DEF CommitBias, At
    <3>2. CASE worker' = [worker EXCEPT !.pc = "tail", !.auto = ~keep]
      <4>1. worker'.pc = "tail" /\ worker'.id = worker.id /\ worker'.gen = worker.gen
            /\ worker'.kind = worker.kind
        BY <1>0, <3>2 DEF Workers
      <4> QED
        BY <2>4, <3>1, <4>1 DEF Collecting
    <3>3. CASE Stops("failed") \/ Stops("cancelled")
      BY <2>4, <3>1, <3>3, StopsIs DEF Collecting
    <3> QED
      BY <2>10, <3>2, <3>3 DEF CommitBias
  <2>11. CASE Tail
    BY <2>4, <2>11, WorkerMoves DEF Tail, At, Collecting
  <2>12. CASE CommitAccel
    <3>1. worker.pc = "collect" /\ slot' = slot /\ (Leaves \/ Stops("failed") \/ Stops("cancelled"))
      BY <2>12 DEF CommitAccel, At
    <3> QED
      BY <2>4, <3>1, WorkerMoves, StopsIs DEF Collecting
  <2> QED
    BY <1>4, <2>1, <2>2, <2>3, <2>5, <2>6, <2>7, <2>8, <2>9, <2>10, <2>11, <2>12 DEF Worker
<1> QED
  BY <1>1, <1>2, <1>3, <1>4 DEF Next, Kinds
-----------------------------------------------------------------------------
(* The locks *)

LEMMA HoldersStep ==
    ASSUME Typed, SlotInv, Holders, Carried, Next
    PROVE  Holders'
<1>0. /\ worker \in Workers /\ flag \in Flags /\ clear \in Clears /\ plock \in Locks
      /\ NoWriter.by = "free" /\ flag.clearing \in BOOLEAN
  BY DEF Typed, NoWriter, Flags
<1>1. ASSUME UNCHANGED <<plock, worker, power, clear, storage>>, flag'.clearing = flag.clearing
      PROVE  Holders'
  BY <1>1 DEF Holders
<1>2. CASE \/ \E kind \in Kinds, who \in {"user", "silent"} : Request(kind, who)
           \/ \E kind \in Kinds : Reset(kind)
  BY <1>1, <1>2 DEF Request, Reset
<1>3. CASE Sensor
  <2>1. flag'.clearing = flag.clearing
    BY <1>0, <1>3 DEF Sensor, FrameApply, ApplyPending, FrameConsume, FrameApplied, FrameSave, Flags
  <2>2. UNCHANGED <<plock, worker, power, clear, storage>>
    BY <1>3, SensorLeaves
  <2> QED
    BY <1>1, <2>1, <2>2
<1>4. CASE Clear
  <2>1. UNCHANGED <<worker, power, storage>>
    BY <1>4, ClearLeaves
  <2>2. CASE ClearLock
    <3>1. clear.pc = "none" /\ clear'.pc = "invalidate" /\ plock'.by = "clear" /\ plock.by = "free"
          /\ flag' = flag
      BY <1>0, <2>2 DEF ClearLock, ClearAt, Clears
    <3> QED
      BY <2>1, <3>1 DEF Holders
  <2>3. CASE ClearInvalidate
    <3>1. clear.pc = "invalidate" /\ clear'.pc = "wipe" /\ plock' = plock /\ flag' = flag
      BY <1>0, <2>3 DEF ClearInvalidate, ClearAt, Clears
    <3> QED
      BY <2>1, <3>1 DEF Holders
  <2>4. CASE ClearWipe
    <3>1. clear.pc = "wipe" /\ clear'.pc = "gate" /\ plock' = plock /\ flag'.clearing
      BY <1>0, <2>4 DEF ClearWipe, ClearStep, ClearAt, Clears, Flags
    <3> QED
      BY <2>1, <3>1 DEF Holders
  <2>5. CASE ClearGate
    <3>1. clear.pc = "gate" /\ clear'.pc = (IF power = "run" THEN "erase" ELSE "end") /\ plock' = plock /\ flag' = flag
      BY <1>0, <2>5 DEF ClearGate, ClearAt, Clears
    <3> QED
      BY <2>1, <3>1 DEF Holders
  <2>6. CASE ClearErase
    <3>1. clear.pc = "erase" /\ clear'.pc = "release" /\ plock' = plock /\ flag' = flag
      BY <1>0, <2>6 DEF ClearErase, ClearStep, ClearAt, Clears
    <3> QED
      BY <2>1, <3>1 DEF Holders
  <2>7. CASE ClearEnd
    <3>1. clear.pc \in {"end", "release"} /\ clear'.pc = "none" /\ plock' = NoWriter /\ flag'.clearing = FALSE
      BY <1>0, <2>7 DEF ClearEnd, ClearAt, Clears, Flags
    <3> QED
      BY <1>0, <2>1, <3>1 DEF Holders
  <2> QED
    BY <1>4, <2>2, <2>3, <2>4, <2>5, <2>6, <2>7 DEF Clear
<1>5. CASE PowerSuspend \/ PowerStep
  <2>1. UNCHANGED <<worker, clear>>
    BY <1>5, PowerLeaves
  <2>2. CASE PowerSuspend
    <3>1. power = "run" /\ power' = "apply" /\ UNCHANGED <<plock, storage>> /\ flag'.clearing = flag.clearing
          /\ clear.pc \notin {"erase", "release"}
      BY <1>0, <2>2 DEF PowerSuspend, PowerAt, Flags
    <3> QED
      BY <2>1, <3>1 DEF Holders
  <2>3. CASE PowerApply
    <3>1. power = "apply" /\ power' = "persist" /\ UNCHANGED <<plock, storage>> /\ flag'.clearing = flag.clearing
      BY <1>0, <2>3 DEF PowerApply, ApplyPending, PowerAt, Flags
    <3> QED
      BY <2>1, <3>1 DEF Holders
  <2>4. CASE PowerHasNothing \/ PowerDrop \/ \E off \in BOOLEAN : PowerRetain(off)
    <3>1. power \in {"persist", "drop", "retain"} /\ power' \in {"drop", "retain", "off"}
          /\ UNCHANGED <<plock, storage, flag>>
      BY <2>4 DEF PowerHasNothing, PowerDrop, PowerRetain, PowerAt
    <3> QED
      BY <2>1, <3>1 DEF Holders
  <2>5. CASE PowerAt("persist") /\ PersistBegin("power") /\ power' = "write"
    <3>1. plock'.by = "power" /\ plock.by = "free" /\ UNCHANGED <<flag, storage>>
      BY <2>5, PersistBegins DEF PersistBegin
    <3> QED
      BY <2>1, <2>5, <3>1 DEF Holders, PowerAt
  <2>6. CASE PowerAt("write") /\ PersistWrite("power") /\ power' = "written"
    <3>1. plock'.by = "power" /\ plock.by = "power" /\ storage = "free" /\ storage' = "power" /\ flag' = flag
      BY <2>6, PersistWrites DEF PersistWrite
    <3> QED
      BY <2>1, <2>6, <3>1 DEF Holders, PowerAt
  <2>7. CASE PowerAt("written") /\ PersistEnd("power") /\ power' = "drop"
    <3>0. plock.by = "power"
      BY <2>7 DEF PersistEnd
    <3>1. pending.id # 0
      BY <3>0 DEF Carried, Busy
    <3>2. plock' = NoWriter /\ storage' = "free" /\ flag'.clearing = flag.clearing
      BY <2>7, <3>1, PersistEnds
    <3> QED
      BY <1>0, <2>1, <2>7, <3>0, <3>2 DEF Holders, PowerAt
  <2> QED
    BY <1>5, <2>2, <2>3, <2>4, <2>5, <2>6, <2>7 DEF PowerStep, PowerPersists
<1>6. CASE Worker
  <2>1. UNCHANGED <<power, clear>>
    BY <1>6, WorkerLeaves
  <2>2. ASSUME UNCHANGED <<plock, storage>>, flag'.clearing = flag.clearing,
               worker.pc \notin {"write", "written", "commit", "tail"},
               worker'.pc \notin {"write", "written", "commit", "tail"}
        PROVE  Holders'
    BY <2>1, <2>2 DEF Holders
  <2>3. CASE At("top") /\ PersistBegin("worker") /\ Goes("write")
    <3>1. plock'.by = "worker" /\ plock.by = "free" /\ UNCHANGED <<flag, storage>> /\ worker'.pc = "write"
      BY <2>3, PersistBegins, WorkerMoves DEF PersistBegin
    <3> QED
      BY <2>1, <2>3, <3>1 DEF Holders, At
  <2>4. CASE At("write") /\ PersistWrite("worker") /\ Goes("written")
    <3>1. /\ plock'.by = "worker" /\ plock.by = "worker" /\ storage = "free" /\ storage' = "worker"
          /\ flag' = flag /\ worker'.pc = "written"
      BY <2>4, PersistWrites, WorkerMoves DEF PersistWrite
    <3> QED
      BY <2>1, <2>4, <3>1 DEF Holders, At
  <2>5. CASE At("written") /\ PersistEnd("worker") /\ Goes("look")
    <3>0. plock.by = "worker"
      BY <2>5 DEF PersistEnd
    <3>1. pending.id # 0
      BY <3>0 DEF Carried, Busy
    <3>2. plock' = NoWriter /\ storage' = "free" /\ flag'.clearing = flag.clearing /\ worker'.pc = "look"
      BY <2>5, <3>1, PersistEnds, WorkerMoves
    <3> QED
      BY <1>0, <2>1, <2>5, <3>0, <3>2 DEF Holders, At
  <2>6. CASE WorkerHasNothing
    BY <2>2, <2>6, WorkerMoves DEF WorkerHasNothing, At
  <2>7. CASE Look
    <3>1. worker'.pc \in {"top", "collect"} /\ worker.pc = "look" /\ UNCHANGED <<plock, storage, flag>>
      BY <2>7, WorkerMoves DEF Look, At, Idle
    <3> QED
      BY <2>2, <3>1
  <2>8. CASE CollectFails
    BY <2>2, <2>8, StopsIs DEF CollectFails, At
  <2>9. CASE RetrimBegin
    <3>1. flag'.clearing = flag.clearing
      BY <1>0, <2>9 DEF RetrimBegin, Flags
    <3> QED
      BY <2>2, <2>9, <3>1, WorkerMoves DEF RetrimBegin, At, Collecting
  <2>10. ASSUME NEW pc \in {"trimmed", "clear"}, RetrimResume(pc)
         PROVE  Holders'
    <3>1. flag'.clearing = flag.clearing
      BY <1>0, <2>10 DEF RetrimResume, Flags
    <3>2. worker'.pc \in {"trimmed", "clear"}
      BY <2>10, WorkerMoves, StopsIs DEF RetrimResume, Collecting
    <3> QED
      BY <2>2, <2>10, <3>1, <3>2 DEF RetrimResume, At
  <2>11. CASE RetrimStore
    <3>1. worker'.pc \in {"collect", "clear"}
      BY <1>0, <2>11, StopsIs DEF RetrimStore, Workers
    <3> QED
      BY <2>2, <2>11, <3>1 DEF RetrimStore, At
  <2>12. CASE OpenTransaction
    <3>1. UNCHANGED <<plock, flag>> /\ worker.pc = "collect" /\ storage = "free"
      BY <2>12 DEF OpenTransaction, At
    <3>2. \/ worker'.pc = "clear" /\ storage' = storage
          \/ worker'.pc = "commit" /\ storage' = "worker"
      BY <2>12, WorkerMoves, StopsIs DEF OpenTransaction, Collecting
    <3> QED
      BY <2>1, <3>1, <3>2 DEF Holders
  <2>13. ASSUME NEW keep \in BOOLEAN, CommitBias(keep)
         PROVE  Holders'
    <3>1. UNCHANGED <<plock, flag>> /\ worker.pc = "commit"
      BY <2>13 DEF CommitBias, At
    <3>2. \/ worker'.pc = "clear" /\ storage' = "free"
          \/ worker'.pc = "tail" /\ storage' = storage
      BY <1>0, <2>13, StopsIs DEF CommitBias, Workers
    <3> QED
      BY <2>1, <3>1, <3>2 DEF Holders
  <2>14. CASE Tail
    <3>1. UNCHANGED <<plock, flag>> /\ worker.pc = "tail" /\ storage' = "free" /\ worker'.pc = "clear"
      BY <2>14, WorkerMoves DEF Tail, At
    <3> QED
      BY <2>1, <3>1 DEF Holders
  <2>15. CASE CommitAccel
    <3>1. UNCHANGED <<plock, flag, storage>> /\ worker.pc = "collect" /\ worker'.pc = "clear"
      BY <2>15, WorkerMoves, StopsIs DEF CommitAccel, At
    <3> QED
      BY <2>2, <3>1
  <2>16. CASE Release
    BY <2>2, <2>16 DEF Release, At, Idle
  <2> QED
    BY <1>6, <2>3, <2>4, <2>5, <2>6, <2>7, <2>8, <2>9, <2>10, <2>11, <2>12, <2>13, <2>14, <2>15, <2>16
    DEF Worker, WorkerPersists
<1> QED
  BY <1>2, <1>3, <1>4, <1>5, <1>6 DEF Next, Kinds
-----------------------------------------------------------------------------
(* The transaction *)

\* The coefficients in a transaction stay, only what is noted of it changes.
SameCandidate ==
    /\ pending'.id = pending.id /\ pending'.effect = pending.effect /\ pending'.part = pending.part
    /\ pending'.keep = pending.keep /\ pending'.persist = pending.persist
    /\ pending'.held => pending.held

LEMMA SameCoefficients ==
    ASSUME Typed
    PROVE  /\ RetrimStore \/ Tail => ram'["bias"] = ram["bias"] /\ ram'["matrix"] = ram["matrix"]
           /\ FrameSave \/ PowerDrop \/ (\E off \in BOOLEAN : PowerRetain(off)) =>
                 \A c \in {"bias", "matrix", "temp", "trim"} : ram'[c] = ram[c]
BY DEF Typed, Memories, RetrimStore, Tail, FrameSave, PowerDrop, PowerRetain, Retains

LEMMA CarriedKept ==
    ASSUME Typed, Carried, SameCandidate, UNCHANGED <<receipt, plock>>, flag'.clearing = flag.clearing,
           ~flag.clearing \/ pending' = pending,
           worker'.pc = "written" => worker.pc = "written", power'= "written" => power = "written",
           ram'["bias"] = ram["bias"], ram'["matrix"] = ram["matrix"]
    PROVE  Carried'
<1>1. pending.part \in {"bias", "matrix"}
  BY DEF Typed, Transactions
<1> QED
  BY <1>1 DEF Carried, SameCandidate, Busy

LEMMA CarriedCandidate ==
    ASSUME Typed, Carried, Holders, NEW j \in Jobs, NEW who, NEW effect \in Effects \ {"none"},
           NEW part \in {"bias", "matrix"}, NEW keep \in BOOLEAN, NEW err \in BOOLEAN, NEW g \in Nat,
           part = "bias" \/ keep,
           pending' = Candidate(j, who, effect, part, keep, err, g), Admits,
           UNCHANGED <<receipt, plock, flag, power>>, worker'.pc # "written"
    PROVE  Carried'
<1>1. j \in Coefficients /\ j # 0
  BY BoundsAssumption DEF Jobs, Coefficients
<1>2. /\ pending'.id = j /\ pending'.effect = effect /\ pending'.part = part
      /\ pending'.keep = keep /\ pending'.persist = FALSE
  BY DEF Candidate
<1>3. ~flag.clearing /\ ~pending.persist /\ plock.by \notin {"worker", "power"} /\ power # "written"
  BY DEF Admits, Carried, Holders
<1> QED
  BY <1>1, <1>2, <1>3 DEF Carried, Busy

LEMMA CarriedApply ==
    ASSUME Typed, Carried, Holders, NEW close \in BOOLEAN, ApplyPending(close),
           UNCHANGED <<receipt, plock, ram, worker>>, power' = "written" => power = "written"
    PROVE  Carried'
<1>1. CASE ~flag.clearing /\ pending.effect # "none"
  <2>1. pending.id # 0 /\ ~pending.persist
    BY <1>1 DEF Carried, Busy
  <2>2. /\ pending' = [pending EXCEPT !.effect = "none", !.persist = TRUE,
                                      !.changed = pending.effect # "coefficients"]
        /\ flag'.clearing = flag.clearing
    BY <1>1, <2>1, Applies
  <2>3. /\ pending'.id = pending.id /\ pending'.effect = "none" /\ pending'.part = pending.part
        /\ pending'.keep = pending.keep /\ pending'.persist = TRUE
    BY <2>2 DEF Typed, Transactions
  <2>4. plock.by \notin {"worker", "power"}
    BY <2>1 DEF Carried
  <2>5. worker.pc # "written" /\ power # "written"
    BY <2>4 DEF Holders
  <2> QED
    BY <1>1, <2>1, <2>2, <2>3, <2>4, <2>5 DEF Carried, Busy
<1>2. CASE ~(~flag.clearing /\ pending.effect # "none")
  <2>1. pending' = pending /\ flag'.clearing = flag.clearing
    BY <1>2 DEF ApplyPending, Typed, Flags
  <2> QED
    BY <2>1, CarriedKept DEF SameCandidate
<1> QED
  BY <1>1, <1>2

LEMMA CarriedPersist ==
    ASSUME Typed, Carried, Holders, NEW t \in {"worker", "power"},
           \/ PersistBegin(t) /\ worker'.pc # "written" /\ power' # "written"
           \/ PersistWrite(t)
           \/ PersistEnd(t) /\ worker'.pc # "written" /\ power' # "written"
    PROVE  Carried'
<1>0. pending \in Transactions /\ pending.part \in {"bias", "matrix"}
  BY DEF Typed, Transactions
<1>1. CASE PersistBegin(t) /\ worker'.pc # "written" /\ power' # "written"
  <2>1. plock'.next = pending /\ pending.persist /\ UNCHANGED <<pending, receipt, flag>>
    BY <1>1, PersistBegins DEF PersistBegin
  <2> QED
    BY <1>1, <2>1 DEF Carried
<1>2. CASE PersistWrite(t)
  <2>1. UNCHANGED <<pending, receipt, flag>> /\ plock.by = t /\ plock'.by = t
        /\ plock'.next.id = plock.next.id /\ plock'.next.part = plock.next.part
        /\ plock'.next.keep = plock.next.keep
        /\ (plock.next.keep => ram'[plock.next.part] = plock.next.id)
    BY <1>2, PersistWrites DEF PersistWrite
  <2>2. pending.persist
        /\ plock.next.id = pending.id /\ plock.next.part = pending.part /\ plock.next.keep = pending.keep
    BY <2>1 DEF Carried
  <2> QED
    BY <2>1, <2>2 DEF Carried
<1>3. CASE PersistEnd(t) /\ worker'.pc # "written" /\ power' # "written"
  <2>0. plock.by = t
    BY <1>3 DEF PersistEnd
  <2>1. pending.id # 0 /\ pending.persist /\ pending.effect = "none" /\ ~flag.clearing
    BY <2>0, EmptyIs DEF Carried, Busy
  <2>2. /\ plock'.by = "free" /\ flag'.clearing = FALSE /\ pending'.id = pending.id
        /\ pending'.effect = pending.effect /\ ~pending'.persist /\ pending'.part = pending.part
    BY <1>3, <2>1, PersistEnds DEF NoWriter, Typed, Flags
  <2> QED
    BY <1>3, <2>1, <2>2 DEF Carried, Busy
<1> QED
  BY <1>1, <1>2, <1>3

LEMMA CarriedStep ==
    ASSUME Typed, Numbered, SlotInv, Holders, Carried, Next
    PROVE  Carried'
<1>0. /\ worker \in Workers /\ flag \in Flags /\ clear \in Clears /\ plock \in Locks
      /\ pending \in Transactions /\ NoWriter.by = "free" /\ worker.id \in Coefficients
      /\ worker.gen \in Nat /\ worker.err \in BOOLEAN /\ 0 \in Nat
  BY DEF Typed, NoWriter, Flags, Workers
<1>1. ASSUME UNCHANGED <<pending, receipt, plock>>, flag'.clearing = flag.clearing,
             worker'.pc = "written" => worker.pc = "written", power'= "written" => power = "written",
             ram'["bias"] = ram["bias"], ram'["matrix"] = ram["matrix"]
      PROVE  Carried'
  BY <1>1, CarriedKept DEF SameCandidate
<1>2. ASSUME NEW kind \in Kinds, NEW who \in {"user", "silent"}, Request(kind, who)
      PROVE  Carried'
  BY <1>1, <1>2 DEF Request
<1>3. ASSUME NEW kind \in Kinds, Reset(kind)
      PROVE  Carried'
  <2>1. NextJob \in Jobs
    BY <1>3, Fresh DEF Reset
  <2>2. Admits /\ UNCHANGED <<receipt, plock, flag, power, worker>>
    BY <1>3 DEF Reset
  <2>3. worker.pc # "written"
    BY <2>2 DEF Admits, Carried, Holders
  <2>4. CASE kind = "imu"
    <3>1. pending' = Candidate(NextJob, "reset", "frame", "bias", TRUE, FALSE, 0)
      BY <1>3, <2>4 DEF Reset
    <3> QED
      BY <1>0, <2>1, <2>2, <2>3, <3>1, CarriedCandidate DEF Effects
  <2>5. CASE kind # "imu"
    <3>1. pending' = Candidate(NextJob, "reset", "coefficients", "matrix", TRUE, FALSE, 0)
      BY <1>3, <2>5 DEF Reset
    <3> QED
      BY <1>0, <2>1, <2>2, <2>3, <3>1, CarriedCandidate DEF Effects
  <2> QED
    BY <2>4, <2>5
<1>4. CASE Clear
  <2>1. UNCHANGED <<worker, power>>
    BY <1>4, ClearLeaves
  <2>2. CASE ClearLock
    <3>1. plock.by = "free" /\ plock'.by = "clear" /\ UNCHANGED <<pending, receipt, flag, ram>>
      BY <1>0, <2>2 DEF ClearLock
    <3> QED
      BY <2>1, <3>1 DEF Carried
  <2>3. CASE ClearInvalidate \/ ClearGate
    BY <1>1, <2>1, <2>3 DEF ClearInvalidate, ClearGate
  <2>4. CASE ClearWipe
    <3>1. pending' = Empty /\ receipt'.id = 0 /\ plock' = plock /\ clear.pc = "wipe"
      BY <2>4 DEF ClearWipe, NoReceipt, ClearStep, ClearAt
    <3>2. plock.by = "clear"
      BY <3>1 DEF Holders
    <3>3. worker.pc # "written" /\ power # "written"
      BY <3>2 DEF Holders
    <3> QED
      BY <2>1, <3>1, <3>2, <3>3, EmptyIs DEF Carried, Busy
  <2>5. CASE ClearErase
    <3>1. clear.pc = "erase" /\ UNCHANGED <<pending, receipt, flag, plock>> /\ storage = "free"
      BY <2>5 DEF ClearErase, ClearStep, ClearAt
    <3>2. plock.by = "clear" /\ worker.pc # "written" /\ power # "written"
      BY <3>1 DEF Holders
    <3> QED
      BY <2>1, <3>1, <3>2 DEF Carried
  <2>6. CASE ClearEnd
    <3>1. clear.pc \in {"end", "release"} /\ UNCHANGED <<pending, receipt, ram>> /\ plock'.by = "free"
          /\ flag'.clearing = FALSE
      BY <1>0, <2>6 DEF ClearEnd, ClearAt, Flags
    <3> QED
      BY <2>1, <3>1 DEF Carried
  <2> QED
    BY <1>4, <2>2, <2>3, <2>4, <2>5, <2>6 DEF Clear
<1>5. CASE Sensor
  <2>1. UNCHANGED <<worker, power, plock>>
    BY <1>5, SensorLeaves
  <2>2. CASE FrameApply
    BY <2>1, <2>2, CarriedApply DEF FrameApply
  <2>3. CASE FrameConsume
    BY <1>1, <2>1, <2>3 DEF FrameConsume
  <2>4. CASE FrameApplied
    <3>1. /\ receipt' = NoReceipt /\ ram' = ram
          /\ flag' = [flag EXCEPT !.stale = FALSE]
          /\ pending' = [pending EXCEPT !.held = @ /\ ~Completes(pending, FALSE)]
      BY <2>4 DEF FrameApplied
    <3>2. SameCandidate /\ flag'.clearing = flag.clearing /\ receipt'.id = 0
      BY <1>0, <3>1 DEF SameCandidate, Transactions, Flags, NoReceipt
    <3>3. flag.clearing => pending' = Empty
      <4>1. ASSUME flag.clearing
            PROVE  pending' = Empty
        <5>1. pending = Empty
          BY <4>1 DEF Carried
        <5>2. (pending.held /\ ~Completes(pending, FALSE)) = FALSE
          BY <5>1 DEF Empty
        <5>3. pending' = [Empty EXCEPT !.held = FALSE]
          BY <3>1, <5>1, <5>2
        <5> QED
          BY <5>3 DEF Empty
      <4> QED
        BY <4>1
    <3>4. pending.part \in {"bias", "matrix"}
      BY <1>0 DEF Transactions
    <3> QED
      BY <2>1, <3>1, <3>2, <3>3, <3>4 DEF Carried, SameCandidate, Busy
  <2>5. CASE FrameSave
    BY <1>1, <2>1, <2>5, SameCoefficients DEF FrameSave
  <2> QED
    BY <1>5, <2>2, <2>3, <2>4, <2>5 DEF Sensor
<1>6. CASE PowerSuspend \/ PowerStep
  <2>1. UNCHANGED <<worker, clear>>
    BY <1>6, PowerLeaves
  <2>2. CASE PowerSuspend
    <3>1. flag'.clearing = flag.clearing
      BY <1>0, <2>2 DEF PowerSuspend, Flags
    <3> QED
      BY <1>1, <2>1, <2>2, <3>1 DEF PowerSuspend
  <2>3. CASE PowerApply
    BY <2>1, <2>3, CarriedApply DEF PowerApply
  <2>4. CASE PowerPersists
    <3>1. CASE PowerAt("persist") /\ PersistBegin("power") /\ power' = "write"
      <4>1. worker.pc # "written"
        BY <3>1, PersistBegins DEF Holders
      <4> QED
        BY <2>1, <3>1, <4>1, CarriedPersist
    <3>2. CASE PowerAt("write") /\ PersistWrite("power") /\ power' = "written"
      BY <3>2, CarriedPersist
    <3>3. CASE PowerAt("written") /\ PersistEnd("power") /\ power' = "drop"
      <4>1. worker.pc # "written"
        BY <3>3 DEF PersistEnd, Holders
      <4> QED
        BY <2>1, <3>3, <4>1, CarriedPersist
    <3> QED
      BY <2>4, <3>1, <3>2, <3>3 DEF PowerPersists
  <2>5. CASE PowerHasNothing
    BY <1>1, <2>1, <2>5 DEF PowerHasNothing
  <2>6. CASE PowerDrop \/ \E off \in BOOLEAN : PowerRetain(off)
    BY <1>1, <2>1, <2>6, SameCoefficients DEF PowerDrop, PowerRetain
  <2> QED
    BY <1>6, <2>2, <2>3, <2>4, <2>5, <2>6 DEF PowerStep
<1>7. CASE Worker
  <2>1. UNCHANGED <<power, clear>>
    BY <1>7, WorkerLeaves
  <2>2. CASE WorkerPersists
    <3>1. CASE At("top") /\ PersistBegin("worker") /\ Goes("write")
      <4>1. power # "written" /\ worker'.pc = "write"
        BY <3>1, PersistBegins, WorkerMoves DEF Holders
      <4> QED
        BY <2>1, <3>1, <4>1, CarriedPersist
    <3>2. CASE At("write") /\ PersistWrite("worker") /\ Goes("written")
      BY <3>2, CarriedPersist
    <3>3. CASE At("written") /\ PersistEnd("worker") /\ Goes("look")
      <4>1. power # "written" /\ worker'.pc = "look"
        BY <3>3, WorkerMoves DEF PersistEnd, Holders
      <4> QED
        BY <2>1, <3>3, <4>1, CarriedPersist
    <3> QED
      BY <2>2, <3>1, <3>2, <3>3 DEF WorkerPersists
  <2>3. ASSUME UNCHANGED <<pending, receipt, plock>>, flag'.clearing = flag.clearing,
               worker'.pc # "written", ram'["bias"] = ram["bias"], ram'["matrix"] = ram["matrix"]
        PROVE  Carried'
    BY <1>1, <2>1, <2>3
  <2>4. CASE WorkerHasNothing
    BY <2>3, <2>4, WorkerMoves DEF WorkerHasNothing
  <2>5. CASE Look
    <3>1. worker'.pc \in {"top", "collect"}
      BY <2>5, WorkerMoves DEF Look, Idle
    <3> QED
      BY <2>3, <2>5, <3>1 DEF Look
  <2>6. CASE CollectFails
    BY <2>3, <2>6, StopsIs DEF CollectFails
  <2>7. CASE RetrimBegin
    <3>1. flag'.clearing = flag.clearing
      BY <1>0, <2>7 DEF RetrimBegin, Flags
    <3> QED
      BY <2>3, <2>7, <3>1, WorkerMoves DEF RetrimBegin, Collecting
  <2>8. ASSUME NEW pc \in {"trimmed", "clear"}, RetrimResume(pc)
        PROVE  Carried'
    <3>1. flag'.clearing = flag.clearing
      BY <1>0, <2>8 DEF RetrimResume, Flags
    <3>2. worker'.pc \in {"trimmed", "clear"}
      BY <2>8, WorkerMoves, StopsIs DEF RetrimResume, Collecting
    <3> QED
      BY <2>3, <2>8, <3>1, <3>2 DEF RetrimResume
  <2>9. CASE RetrimStore
    <3>1. worker'.pc \in {"collect", "clear"}
      BY <1>0, <2>9, StopsIs DEF RetrimStore, Workers
    <3> QED
      BY <2>3, <2>9, <3>1, SameCoefficients DEF RetrimStore
  <2>10. CASE OpenTransaction
    <3>1. worker'.pc \in {"commit", "clear"}
      BY <2>10, WorkerMoves, StopsIs DEF OpenTransaction, Collecting
    <3> QED
      BY <2>3, <2>10, <3>1 DEF OpenTransaction
  <2>11. ASSUME NEW keep \in BOOLEAN, CommitBias(keep)
         PROVE  Carried'
    <3>1. CASE Valid(worker.gen) /\ Admits
      <4>1. /\ pending' = Candidate(worker.id, client[worker.id], "bias", "bias", keep, worker.err, worker.gen)
            /\ worker'.pc = "tail" /\ UNCHANGED <<receipt, plock, flag>>
        BY <1>0, <2>11, <3>1 DEF CommitBias, Workers
      <4>2. worker.id \in Jobs
        BY <1>0, <2>11, Positive DEF CommitBias, At, SlotInv, Collecting
      <4> QED
        BY <1>0, <2>1, <2>11, <3>1, <4>1, <4>2, CarriedCandidate DEF Effects
    <3>2. CASE ~(Valid(worker.gen) /\ Admits)
      BY <2>3, <2>11, <3>2, StopsIs DEF CommitBias
    <3> QED
      BY <3>1, <3>2
  <2>12. CASE Tail
    <3>1. worker'.pc = "clear"
      BY <2>12, WorkerMoves DEF Tail
    <3>2. CASE pending' = pending
      BY <2>3, <2>12, <3>1, <3>2, SameCoefficients DEF Tail
    <3>3. CASE pending' = [pending EXCEPT !.err = TRUE] /\ Busy(pending)
      <4>1. ~flag.clearing
        BY <3>3, EmptyIs DEF Carried, Busy
      <4>2. SameCandidate
        BY <1>0, <3>3 DEF SameCandidate, Transactions
      <4> QED
        BY <2>1, <2>12, <3>1, <4>1, <4>2, CarriedKept, SameCoefficients DEF Tail
    <3> QED
      BY <2>12, <3>2, <3>3 DEF Tail, Busy
  <2>13. CASE CommitAccel
    <3>1. CASE Valid(worker.gen) /\ Admits
      <4>1. /\ pending' = Candidate(worker.id, client[worker.id], "frame", "matrix", TRUE, FALSE, worker.gen)
            /\ worker'.pc = "clear" /\ UNCHANGED <<receipt, plock, flag>>
        BY <2>13, <3>1, WorkerMoves DEF CommitAccel
      <4>2. worker.id \in Jobs
        BY <1>0, <2>13, Positive DEF CommitAccel, At, SlotInv, Collecting
      <4> QED
        BY <1>0, <2>1, <3>1, <4>1, <4>2, CarriedCandidate DEF Effects
    <3>2. CASE ~(Valid(worker.gen) /\ Admits)
      BY <2>3, <2>13, <3>2, StopsIs DEF CommitAccel
    <3> QED
      BY <3>1, <3>2
  <2>14. CASE Release
    BY <2>3, <2>14 DEF Release, Idle
  <2> QED
    BY <1>7, <2>2, <2>4, <2>5, <2>6, <2>7, <2>8, <2>9, <2>10, <2>11, <2>12, <2>13, <2>14 DEF Worker
<1> QED
  BY <1>2, <1>3, <1>4, <1>5, <1>6, <1>7 DEF Next, Kinds

\* The first layer together.
Shape == Typed /\ Numbered /\ SlotInv /\ Holders /\ Carried
LEMMA ShapeStep == Shape /\ Next => Shape'
<1> SUFFICES ASSUME Shape, Next
             PROVE  Shape'
  OBVIOUS
<1>1. Typed'
  <2>1. ASSUME NEW kind \in Kinds, NEW who \in {"user", "silent"}, Request(kind, who)
        PROVE  Typed'
    BY <2>1, RequestTyped DEF Shape
  <2>2. ASSUME NEW kind \in Kinds, Reset(kind)
        PROVE  Typed'
    BY <2>2, ResetTyped DEF Shape
  <2> QED
    BY <2>1, <2>2, ClearTyped, WorkerTyped, SensorTyped, PowerTyped DEF Next, Shape, Kinds
<1> QED
  BY <1>1, NumberedStep, SlotStep, HoldersStep, CarriedStep DEF Shape
-----------------------------------------------------------------------------
(* The steps of the worker by what they change *)

SameLog ==
    /\ log'.admitted = log.admitted /\ log'.applied = log.applied /\ log'.frame = log.frame
    /\ log'.saved = log.saved /\ log'.unsaved = log.unsaved /\ log'.withdrawn = log.withdrawn
    /\ log'.fleeting = log.fleeting /\ log'.erased = log.erased
SameFlags == flag'.stale = flag.stale /\ flag'.clearing = flag.clearing /\ flag'.closing = flag.closing
SameRam == \A c \in {"bias", "matrix", "temp", "trim"} : ram'[c] = ram[c]
SameData == UNCHANGED <<pending, receipt, flash>> /\ SameRam /\ SameLog

Rests == SameData /\ SameFlags /\ UNCHANGED <<slot, end, told>> /\ ~Committed /\ ~Committed'
Drops == /\ SameData /\ SameFlags /\ slot.id # 0 /\ slot.gen # gen /\ slot' = NoSlot
         /\ told' = Told(told, slot.id, "cancelled") /\ end' = Ended(end, slot.id, "cancelled")
         /\ ~Committed /\ ~Committed'
Fails == /\ SameData /\ SameFlags /\ slot' = slot /\ slot.id # 0
         /\ \E outcome \in {"failed", "cancelled"} :
               /\ outcome = "cancelled" => slot.gen # gen
               /\ told' = Told(told, slot.id, outcome) /\ end' = Ended(end, slot.id, outcome)
         /\ ~Committed /\ worker'.pc = "clear"
Writes(c) == /\ \A d \in {"bias", "matrix", "temp", "trim"} :
                   /\ ram'[d] = ram[d] \/ (d = c /\ ram'[d] = slot.id)
                   /\ flash'[d] = flash[d] \/ (d = c /\ flash'[d] = slot.id)
             /\ slot' = slot /\ slot.id # 0 /\ SameLog /\ SameFlags
Trims == /\ Writes("trim") /\ UNCHANGED <<pending, receipt, end, told>>
         /\ slot.gen = gen /\ ~Committed /\ ~Committed'
Commits == /\ UNCHANGED <<slot, receipt, flash, ram, end, told>> /\ SameFlags
           /\ slot.id # 0 /\ slot.gen = gen /\ ~Committed /\ worker'.pc \in {"tail", "clear"} /\ worker'.id = slot.id
           /\ Admits
           /\ \E effect \in {"bias", "frame"}, part \in {"bias", "matrix"}, keep \in BOOLEAN, err \in BOOLEAN :
                 /\ part = "bias" \/ keep
                 /\ pending' = Candidate(slot.id, client[slot.id], effect, part, keep, err, worker.gen)
                 /\ log' = [log EXCEPT !.admitted = @ \cup {slot.id},
                                       !.fleeting = IF keep THEN @ ELSE @ \cup {slot.id}]
Closes == /\ Writes("temp") /\ UNCHANGED <<receipt, end, told>> /\ SameCandidate
         /\ pending'.changed = pending.changed /\ pending'.held = pending.held /\ pending'.op = pending.op
         /\ worker.pc = "tail" /\ worker'.pc = "clear"
Frees == /\ SameData /\ SameFlags /\ UNCHANGED <<end, told>> /\ slot' = NoSlot /\ Committed /\ ~Committed'

LEMMA WorkerCases ==
    ASSUME Shape, Worker
    PROVE  /\ \/ Rests \/ Drops \/ Fails \/ Trims \/ Commits \/ Closes \/ Frees
              \/ /\ PersistBegin("worker") \/ PersistWrite("worker") \/ PersistEnd("worker")
                 /\ slot' = slot /\ ~Committed /\ ~Committed'
           /\ sensor'.pc = sensor.pc
           /\ (sensor.suspended => sensor'.suspended) \/ power = "run" \/ log'.revived
           /\ log.revived => log'.revived
<1>0. /\ worker \in Workers /\ worker.id \in Coefficients /\ sensor \in Sensors /\ flag \in Flags
      /\ ram \in Memories /\ flash \in Flashes /\ log \in Logs /\ pending \in Transactions
      /\ worker.err \in BOOLEAN
  BY DEF Shape, Typed, Workers
<1>1. \A g \in Nat : Valid(g) /\ g > 0 => g = gen
  BY DEF Valid
<1>2. worker.pc \in Collecting \cup {"tail"} => /\ slot.id # 0 /\ worker.id = slot.id /\ worker.gen = slot.gen
                                                /\ slot.gen > 0 /\ slot.gen \in Nat
  BY DEF Shape, SlotInv, Typed, Slots
<1>3. ASSUME UNCHANGED <<pending, receipt, flash, ram, log, slot, end, told>>, SameFlags,
             worker.pc \notin {"tail", "clear"}, worker'.pc \notin {"tail", "clear"}
      PROVE  Rests
  BY <1>3 DEF Rests, SameData, SameRam, SameLog, Committed
<1>4. ASSUME UNCHANGED <<pending, receipt, flash, ram, slot>>, SameFlags, SameLog,
             worker.pc \in Collecting, NEW outcome \in {"failed", "cancelled"}, Stops(outcome),
             outcome = "cancelled" => ~Valid(worker.gen)
      PROVE  Fails
  <2>1. outcome = "cancelled" => slot.gen # gen
    BY <1>2, <1>4 DEF Valid
  <2>2. told' = Told(told, slot.id, outcome) /\ end' = Ended(end, slot.id, outcome) /\ worker'.pc = "clear"
    BY <1>2, <1>4, StopsIs DEF Shape
  <2> QED
    BY <1>2, <1>4, <2>1, <2>2 DEF Fails, SameData, SameRam, Committed, Collecting
<1>5. CASE WorkerPersists
  <2>1. slot' = slot /\ sensor' = sensor
    BY <1>5 DEF WorkerPersists, PersistBegin, PersistWrite, PersistEnd
  <2>2. log'.revived = log.revived
    <3>1. CASE PersistEnd("worker")
      <4>1. pending.id # 0
        BY <3>1 DEF PersistEnd, Shape, Carried, Busy
      <4> QED
        BY <1>0, <3>1, <4>1, PersistEnds DEF Shape, Logs
    <3> QED
      BY <1>5, <3>1 DEF WorkerPersists, PersistBegin, PersistWrite
  <2>3. ~Committed /\ ~Committed'
    BY <1>5, WorkerMoves DEF WorkerPersists, At, Committed, Shape
  <2> QED
    BY <1>5, <2>1, <2>2, <2>3 DEF WorkerPersists
<1>6. CASE WorkerHasNothing
  <2>1. Rests
    BY <1>3, <1>6, WorkerMoves DEF WorkerHasNothing, SameFlags, At, Shape
  <2> QED
    BY <1>6, <2>1 DEF WorkerHasNothing
<1>7. CASE Look
  <2>0. slot.id # 0 <=> slot.kind # "none"
    BY DEF Shape, SlotInv
  <2>1. worker'.pc \in {"top", "collect"} /\ worker.pc = "look"
    BY <1>7, WorkerMoves DEF Look, Idle, Shape, At
  <2>2. Rests \/ Drops
    <3>1. CASE slot.kind # "none" /\ ~Valid(slot.gen)
      BY <1>7, <2>0, <2>1, <3>1
      DEF Look, Drops, SameData, SameRam, SameLog, SameFlags, Committed, Valid
    <3>2. CASE ~(slot.kind # "none" /\ ~Valid(slot.gen))
      BY <1>3, <1>7, <2>1, <3>2 DEF Look, SameFlags
    <3> QED
      BY <3>1, <3>2
  <2> QED
    BY <1>7, <2>2 DEF Look
<1>8. CASE CollectFails
  <2>1. Fails
    BY <1>4, <1>8 DEF CollectFails, SameFlags, SameLog, At, Collecting
  <2> QED
    BY <1>8, <2>1 DEF CollectFails
<1>9. CASE RetrimBegin
  <2>1. SameFlags
    BY <1>0, <1>9 DEF RetrimBegin, SameFlags, Flags
  <2>2. Rests
    BY <1>3, <1>9, <2>1, WorkerMoves DEF RetrimBegin, At, Shape, Collecting
  <2>3. sensor'.pc = sensor.pc /\ sensor'.suspended
    BY <1>0, <1>9 DEF RetrimBegin, Sensors
  <2> QED
    BY <1>9, <2>2, <2>3 DEF RetrimBegin
<1>10. ASSUME NEW pc \in {"trimmed", "clear"}, RetrimResume(pc)
       PROVE  /\ Rests \/ Fails
              /\ sensor'.pc = sensor.pc /\ (power = "run" \/ log'.revived) /\ (log.revived => log'.revived)
  <2>1. SameFlags
    BY <1>0, <1>10 DEF RetrimResume, SameFlags, Flags
  <2>2. sensor'.pc = sensor.pc
    BY <1>0, <1>10 DEF RetrimResume, Sensors
  <2>3. SameLog /\ log'.revived = (log.revived \/ power # "run")
    BY <1>0, <1>10 DEF RetrimResume, Logs, SameLog
  <2>4. CASE pc = "clear"
    BY <1>4, <1>10, <2>1, <2>2, <2>3, <2>4 DEF RetrimResume, At, Collecting
  <2>5. CASE pc = "trimmed"
    <3>1. worker'.pc = "trimmed" /\ worker.pc = "retrim" /\ UNCHANGED <<pending, receipt, flash, ram, slot, end, told>>
      BY <1>10, <2>5, WorkerMoves DEF RetrimResume, At, Collecting, Shape
    <3> QED
      BY <2>1, <2>2, <2>3, <3>1 DEF Rests, SameData, SameRam, Committed
  <2> QED
    BY <2>4, <2>5
<1>11. CASE RetrimStore
  <2>1. CASE ~Valid(worker.gen)
    <3>1. Stops("cancelled") /\ UNCHANGED <<pending, receipt, flash, ram, slot, log, flag>> /\ worker.pc = "trimmed"
      BY <1>11, <2>1 DEF RetrimStore, At
    <3>2. Fails
      BY <1>4, <2>1, <3>1 DEF SameFlags, SameLog, Collecting
    <3> QED
      BY <1>11, <3>2 DEF RetrimStore
  <2>2. CASE Valid(worker.gen)
    <3>1. /\ ram' = [ram EXCEPT !.trim = worker.id] /\ (flash' = flash \/ flash' = [flash EXCEPT !.trim = worker.id])
          /\ UNCHANGED <<pending, receipt, slot, log, flag, end, told>> /\ worker.pc = "trimmed"
      BY <1>11, <2>2 DEF RetrimStore, At
    <3>2. worker'.pc = "collect"
      BY <1>0, <1>11, <2>2 DEF RetrimStore, Workers
    <3>3. slot.gen = gen /\ slot.id # 0 /\ worker.id = slot.id
      BY <1>2, <2>2, <3>1 DEF Collecting, Valid
    <3>4. Writes("trim")
      BY <1>0, <3>1, <3>3 DEF Writes, Memories, Flashes, SameLog, SameFlags
    <3>5. Trims
      BY <3>1, <3>2, <3>3, <3>4 DEF Trims, Committed
    <3> QED
      BY <1>11, <3>5 DEF RetrimStore
  <2> QED
    BY <2>1, <2>2
<1>12. CASE OpenTransaction
  <2>1. Fails \/ Rests
    BY <1>3, <1>4, <1>12, WorkerMoves DEF OpenTransaction, SameFlags, SameLog, At, Collecting, Shape
  <2> QED
    BY <1>12, <2>1 DEF OpenTransaction
<1>13. ASSUME UNCHANGED <<slot, receipt, flash, ram, end, told, flag>>, worker.pc \in Collecting,
              Valid(worker.gen), Admits, worker'.pc \in {"tail", "clear"}, worker'.id = worker.id,
              NEW effect \in {"bias", "frame"}, NEW part \in {"bias", "matrix"}, NEW keep \in BOOLEAN,
              NEW err \in BOOLEAN, part = "bias" \/ keep,
              pending' = Candidate(worker.id, client[worker.id], effect, part, keep, err, worker.gen),
              log' = [log EXCEPT !.admitted = @ \cup {worker.id},
                                 !.fleeting = IF keep THEN @ ELSE @ \cup {worker.id}]
       PROVE  Commits
  <2>1. slot.id # 0 /\ worker.id = slot.id /\ slot.gen = gen
    BY <1>2, <1>13 DEF Valid
  <2>2. /\ pending' = Candidate(slot.id, client[slot.id], effect, part, keep, err, worker.gen)
        /\ log' = [log EXCEPT !.admitted = @ \cup {slot.id},
                              !.fleeting = IF keep THEN @ ELSE @ \cup {slot.id}]
    BY <1>13, <2>1
  <2>3. SameFlags /\ ~Committed
    BY <1>13 DEF SameFlags, Committed, Collecting
  <2> QED
    BY <1>13, <2>1, <2>2, <2>3 DEF Commits
<1>14. ASSUME NEW keep \in BOOLEAN, CommitBias(keep)
       PROVE  (Commits \/ Fails) /\ sensor' = sensor /\ log'.revived = log.revived
  <2>1. sensor' = sensor /\ log'.revived = log.revived
    BY <1>0, <1>14 DEF CommitBias, Logs
  <2>2. CASE Valid(worker.gen) /\ Admits
    <3>1. worker'.pc = "tail" /\ worker'.id = worker.id
      BY <1>0, <1>14, <2>2 DEF CommitBias, Workers
    <3>2. /\ UNCHANGED <<slot, receipt, flash, ram, end, told, flag>> /\ worker.pc \in Collecting
          /\ pending' = Candidate(worker.id, client[worker.id], "bias", "bias", keep, worker.err, worker.gen)
          /\ log' = [log EXCEPT !.admitted = @ \cup {worker.id},
                                !.fleeting = IF keep THEN @ ELSE @ \cup {worker.id}]
      BY <1>14, <2>2 DEF CommitBias, At, Collecting
    <3>3. Commits
      BY <1>0, <1>13, <2>2, <3>1, <3>2
    <3> QED
      BY <2>1, <3>3
  <2>3. CASE ~(Valid(worker.gen) /\ Admits)
    <3>1. Fails
      BY <1>4, <1>14, <2>3 DEF CommitBias, SameFlags, SameLog, At, Collecting
    <3> QED
      BY <2>1, <3>1
  <2> QED
    BY <2>2, <2>3
<1>15. CASE Tail
  <2>1. worker.pc = "tail" /\ worker'.pc = "clear" /\ UNCHANGED <<slot, receipt, end, told, log, flag, sensor>>
    BY <1>15, WorkerMoves DEF Tail, At, Shape
  <2>2. slot.id # 0 /\ worker.id = slot.id
    BY <1>2, <2>1
  <2>3. (ram' = ram \/ ram' = [ram EXCEPT !.temp = worker.id]) /\ (flash' = flash \/ flash' = [flash EXCEPT !.temp = worker.id])
    BY <1>15 DEF Tail
  <2>4. Writes("temp")
    BY <1>0, <2>1, <2>2, <2>3 DEF Writes, Memories, Flashes, SameLog, SameFlags
  <2>5. pending' = pending \/ pending' = [pending EXCEPT !.err = TRUE]
    BY <1>15 DEF Tail
  <2>6. SameCandidate /\ pending'.changed = pending.changed /\ pending'.held = pending.held /\ pending'.op = pending.op
    BY <1>0, <2>5 DEF SameCandidate, Transactions
  <2> QED
    BY <2>1, <2>4, <2>6 DEF Closes
<1>16. CASE CommitAccel
  <2>1. sensor' = sensor /\ log'.revived = log.revived
    BY <1>0, <1>16 DEF CommitAccel, Logs
  <2>2. CASE Valid(worker.gen) /\ Admits
    <3>1. worker'.pc = "clear" /\ worker'.id = worker.id
      BY <1>16, <2>2, WorkerMoves DEF CommitAccel, Shape
    <3>2. /\ UNCHANGED <<slot, receipt, flash, ram, end, told, flag>> /\ worker.pc \in Collecting
          /\ pending' = Candidate(worker.id, client[worker.id], "frame", "matrix", TRUE, FALSE, worker.gen)
          /\ log' = [log EXCEPT !.admitted = @ \cup {worker.id}]
      BY <1>16, <2>2 DEF CommitAccel, At, Collecting
    <3>3. log' = [log EXCEPT !.admitted = @ \cup {worker.id},
                             !.fleeting = IF TRUE THEN @ ELSE @ \cup {worker.id}]
      BY <1>0, <3>2 DEF Logs
    <3>4. Commits
      BY <1>13, <2>2, <3>1, <3>2, <3>3
    <3> QED
      BY <2>1, <3>4
  <2>3. CASE ~(Valid(worker.gen) /\ Admits)
    <3>1. Fails
      BY <1>4, <1>16, <2>3 DEF CommitAccel, SameFlags, SameLog, At, Collecting
    <3> QED
      BY <2>1, <3>1
  <2> QED
    BY <2>2, <2>3
<1>17. CASE Release
  <2>1. Frees
    BY <1>17 DEF Release, Frees, SameData, SameRam, SameLog, SameFlags, Committed, At, Idle
  <2> QED
    BY <1>17, <2>1 DEF Release
<1> QED
  BY <1>5, <1>6, <1>7, <1>8, <1>9, <1>10, <1>11, <1>12, <1>14, <1>15, <1>16, <1>17 DEF Worker
-----------------------------------------------------------------------------
(* What a reset-all changes *)

LEMMA MarkIs ==
    ASSUME Shape, ClearInvalidate
    PROVE  /\ Accepted = 1..clear'.mark /\ clear'.mark \in Coefficients
           /\ clear.pc = "invalidate" /\ clear'.pc = "wipe"
           /\ log' = [log EXCEPT !.withdrawn = @ \cup Uncommitted]
           /\ Uncommitted = (IF slot.id # 0 /\ ~Committed THEN {slot.id} ELSE {})
<1>1. clear' = [clear EXCEPT !.pc = "wipe", !.mark = IF Accepted = Jobs THEN MaxJobs ELSE NextJob - 1]
      /\ clear.pc = "invalidate"
  BY DEF ClearInvalidate, ClearAt
<1>2. clear'.mark = (IF Accepted = Jobs THEN MaxJobs ELSE NextJob - 1) /\ clear'.pc = "wipe"
  BY <1>1 DEF Shape, Typed, Clears
<1>3. Accepted = 1..clear'.mark /\ clear'.mark \in Coefficients
  BY <1>2, Fresh, BoundsAssumption DEF Shape, Jobs, Coefficients
<1>4. Uncommitted = (IF slot.id # 0 /\ ~Committed THEN {slot.id} ELSE {})
  BY DEF Uncommitted, Committed, Shape, SlotInv
<1> QED
  BY <1>1, <1>2, <1>3, <1>4 DEF ClearInvalidate

LEMMA WipeIs ==
    ASSUME Shape, ClearWipe
    PROVE  \E W \in SUBSET {pending.id, receipt.id} :
              /\ log' = [log EXCEPT !.withdrawn = @ \cup W] /\ W \subseteq Jobs
              /\ log'.withdrawn = log.withdrawn \cup W
              /\ Busy(pending) \/ pending.held => pending.id \in W
              /\ receipt.id # 0 => receipt.id \in W
              /\ \A j \in Jobs : \/ told'[j] = told[j]
                                 \/ /\ (j = pending.id /\ pending.held) \/ j = receipt.id
                                    /\ told[j] = "none" /\ told'[j] = "cancelled" /\ client[j] # "silent"
              /\ pending.held /\ client[pending.id] # "silent" => told'[pending.id] # "none"
              /\ receipt.id # 0 /\ client[receipt.id] # "silent" => told'[receipt.id] # "none"
              /\ \A j \in Jobs : \/ end'[j] = end[j]
                                 \/ /\ j = pending.id /\ pending.effect # "none" /\ end[j] = "none"
                                    /\ end'[j] = "cancelled"
              /\ pending' = Empty /\ receipt'.id = 0 /\ clear.pc = "wipe" /\ clear'.pc = "gate"
              /\ clear'.mark = clear.mark /\ plock.by = "clear"
              /\ flag'.stale = flag.stale /\ flag'.closing = flag.closing
<1> DEFINE u == IF pending.effect # "none" \/ pending.persist THEN {pending.id} ELSE {}
<1> DEFINE a == (IF pending.held THEN {pending.id} ELSE {}) \cup {receipt.id}
<1> DEFINE W == (u \cup a) \ {0}
<1> DEFINE owed == IF pending.held THEN Told(told, pending.id, "cancelled") ELSE told
<1>0. /\ pending.id \in Coefficients /\ receipt.id \in Coefficients /\ told \in Results /\ end \in Ends
      /\ flag \in Flags /\ clear \in Clears /\ log \in Logs
      /\ Busy(pending) \/ pending.held => pending.id # 0
  BY DEF Shape, Typed, Transactions, Receipts, Carried
<1>1. /\ log' = [log EXCEPT !.withdrawn = @ \cup W]
      /\ told' = Told(owed, receipt.id, "cancelled")
      /\ end' = IF pending.effect # "none" /\ pending.op THEN Ended(end, pending.id, "cancelled") ELSE end
      /\ pending' = Empty /\ receipt' = NoReceipt
      /\ clear.pc = "wipe" /\ clear' = [clear EXCEPT !.pc = "gate"]
      /\ flag' = [flag EXCEPT !.clearing = TRUE, !.save = FALSE]
  BY DEF ClearWipe, ClearStep, ClearAt
<1>2. /\ W \in SUBSET {pending.id, receipt.id} /\ W \subseteq Jobs
      /\ Busy(pending) \/ pending.held => pending.id \in W
      /\ receipt.id # 0 => receipt.id \in W
  BY <1>0, Positive DEF Busy
<1>3. log'.withdrawn = log.withdrawn \cup W
  BY <1>0, <1>1 DEF Logs
<1>4. /\ owed \in Results
      /\ \A j \in Jobs : \/ owed[j] = told[j]
                         \/ /\ j = pending.id /\ pending.held /\ told[j] = "none"
                            /\ owed[j] = "cancelled" /\ client[j] # "silent"
      /\ pending.held /\ client[pending.id] # "silent" => owed[pending.id] # "none"
  <2>1. /\ Told(told, pending.id, "cancelled") \in Results
        /\ \A j \in Jobs : \/ Told(told, pending.id, "cancelled")[j] = told[j]
                           \/ /\ j = pending.id /\ client[j] # "silent" /\ told[j] = "none"
                              /\ Told(told, pending.id, "cancelled")[j] = "cancelled"
        /\ pending.id # 0 /\ client[pending.id] # "silent" =>
              Told(told, pending.id, "cancelled")[pending.id] # "none"
    <3>1. told \in Results /\ pending.id \in Coefficients
      BY <1>0
    <3> QED
      BY <3>1, CancelledIs
  <2>2. CASE pending.held
    BY <1>0, <2>1, <2>2
  <2>3. CASE ~pending.held
    BY <1>0, <2>3
  <2> QED
    BY <2>2, <2>3
<1> HIDE DEF owed
<1>5. /\ \A j \in Jobs : \/ told'[j] = owed[j]
                         \/ /\ j = receipt.id /\ owed[j] = "none"
                            /\ told'[j] = "cancelled" /\ client[j] # "silent"
      /\ receipt.id # 0 /\ client[receipt.id] # "silent" => told'[receipt.id] # "none"
  <2>1. /\ \A j \in Jobs : \/ Told(owed, receipt.id, "cancelled")[j] = owed[j]
                           \/ /\ j = receipt.id /\ client[j] # "silent" /\ owed[j] = "none"
                              /\ Told(owed, receipt.id, "cancelled")[j] = "cancelled"
        /\ receipt.id # 0 /\ client[receipt.id] # "silent" =>
              Told(owed, receipt.id, "cancelled")[receipt.id] # "none"
    <3>1. owed \in Results /\ receipt.id \in Coefficients
      BY <1>0, <1>4
    <3> QED
      BY <3>1, CancelledIs
  <2> QED
    BY <1>1, <2>1
<1>6. /\ \A j \in Jobs : \/ told'[j] = told[j]
                         \/ /\ (j = pending.id /\ pending.held) \/ j = receipt.id
                            /\ told[j] = "none" /\ told'[j] = "cancelled" /\ client[j] # "silent"
      /\ pending.held /\ client[pending.id] # "silent" => told'[pending.id] # "none"
  <2>1. pending.held => pending.id \in Jobs
    BY <1>0, Positive
  <2> QED
    BY <1>4, <1>5, <2>1
<1>7. \A j \in Jobs : \/ end'[j] = end[j]
                      \/ /\ j = pending.id /\ pending.effect # "none" /\ end[j] = "none"
                         /\ end'[j] = "cancelled"
  BY <1>0, <1>1, EndedIs
<1>8. receipt'.id = 0 /\ clear'.pc = "gate" /\ clear'.mark = clear.mark /\ plock.by = "clear"
      /\ flag'.stale = flag.stale /\ flag'.closing = flag.closing
  BY <1>0, <1>1 DEF NoReceipt, Clears, Flags, Shape, Holders
<1> HIDE DEF W
<1> QED
  BY <1>1, <1>2, <1>3, <1>5, <1>6, <1>7, <1>8

-----------------------------------------------------------------------------
(* What is overtaken *)

Overtaken == Known /\ Current /\ Wiped

\* Nothing the layer speaks of changes, but the worker may move on.
LEMMA OvertakenKept ==
    ASSUME Shape, Overtaken, SameData, gen' = gen, client' = client,
           clear' = clear, slot' = slot \/ slot' = NoSlot,
           Committed => Committed' \/ slot' = NoSlot,
           worker'.pc = "tail" => worker.pc = "tail" /\ worker'.id = worker.id
    PROVE  Overtaken'
<1>1. Accepted' = Accepted /\ NoSlot.id = 0
  BY DEF Accepted, NoSlot
<1>2. Known'
  BY <1>1 DEF Overtaken, Known, SameData, SameLog
<1>3. Threshold' = Threshold
  BY DEF Threshold, SameData, SameLog
<1>5. Current'
  <2>1. slot'.id # 0 => slot' = slot
    BY <1>1
  <2>2. slot'.id # 0 /\ ~Committed' => ~Committed
    BY <1>1
  <2> QED
    BY <1>3, <2>1, <2>2 DEF Overtaken, Current, SameData, SameLog
<1>4. Wiped'
  BY DEF Overtaken, Wiped, SameData, SameLog, SameRam
<1> QED
  BY <1>2, <1>4, <1>5 DEF Overtaken
\* Whoever persists: what is noted changes, what is overtaken does not.
LEMMA OvertakenPersist ==
    ASSUME Shape, Overtaken, NEW t \in {"worker", "power"},
           PersistBegin(t) \/ PersistWrite(t) \/ PersistEnd(t),
           UNCHANGED <<slot, gen, client, clear>>, worker'.id = worker.id \/ worker'.pc # "tail",
           Committed => Committed', worker'.pc = "tail" => worker.pc = "tail"
    PROVE  Overtaken'
<1>0. Accepted' = Accepted
  BY DEF Accepted
<1>1. CASE PersistBegin(t)
  BY <1>0, <1>1 DEF PersistBegin, Overtaken, Known, Current, Wiped, Threshold
<1>2. CASE PersistWrite(t)
  <2>1. UNCHANGED <<pending, receipt, log>> /\ plock.by = t
    BY <1>2 DEF PersistWrite
  <2>2. plock.next.id > log.erased
    BY <2>1 DEF Shape, Carried, Busy, Overtaken, Current
  <2>3. Wiped'
    BY <1>2, <2>1, <2>2, PersistWrites DEF Shape, Overtaken, Wiped
  <2> QED
    BY <1>0, <2>1, <2>3 DEF Overtaken, Known, Current, Threshold
<1>3. CASE PersistEnd(t)
  <2>1. plock.by = t
    BY <1>3 DEF PersistEnd
  <2>2. pending.id # 0 /\ pending.persist /\ pending.effect = "none"
    BY <2>1 DEF Shape, Carried, Busy
  <2>3. /\ log' = IF pending'.err THEN [log EXCEPT !.unsaved = @ \cup {pending.id}]
                                  ELSE [log EXCEPT !.saved = @ \cup {pending.id}]
        /\ pending'.id = pending.id /\ pending'.effect = "none" /\ ~pending'.persist
        /\ receipt'.id \in {receipt.id, pending.id}
    BY <1>3, <2>2, PersistEnds DEF Shape
  <2>4. /\ log'.admitted = log.admitted /\ log'.withdrawn = log.withdrawn /\ log'.erased = log.erased
        /\ log'.applied = log.applied
        /\ log'.saved \cup log'.unsaved \subseteq log.saved \cup log.unsaved \cup {pending.id}
    BY <2>3 DEF Shape, Typed, Logs
  <2>5. UNCHANGED <<ram, flash>>
    BY <1>3 DEF PersistEnd
  <2> QED
    BY <1>0, <2>3, <2>4, <2>5, <2>2 DEF Overtaken, Known, Current, Wiped, Threshold, Busy
<1> QED
  BY <1>1, <1>2, <1>3
LEMMA OvertakenReset ==
    ASSUME Shape, Overtaken, NEW kind \in Kinds, Reset(kind)
    PROVE  Overtaken'
<1>0. /\ slot.gen <= gen /\ slot.gen \in Nat /\ gen \in Nat /\ log \in Logs /\ clear.mark \in Nat
      /\ log.erased \in Nat /\ slot.id \in Coefficients
      /\ (slot.id # 0 => slot.id \in Accepted)
  BY BoundsAssumption DEF Shape, Typed, Slots, SlotInv, Logs, Clears, Coefficients
<1>1. /\ NextJob \in Jobs /\ NextJob \notin Accepted /\ Accepted = 1..(NextJob - 1)
      /\ Accepted' = Accepted \cup {NextJob} /\ NextJob \in Nat /\ NextJob # 0
  BY Fresh, Grows, BoundsAssumption DEF Reset, Shape, Jobs
<1>2. /\ UNCHANGED <<slot, receipt, ram, flash, worker, clear>>
      /\ gen' = (IF slot.kind = kind THEN gen + 1 ELSE gen)
      /\ log' = [log EXCEPT !.admitted = log.admitted \cup {NextJob},
                            !.withdrawn = IF slot.kind = kind THEN log.withdrawn \cup Uncommitted ELSE log.withdrawn]
  BY DEF Reset
<1>3. pending'.id = NextJob /\ pending'.persist = FALSE
  BY DEF Reset, Candidate
<1>4. Uncommitted = (IF slot.id # 0 /\ ~Committed THEN {slot.id} ELSE {})
  BY DEF Uncommitted, Committed, Shape, SlotInv
<1>5. /\ log'.admitted = log.admitted \cup {NextJob} /\ log'.erased = log.erased
      /\ log'.withdrawn \in {log.withdrawn, log.withdrawn \cup Uncommitted}
      /\ (slot.kind # kind => log'.withdrawn = log.withdrawn)
      /\ log'.applied = log.applied /\ log'.saved = log.saved /\ log'.unsaved = log.unsaved
  BY <1>0, <1>2 DEF Logs
<1>6. Known'
  BY <1>0, <1>1, <1>2, <1>3, <1>4, <1>5 DEF Overtaken, Known
<1>7. Threshold' = Threshold
  BY <1>2, <1>5 DEF Threshold
<1>8. Current'
  <2>1. slot.gen = gen' => gen' = gen /\ slot.kind # kind
    BY <1>0, <1>2
  <2>2. NextJob > log.erased /\ NextJob \notin log'.withdrawn
    BY <1>0, <1>1, <1>4, <1>5 DEF Overtaken, Known
  <2>3. slot.id # 0 => slot.id # NextJob
    BY <1>0, <1>1
  <2> QED
    BY <1>2, <1>3, <1>5, <1>7, <2>1, <2>2, <2>3 DEF Overtaken, Current, Committed
<1>9. Wiped'
  BY <1>2, <1>5 DEF Overtaken, Wiped
<1> QED
  BY <1>6, <1>8, <1>9 DEF Overtaken

LEMMA OvertakenClear ==
    ASSUME Shape, Overtaken, Clear
    PROVE  Overtaken'
<1>0. /\ slot.gen <= gen /\ slot.gen \in Nat /\ gen \in Nat /\ log \in Logs /\ clear \in Clears /\ clear.mark \in Nat
      /\ log.erased \in Nat /\ (slot.id # 0 => slot.id \in Accepted)
      /\ UNCHANGED <<client, slot, worker>> /\ Accepted' = Accepted /\ (Committed' <=> Committed)
  <2>1. UNCHANGED <<client, slot, worker>>
    BY ClearLeaves
  <2>2. Accepted' = Accepted /\ (Committed' <=> Committed)
    BY <2>1 DEF Accepted, Committed
  <2>3. slot \in Slots /\ gen \in Nat /\ log \in Logs /\ clear \in Clears
    BY DEF Shape, Typed
  <2>4. clear.mark \in Nat /\ log.erased \in Nat /\ slot.gen \in Nat
    BY <2>3, BoundsAssumption DEF Slots, Logs, Clears, Coefficients
  <2> QED
    BY <2>1, <2>2, <2>3, <2>4 DEF Shape, SlotInv
<1>1. CASE ClearLock
  <2>1. clear.pc = "none" /\ clear'.pc = "invalidate" /\ UNCHANGED <<gen, pending, receipt, ram, flash, log>>
    BY <1>0, <1>1 DEF ClearLock, ClearAt, Clears
  <2> QED
    BY <1>0, <2>1 DEF Overtaken, Known, Current, Wiped, Threshold
<1>2. CASE ClearInvalidate
  <2>1. /\ Accepted = 1..clear'.mark /\ clear'.mark \in Nat /\ clear'.pc = "wipe" /\ clear.pc = "invalidate"
        /\ log' = [log EXCEPT !.withdrawn = log.withdrawn \cup Uncommitted]
        /\ Uncommitted = (IF slot.id # 0 /\ ~Committed THEN {slot.id} ELSE {})
    BY <1>2, MarkIs, BoundsAssumption DEF Coefficients
  <2>2. gen' = gen + 1 /\ UNCHANGED <<pending, receipt, ram, flash>>
    BY <1>2 DEF ClearInvalidate
  <2>3. /\ log'.withdrawn = log.withdrawn \cup Uncommitted /\ log'.erased = log.erased
        /\ log'.admitted = log.admitted /\ log'.applied = log.applied /\ log'.saved = log.saved
        /\ log'.unsaved = log.unsaved
    BY <1>0, <2>1 DEF Logs
  <2>4. Known'
    BY <1>0, <2>1, <2>2, <2>3 DEF Overtaken, Known
  <2>5. Current'
    <3>1. slot.gen # gen'
      BY <1>0, <2>2
    <3>2. Busy(pending) => pending.id \notin Uncommitted
      BY <2>1 DEF Overtaken, Known, Current, Shape, Carried
    <3> QED
      BY <1>0, <2>2, <2>3, <3>1, <3>2 DEF Overtaken, Current
  <2>6. Wiped'
    BY <2>2, <2>3 DEF Overtaken, Wiped
  <2> QED
    BY <2>4, <2>5, <2>6 DEF Overtaken
<1>3. CASE ClearWipe
  <2>1. PICK W \in SUBSET {pending.id, receipt.id} :
            /\ log' = [log EXCEPT !.withdrawn = log.withdrawn \cup W] /\ W \subseteq Jobs
            /\ pending' = Empty /\ receipt'.id = 0 /\ clear.pc = "wipe" /\ clear'.pc = "gate"
            /\ clear'.mark = clear.mark
    BY <1>3, WipeIs
  <2>2. /\ log'.withdrawn = log.withdrawn \cup W /\ log'.erased = log.erased
        /\ log'.admitted = log.admitted /\ log'.applied = log.applied /\ log'.saved = log.saved
        /\ log'.unsaved = log.unsaved
    BY <1>0, <2>1 DEF Logs
  <2>3. UNCHANGED <<gen, ram, flash>>
    BY <1>3 DEF ClearWipe
  <2>4. W \subseteq log.admitted
    <3>1. 0 \notin W
      BY <2>1, BoundsAssumption DEF Jobs
    <3> QED
      BY <2>1, <3>1 DEF Overtaken, Known
  <2>5. Known'
    BY <1>0, <2>1, <2>2, <2>4, EmptyIs DEF Overtaken, Known
  <2>6. Current'
    BY <1>0, <2>1, <2>2, <2>3, <2>4, EmptyIs DEF Overtaken, Current, Threshold, Busy
  <2>7. Wiped'
    BY <2>2, <2>3 DEF Overtaken, Wiped
  <2> QED
    BY <2>5, <2>6, <2>7 DEF Overtaken
<1>4. CASE ClearGate
  <2>1. /\ clear.pc = "gate" /\ clear'.pc \in {"erase", "end"} /\ clear'.mark = clear.mark
        /\ UNCHANGED <<gen, pending, receipt, ram, flash, log>>
    BY <1>0, <1>4 DEF ClearGate, ClearAt, Clears
  <2> QED
    BY <1>0, <2>1 DEF Overtaken, Known, Current, Wiped, Threshold
<1>5. CASE ClearErase
  <2>1. /\ clear.pc = "erase" /\ clear'.pc = "release" /\ storage = "free"
        /\ UNCHANGED <<gen, pending, receipt>>
    BY <1>0, <1>5 DEF ClearErase, ClearStep, ClearAt, Clears
  <2>2. worker.pc # "tail" /\ pending = Empty
    BY <2>1 DEF Shape, Holders, Carried
  <2>3. CASE UNCHANGED <<ram, flash, log>>
    BY <1>0, <2>1, <2>2, <2>3 DEF Overtaken, Known, Current, Wiped, Threshold
  <2>4. CASE ~UNCHANGED <<ram, flash, log>>
    <3>1. /\ ram' = [c \in DOMAIN ram |-> IF c = "fusion" THEN NotKept ELSE 0]
          /\ flash' = Defaults /\ log' = [log EXCEPT !.erased = clear.mark]
      BY <1>5, <2>4 DEF ClearErase
    <3>2. /\ log'.withdrawn = log.withdrawn /\ log'.erased = clear.mark
          /\ log'.admitted = log.admitted /\ log'.applied = log.applied /\ log'.saved = log.saved
          /\ log'.unsaved = log.unsaved
      BY <1>0, <3>1 DEF Logs, Clears
    <3>3. Known'
      BY <1>0, <2>1, <3>2 DEF Overtaken, Known
    <3>4. Current'
      BY <1>0, <2>1, <2>2, <3>2, EmptyIs DEF Overtaken, Current, Threshold, Busy
    <3>5. Wiped'
      BY <3>1 DEF Wiped, Shape, Typed, Memories, Defaults
    <3> QED
      BY <3>3, <3>4, <3>5 DEF Overtaken
  <2> QED
    BY <2>3, <2>4
<1>6. CASE ClearEnd
  <2>1. /\ clear.pc \in {"end", "release"} /\ clear'.pc = "none"
        /\ UNCHANGED <<gen, pending, receipt, ram, flash, log>>
    BY <1>0, <1>6 DEF ClearEnd, ClearAt, Clears
  <2> QED
    BY <1>0, <2>1 DEF Overtaken, Known, Current, Wiped, Threshold
<1> QED
  BY <1>1, <1>2, <1>3, <1>4, <1>5, <1>6 DEF Clear

LEMMA OvertakenApply ==
    ASSUME Shape, Overtaken, NEW close \in BOOLEAN, ApplyPending(close),
           UNCHANGED <<client, slot, gen, receipt, ram, flash, worker, clear>>
    PROVE  Overtaken'
<1>0. Accepted' = Accepted
  BY DEF Accepted
<1>1. CASE ~flag.clearing /\ pending.effect # "none"
  <2>1. pending.id # 0
    BY <1>1 DEF Shape, Carried, Busy
  <2>2. /\ log' = [log EXCEPT !.applied = @ \cup {pending.id}, !.frame[pending.id] = applied'.frame]
        /\ pending' = [pending EXCEPT !.effect = "none", !.persist = TRUE,
                                      !.changed = pending.effect # "coefficients"]
    BY <1>1, <2>1, Applies DEF Shape
  <2>3. /\ log'.admitted = log.admitted /\ log'.withdrawn = log.withdrawn /\ log'.erased = log.erased
        /\ log'.applied = log.applied \cup {pending.id} /\ log'.saved = log.saved /\ log'.unsaved = log.unsaved
    BY <2>2 DEF Shape, Typed, Logs
  <2>4. pending'.id = pending.id /\ (Busy(pending') => Busy(pending)) /\ pending'.persist
    BY <1>1, <2>2 DEF Shape, Typed, Transactions, Busy
  <2> QED
    BY <1>0, <2>1, <2>3, <2>4 DEF Overtaken, Known, Current, Wiped, Threshold, Committed
<1>2. CASE ~(~flag.clearing /\ pending.effect # "none")
  BY <1>0, <1>2 DEF ApplyPending, Overtaken, Known, Current, Wiped, Threshold, Committed
<1> QED
  BY <1>1, <1>2

LEMMA OvertakenWorker ==
    ASSUME Shape, Overtaken, Worker
    PROVE  Overtaken'
<1>0. /\ UNCHANGED <<client, gen, clear>> /\ Accepted' = Accepted
      /\ slot.id \in Nat /\ log.erased \in Nat /\ log \in Logs /\ slot.id \in Coefficients
  BY WorkerLeaves, BoundsAssumption DEF Accepted, Shape, Typed, Slots, Logs, Coefficients
<1>1. CASE /\ PersistBegin("worker") \/ PersistWrite("worker") \/ PersistEnd("worker")
           /\ slot' = slot /\ ~Committed /\ ~Committed'
  BY <1>0, <1>1, OvertakenPersist DEF Committed
<1>2. CASE Rests \/ Drops \/ Fails \/ Frees
  BY <1>0, <1>2, OvertakenKept DEF Rests, Drops, Fails, Frees, Committed
<1>3. CASE Trims \/ Closes
  <2>1. /\ slot' = slot /\ receipt' = receipt /\ SameLog /\ slot.id # 0 /\ worker'.pc # "tail"
        /\ (Committed => Committed')
    BY <1>3 DEF Trims, Closes, Writes, Committed
  <2>2. pending'.id = pending.id /\ (Busy(pending') => Busy(pending)) /\ (pending'.persist => pending.persist)
    BY <1>3 DEF Trims, Closes, SameCandidate, Busy
  <2>3. slot.id > log.erased
    BY <1>3 DEF Trims, Closes, Overtaken, Current, Writes, Shape, SlotInv
  <2>4. Wiped'
    BY <1>0, <1>3, <2>1, <2>3 DEF Trims, Closes, Writes, Overtaken, Wiped, SameLog
  <2>5. Known' /\ Current'
    BY <1>0, <2>1, <2>2 DEF Overtaken, Known, Current, Threshold, SameLog
  <2> QED
    BY <2>4, <2>5 DEF Overtaken
<1>4. CASE Commits
  <2>1. /\ UNCHANGED <<slot, receipt, flash, ram>>
        /\ slot.id # 0 /\ slot.gen = gen /\ ~Committed /\ Committed' /\ worker'.id = slot.id
    BY <1>4 DEF Commits, Committed
  <2>2. /\ log'.admitted = log.admitted \cup {slot.id} /\ log'.withdrawn = log.withdrawn /\ log'.erased = log.erased
        /\ log'.applied = log.applied /\ log'.saved = log.saved /\ log'.unsaved = log.unsaved
    BY <1>0, <1>4 DEF Commits, Logs
  <2>3. pending'.id = slot.id /\ pending'.persist = FALSE
    BY <1>4 DEF Commits, Candidate
  <2>4. slot.id > log.erased /\ slot.id \notin log.withdrawn /\ slot.id \in Accepted
    BY <2>1 DEF Overtaken, Current, Shape, SlotInv
  <2>5. Known' /\ Wiped'
    BY <1>0, <2>1, <2>2, <2>3, <2>4 DEF Overtaken, Known, Wiped
  <2>6. Current'
    BY <1>0, <2>1, <2>2, <2>3, <2>4 DEF Overtaken, Current, Threshold
  <2> QED
    BY <2>5, <2>6 DEF Overtaken
<1> QED
  BY <1>1, <1>2, <1>3, <1>4, WorkerCases

LEMMA OvertakenStep == Shape /\ Overtaken /\ Next => Overtaken'
<1> SUFFICES ASSUME Shape, Overtaken, Next
             PROVE  Overtaken'
  OBVIOUS
<1>1. ASSUME NEW kind \in Kinds, NEW who \in {"user", "silent"}, Request(kind, who)
      PROVE  Overtaken'
  <2>1. /\ NextJob \in Jobs /\ NextJob \notin Accepted /\ Accepted = 1..(NextJob - 1)
        /\ Accepted' = Accepted \cup {NextJob} /\ NextJob \in Nat
    <3>1. Accepted # Jobs /\ client' = [client EXCEPT ![NextJob] = who] /\ Typed /\ Numbered
      BY <1>1 DEF Request, Shape
    <3>2. Accepted' = Accepted \cup {NextJob}
      BY <3>1, Grows
    <3>3. NextJob \in Jobs /\ NextJob \notin Accepted /\ Accepted = 1..(NextJob - 1)
      BY <3>1, Fresh
    <3> QED
      BY <3>2, <3>3, BoundsAssumption DEF Jobs
  <2>2. /\ UNCHANGED <<pending, receipt, ram, flash, log, worker, clear>> /\ slot'.id = NextJob
        /\ slot.kind = "none"
    BY <1>1 DEF Request
  <2>3. ~Committed' /\ worker.pc # "tail"
    BY <2>2 DEF Shape, SlotInv, Committed
  <2>4. log.erased \in Nat /\ clear.mark \in Nat
    BY BoundsAssumption DEF Shape, Typed, Logs, Clears, Coefficients
  <2>5. NextJob > log.erased /\ NextJob > Threshold /\ NextJob \notin log.admitted /\ NextJob \notin log.withdrawn
    <3>1. log.erased = 0 \/ log.erased \in 1..(NextJob - 1)
      BY <2>1 DEF Overtaken, Known
    <3>2. clear.pc \in {"wipe", "gate", "erase"} => clear.mark = 0 \/ clear.mark \in 1..(NextJob - 1)
      BY <2>1 DEF Overtaken, Known
    <3>3. NextJob > 0
      BY <2>1, BoundsAssumption DEF Jobs
    <3>4. NextJob > log.erased /\ NextJob > Threshold
      BY <2>1, <2>4, <3>1, <3>2, <3>3 DEF Threshold
    <3>5. NextJob \notin log.admitted /\ NextJob \notin log.withdrawn
      BY <2>1 DEF Overtaken, Known
    <3> QED
      BY <3>4, <3>5
  <2> QED
    BY <2>1, <2>2, <2>3, <2>5 DEF Overtaken, Known, Current, Wiped, Threshold
<1>2. CASE Sensor
  <2>0. UNCHANGED <<client, slot, gen, flash, worker, clear>> /\ Accepted' = Accepted
    BY <1>2, SensorLeaves DEF Accepted
  <2>1. CASE FrameApply
    BY <2>0, <2>1, OvertakenApply DEF FrameApply
  <2>2. CASE FrameConsume \/ FrameSave
    <3>1. SameData
      BY <2>2, <2>0, SameCoefficients DEF FrameConsume, FrameSave, SameData, SameLog, SameRam, Shape
    <3> QED
      BY <2>0, <3>1, OvertakenKept DEF Committed
  <2>3. CASE FrameApplied
    <3>1. /\ receipt' = NoReceipt /\ UNCHANGED <<ram, log>>
          /\ pending' = [pending EXCEPT !.held = @ /\ ~Completes(pending, FALSE)]
      BY <2>3 DEF FrameApplied
    <3>2. pending'.id = pending.id /\ pending'.effect = pending.effect /\ pending'.persist = pending.persist
      BY <3>1 DEF Shape, Typed, Transactions
    <3> QED
      BY <2>0, <3>1, <3>2 DEF Overtaken, Known, Current, Wiped, Threshold, Busy, Committed, NoReceipt
  <2> QED
    BY <1>2, <2>1, <2>2, <2>3 DEF Sensor
<1>3. CASE PowerSuspend \/ PowerStep
  <2>0. UNCHANGED <<client, slot, gen, worker, clear>> /\ Accepted' = Accepted
    BY <1>3, PowerLeaves DEF Accepted
  <2>1. CASE PowerApply
    BY <2>0, <2>1, OvertakenApply DEF PowerApply
  <2>2. CASE PowerPersists
    BY <2>0, <2>2, OvertakenPersist DEF PowerPersists, Committed
  <2>3. CASE PowerSuspend \/ PowerHasNothing \/ PowerDrop \/ \E off \in BOOLEAN : PowerRetain(off)
    <3>1. SameData
      BY <2>3, SameCoefficients
      DEF PowerSuspend, PowerHasNothing, PowerDrop, PowerRetain, SameData, SameLog, SameRam, Shape
    <3> QED
      BY <2>0, <3>1, OvertakenKept DEF Committed
  <2> QED
    BY <1>3, <2>1, <2>2, <2>3 DEF PowerStep
<1> QED
  BY <1>1, <1>2, <1>3, OvertakenReset, OvertakenClear, OvertakenWorker DEF Next, Kinds
-----------------------------------------------------------------------------
(* Whether the fusion has followed *)

LEMMA Numeric ==
    ASSUME Shape
    PROVE  /\ base \in Nat /\ applied.frame \in Nat /\ \A j \in Jobs : log.frame[j] \in Nat
           /\ sensor \in Sensors /\ pending \in Transactions /\ receipt \in Receipts /\ flag \in Flags
           /\ log \in Logs /\ told \in Results /\ end \in Ends /\ client \in Clients
           /\ pending.id \in Coefficients /\ receipt.id \in Coefficients /\ slot.id \in Coefficients
           /\ 0 \notin Jobs
BY BoundsAssumption DEF Shape, Typed, Lives, Logs, Transactions, Receipts, Slots, Jobs

LEMMA FollowsPersist ==
    ASSUME Shape, Follows, NEW t \in {"worker", "power"},
           PersistBegin(t) \/ PersistWrite(t) \/ PersistEnd(t), log'.revived = log.revived,
           power' = power \/ (power # "run" /\ power' \notin {"run", "apply"})
    PROVE  Follows'
<1>0. UNCHANGED <<base, applied, sensor>>
  BY DEF PersistBegin, PersistWrite, PersistEnd
<1>1. CASE PersistBegin(t) \/ PersistWrite(t)
  <2>1. UNCHANGED <<pending, receipt, flag, log>>
    BY <1>1 DEF PersistBegin, PersistWrite
  <2> QED
    BY <1>0, <2>1 DEF Follows, Busy
<1>2. CASE PersistEnd(t)
  <2>1. plock.by = t
    BY <1>2 DEF PersistEnd
  <2>2. pending.id # 0 /\ pending.persist /\ pending.effect = "none"
    BY <2>1 DEF Shape, Carried, Busy
  <2>3. PICK apart \in BOOLEAN, ends \in BOOLEAN :
            /\ apart <=> pending.held /\ flag.stale /\ pending.changed
            /\ ends <=> ~apart /\ pending.held /\ pending.effect = "none" /\ ~flag.stale
            /\ pending'.held <=> pending.held /\ ~apart /\ ~ends
            /\ receipt' = IF apart THEN [id |-> pending.id, err |-> pending'.err] ELSE receipt
    BY <1>2, <2>2, PersistEnds DEF Shape
  <2>4. flag'.stale = flag.stale /\ ~pending'.persist
        /\ log' = IF pending'.err THEN [log EXCEPT !.unsaved = @ \cup {pending.id}]
                                  ELSE [log EXCEPT !.saved = @ \cup {pending.id}]
    BY <1>2, <2>2, PersistEnds DEF Shape
  <2>5. log'.frame = log.frame
    BY <2>4, Numeric DEF Logs
  <2>6. receipt.id = 0
    BY <2>2 DEF Follows
  <2>7. ~pending'.held
    BY <2>2, <2>3 DEF Follows
  <2>8. receipt'.id # 0 => flag.stale
    BY <2>3, <2>6
  <2> QED
    BY <1>0, <2>4, <2>5, <2>7, <2>8 DEF Follows
<1> QED
  BY <1>1, <1>2

LEMMA FollowsStep == Shape /\ Follows /\ Next => Follows'
<1> SUFFICES ASSUME Shape, Follows, Next
             PROVE  Follows'
  OBVIOUS
<1>0. /\ base \in Nat /\ applied.frame \in Nat /\ \A j \in Jobs : log.frame[j] \in Nat
      /\ sensor \in Sensors /\ pending \in Transactions /\ flag \in Flags /\ log \in Logs
      /\ pending.id \in Coefficients
  BY Numeric
<1>1. CASE \E kind \in Kinds, who \in {"user", "silent"} : Request(kind, who)
  BY <1>1 DEF Request, Follows, Busy
<1>2. ASSUME NEW kind \in Kinds, Reset(kind)
      PROVE  Follows'
  <2>1. /\ UNCHANGED <<base, applied, flag, receipt, sensor, power>>
        /\ pending'.persist = FALSE /\ pending'.effect # "none"
    BY <1>2 DEF Reset, Candidate
  <2>2. log'.frame = log.frame /\ log'.revived = log.revived
    BY <1>0, <1>2 DEF Reset, Logs
  <2> QED
    BY <2>1, <2>2 DEF Follows, Busy
<1>3. CASE Clear
  <2>1. UNCHANGED <<applied, base, sensor, power>>
    BY <1>3, ClearLeaves
  <2>2. CASE ClearWipe
    <3>1. PICK W \in SUBSET {pending.id, receipt.id} : log' = [log EXCEPT !.withdrawn = log.withdrawn \cup W]
      BY <2>2, WipeIs
    <3>2. log'.frame = log.frame /\ log'.revived = log.revived
      BY <1>0, <3>1 DEF Logs
    <3>3. pending' = Empty /\ receipt'.id = 0 /\ flag'.stale = flag.stale
      BY <2>2, WipeIs
    <3> QED
      BY <2>1, <3>2, <3>3, EmptyIs DEF Follows
  <2>3. CASE ~ClearWipe
    <3>1. UNCHANGED <<pending, receipt>> /\ flag'.stale = flag.stale
      BY <1>0, <1>3, <2>3 DEF Clear, ClearLock, ClearInvalidate, ClearGate, ClearErase, ClearEnd, Flags
    <3>2. log'.frame = log.frame /\ log'.revived = log.revived
      BY <1>0, <1>3, <2>3 DEF Clear, ClearLock, ClearInvalidate, ClearGate, ClearErase, ClearEnd, Logs
    <3> QED
      BY <2>1, <3>1, <3>2 DEF Follows, Busy
  <2> QED
    BY <2>2, <2>3
<1>4. CASE Worker
  <2>0. /\ UNCHANGED <<applied, base, power>> /\ sensor'.pc = sensor.pc
        /\ (sensor.suspended => sensor'.suspended) \/ power = "run" \/ log'.revived
        /\ log.revived => log'.revived
    BY <1>4, WorkerLeaves, WorkerCases
  <2>1. CASE PersistBegin("worker") \/ PersistWrite("worker") \/ PersistEnd("worker")
    <3>1. log'.revived = log.revived
      <4>1. CASE PersistEnd("worker")
        <5>1. pending.id # 0
          BY <4>1 DEF PersistEnd, Shape, Carried, Busy
        <5> QED
          BY <1>0, <4>1, <5>1, PersistEnds DEF Shape, Logs
      <4> QED
        BY <2>1, <4>1 DEF PersistBegin, PersistWrite
    <3> QED
      BY <2>0, <2>1, <3>1, FollowsPersist
  <2>2. CASE Rests \/ Drops \/ Fails \/ Frees \/ Trims
    <3>1. UNCHANGED <<pending, receipt>> /\ log'.frame = log.frame /\ flag'.stale = flag.stale
      BY <2>2 DEF Rests, Drops, Fails, Frees, Trims, Writes, SameData, SameLog, SameFlags
    <3> QED
      BY <2>0, <3>1 DEF Follows, Busy
  <2>3. CASE Closes
    <3>1. /\ receipt' = receipt /\ log'.frame = log.frame /\ flag'.stale = flag.stale
          /\ pending'.persist = pending.persist /\ pending'.changed = pending.changed
          /\ pending'.held = pending.held /\ pending'.effect = pending.effect
      BY <2>3 DEF Closes, Writes, SameCandidate, SameLog, SameFlags
    <3> QED
      BY <2>0, <3>1 DEF Follows, Busy
  <2>4. CASE Commits
    <3>1. receipt' = receipt /\ flag'.stale = flag.stale /\ pending'.persist = FALSE /\ pending'.effect # "none"
      BY <2>4 DEF Commits, SameFlags, Candidate
    <3>2. log'.frame = log.frame
      BY <1>0, <2>4 DEF Commits, Logs
    <3> QED
      BY <2>0, <3>1, <3>2 DEF Follows, Busy
  <2> QED
    BY <1>4, <2>1, <2>2, <2>3, <2>4, WorkerCases
<1>5. CASE Sensor
  <2>0. UNCHANGED power
    BY <1>5, SensorLeaves
  <2>1. power = "run" /\ ~log.revived
    BY <1>5 DEF Sensor, FrameApply, FrameConsume, FrameApplied, FrameSave, SensorAt, SensorRuns, Over, Follows
  <2>2. CASE FrameApply
    <3>0. sensor.pc = "idle" /\ ~flag.stale /\ receipt' = receipt /\ base' = base
      BY <2>1, <2>2 DEF FrameApply, SensorAt, Follows
    <3>1. receipt.id = 0 /\ base = applied.frame
      BY <3>0 DEF Follows
    <3>2. /\ wanted \in BOOLEAN /\ (Effect # "none" \/ wanted)
          /\ sensor' = [sensor EXCEPT !.pc = CASE wanted \/ Effect \in {"frame", "bias"} -> "consume"
                                               [] ~wanted /\ Effect = "coefficients" -> "applied"
                                               [] ~wanted /\ Effect = "save" -> "save"]
      BY <2>2 DEF FrameApply, Shape, Typed
    <3>3. CASE ~flag.clearing /\ pending.effect # "none"
      <4>1. pending.id # 0
        BY <3>3 DEF Shape, Carried, Busy
      <4>2. /\ pending.effect # "coefficients" => applied'.frame = applied.frame + 1
            /\ pending.effect = "coefficients" => applied'.frame = applied.frame
            /\ flag'.stale = (flag.stale \/ pending.effect # "coefficients")
            /\ pending' = [pending EXCEPT !.effect = "none", !.persist = TRUE,
                                          !.changed = pending.effect # "coefficients"]
            /\ log'.frame = [log.frame EXCEPT ![pending.id] = applied'.frame]
        BY <2>2, <3>3, <4>1, Applies DEF FrameApply, Shape
      <4>3. pending'.persist /\ pending'.changed = (pending.effect # "coefficients")
        BY <1>0, <4>2 DEF Transactions
      <4>4. \A j \in Jobs : log'.frame[j] = log.frame[j] \/ log'.frame[j] = applied'.frame
        BY <1>0, <4>2 DEF Logs
      <4>5. Effect = pending.effect /\ pending.effect \in {"bias", "frame", "coefficients"}
        BY <1>0, <3>3 DEF Effect, Transactions, Effects
      <4>6. \/ sensor'.pc = "consume"
            \/ sensor'.pc = "applied" /\ pending.effect = "coefficients"
        BY <1>0, <3>2, <4>5 DEF Sensors
      <4>7. applied'.frame \in Nat /\ applied.frame <= applied'.frame /\ (~flag'.stale => applied'.frame = applied.frame)
        <5>1. ~flag'.stale => pending.effect = "coefficients"
          BY <4>2, Zenon
        <5>2. applied'.frame = applied.frame \/ applied'.frame = applied.frame + 1
          BY <4>2
        <5>3. pending.effect = "coefficients" => applied'.frame = applied.frame
          BY <4>2
        <5> QED
          BY <1>0, <5>1, <5>2, <5>3
      <4>8. \A j \in Jobs : log'.frame[j] <= applied'.frame
        BY <1>0, <4>4, <4>7 DEF Follows
      <4> QED
        BY <1>0, <2>0, <2>1, <3>0, <3>1, <4>2, <4>3, <4>6, <4>7, <4>8 DEF Follows, Busy
    <3>4. CASE ~(~flag.clearing /\ pending.effect # "none")
      <4>1. UNCHANGED <<applied, pending, log>> /\ flag'.stale = flag.stale
        BY <1>0, <2>2, <3>4 DEF FrameApply, ApplyPending, Flags
      <4>2. Effect \in {"none", "save"}
        BY <3>0, <3>4 DEF Effect
      <4>3. sensor'.pc \in {"consume", "save"}
        BY <1>0, <3>2, <4>2 DEF Sensors
      <4> QED
        BY <2>0, <2>1, <3>0, <3>1, <4>1, <4>3 DEF Follows, Busy
    <3> QED
      BY <3>3, <3>4
  <2>3. CASE FrameConsume
    <3>1. base' = applied.frame /\ UNCHANGED <<applied, flag, receipt, pending, log>>
      BY <2>3 DEF FrameConsume
    <3>2. sensor'.pc = "applied"
      BY <1>0, <2>3 DEF FrameConsume, Sensors
    <3> QED
      BY <1>0, <2>0, <2>1, <3>1, <3>2 DEF Follows, Busy
  <2>4. CASE FrameApplied
    <3>1. /\ receipt' = NoReceipt /\ UNCHANGED <<base, applied, log>> /\ sensor.pc = "applied"
          /\ pending' = [pending EXCEPT !.held = @ /\ ~Completes(pending, FALSE)]
      BY <2>4 DEF FrameApplied, SensorAt
    <3>2. flag'.stale = FALSE /\ sensor'.pc = "save"
      BY <1>0, <2>4 DEF FrameApplied, Flags, Sensors
    <3>3. pending'.effect = pending.effect /\ pending'.persist = pending.persist /\ (pending'.held => pending.held)
      BY <1>0, <3>1 DEF Transactions
    <3> QED
      BY <2>0, <2>1, <3>1, <3>2, <3>3 DEF Follows, Busy, NoReceipt
  <2>5. CASE FrameSave
    <3>1. UNCHANGED <<base, applied, flag, receipt, pending, log>> /\ sensor.pc = "save"
      BY <2>5 DEF FrameSave, SensorAt
    <3>2. sensor'.pc = "idle"
      BY <1>0, <2>5 DEF FrameSave, Sensors
    <3> QED
      BY <2>0, <2>1, <3>1, <3>2 DEF Follows, Busy
  <2> QED
    BY <1>5, <2>2, <2>3, <2>4, <2>5 DEF Sensor
<1>6. CASE PowerSuspend
  <2>1. /\ power = "run" /\ power' = "apply" /\ sensor.pc = "idle"
        /\ UNCHANGED <<base, applied, receipt, pending, log>>
    BY <1>6 DEF PowerSuspend, PowerAt
  <2>2. sensor'.pc = "idle" /\ sensor'.suspended /\ flag'.stale = flag.stale
    BY <1>0, <1>6 DEF PowerSuspend, Sensors, Flags
  <2> QED
    BY <2>1, <2>2 DEF Follows, Busy
<1>7. CASE PowerStep
  <2>1. CASE PowerApply
    <3>1. power = "apply" /\ power' = "persist" /\ UNCHANGED <<base, receipt, sensor>>
      BY <2>1 DEF PowerApply, PowerAt
    <3>2. sensor.pc = "idle" /\ ~flag.stale /\ receipt.id = 0 /\ base = applied.frame
      BY <3>1 DEF Follows
    <3>3. CASE ~flag.clearing /\ pending.effect # "none"
      <4>1. pending.id # 0
        BY <3>3 DEF Shape, Carried, Busy
      <4>2. /\ pending.effect # "coefficients" => applied'.frame = applied.frame + 1
            /\ pending.effect = "coefficients" => applied'.frame = applied.frame
            /\ flag'.stale = (flag.stale \/ pending.effect # "coefficients")
            /\ pending' = [pending EXCEPT !.effect = "none", !.persist = TRUE,
                                          !.changed = pending.effect # "coefficients"]
            /\ log'.frame = [log.frame EXCEPT ![pending.id] = applied'.frame]
            /\ log' = [log EXCEPT !.applied = @ \cup {pending.id}, !.frame[pending.id] = applied'.frame]
        BY <2>1, <3>3, <4>1, Applies DEF PowerApply, Shape
      <4>3. pending'.persist /\ pending'.changed = (pending.effect # "coefficients")
        BY <1>0, <4>2 DEF Transactions
      <4>4. \A j \in Jobs : log'.frame[j] = log.frame[j] \/ log'.frame[j] = applied'.frame
        BY <1>0, <4>2 DEF Logs
      <4>5. log'.revived = log.revived
        BY <1>0, <4>2 DEF Logs
      <4>7. applied'.frame \in Nat /\ applied.frame <= applied'.frame /\ (~flag'.stale => applied'.frame = applied.frame)
        <5>1. ~flag'.stale => pending.effect = "coefficients"
          BY <4>2, Zenon
        <5>2. applied'.frame = applied.frame \/ applied'.frame = applied.frame + 1
          BY <4>2
        <5>3. pending.effect = "coefficients" => applied'.frame = applied.frame
          BY <4>2
        <5> QED
          BY <1>0, <5>1, <5>2, <5>3
      <4>8. \A j \in Jobs : log'.frame[j] <= applied'.frame
        BY <1>0, <4>4, <4>7 DEF Follows
      <4> QED
        BY <1>0, <3>1, <3>2, <4>2, <4>3, <4>5, <4>7, <4>8 DEF Follows, Busy
    <3>4. CASE ~(~flag.clearing /\ pending.effect # "none")
      <4>1. UNCHANGED <<applied, pending, log>> /\ flag'.stale = flag.stale
        BY <1>0, <2>1, <3>4 DEF PowerApply, ApplyPending, Flags
      <4> QED
        BY <3>1, <3>2, <4>1 DEF Follows, Busy
    <3> QED
      BY <3>3, <3>4
  <2>2. CASE PowerPersists
    <3>1. log'.revived = log.revived
      <4>1. CASE PersistEnd("power")
        <5>1. pending.id # 0
          BY <4>1 DEF PersistEnd, Shape, Carried, Busy
        <5> QED
          BY <1>0, <4>1, <5>1, PersistEnds DEF Shape, Logs
      <4> QED
        BY <2>2, <4>1 DEF PowerPersists, PersistBegin, PersistWrite
    <3>2. power # "run" /\ power' \notin {"run", "apply"}
      BY <2>2 DEF PowerPersists, PowerAt
    <3> QED
      BY <2>2, <3>1, <3>2, FollowsPersist DEF PowerPersists
  <2>3. CASE PowerHasNothing \/ PowerDrop \/ \E off \in BOOLEAN : PowerRetain(off)
    <3>1. power # "run" /\ power' \notin {"run", "apply"} /\ UNCHANGED <<base, applied, flag, receipt, pending, log, sensor>>
      BY <2>3 DEF PowerHasNothing, PowerDrop, PowerRetain, PowerAt
    <3> QED
      BY <3>1 DEF Follows, Busy
  <2> QED
    BY <1>7, <2>1, <2>2, <2>3 DEF PowerStep
<1> QED
  BY <1>1, <1>2, <1>3, <1>4, <1>5, <1>6, <1>7 DEF Next, Kinds
-----------------------------------------------------------------------------
(* What is told is true *)

Answered == Open /\ Owing /\ AllTrue

\* What the fates of the jobs are read from stays, or moves in a direction that does no harm.
LEMMA AnsweredKept ==
    ASSUME Shape, Answered, UNCHANGED <<client, gen, receipt, end, told>>,
           base' \in Nat, base' >= base,
           log'.applied = log.applied, log'.frame = log.frame, log'.saved = log.saved,
           log'.unsaved = log.unsaved, log'.withdrawn = log.withdrawn,
           pending'.id = pending.id, pending'.effect = pending.effect, pending'.persist = pending.persist,
           pending'.held = pending.held, pending'.op = pending.op,
           clear.pc = "wipe" => clear'.pc = "wipe", power' = "run" => power = "run",
           slot' = slot \/ slot' = NoSlot, slot' = slot /\ ~Committed' => ~Committed
    PROVE  Answered'
<1>0. NoSlot.id = 0 /\ 0 \notin Jobs /\ \A j \in Jobs : log.frame[j] \in Nat
  BY Numeric DEF NoSlot
<1>1. Open'
  BY DEF Answered, Open, Busy
<1>2. Owing'
  <2>1. CASE slot' = slot
    BY <2>1 DEF Answered, Owing
  <2>2. CASE slot' = NoSlot
    <3>1. 0 \notin log.applied
      BY <1>0, Numeric DEF Logs
    <3> QED
      BY <1>0, <2>2, <3>1 DEF Answered, Owing
  <2> QED
    BY <2>1, <2>2
<1>3. AllTrue'
  <2> SUFFICES ASSUME NEW j \in Jobs
               PROVE  Truth(j)'
    BY DEF AllTrue
  <2>1. Truth(j)
    BY DEF Answered, AllTrue
  <2>2. base >= log.frame[j] => base' >= log.frame[j]
    BY <1>0, Numeric
  <2> QED
    BY <2>1, <2>2 DEF Truth
<1> QED
  BY <1>1, <1>2, <1>3 DEF Answered

LEMMA AnsweredRequest ==
    ASSUME Shape, Overtaken, Answered, NEW kind \in Kinds, NEW who \in {"user", "silent"}, Request(kind, who)
    PROVE  Answered'
<1>1. Accepted # Jobs /\ client' = [client EXCEPT ![NextJob] = who] /\ Typed /\ Numbered
  BY DEF Request, Shape
<1>2. /\ NextJob \in Jobs /\ NextJob \notin Accepted
      /\ client'[NextJob] = who /\ \A j \in Jobs : j # NextJob => client'[j] = client[j]
      /\ Accepted' = Accepted \cup {NextJob}
  BY <1>1, Fresh, Grows
<1>3. /\ slot'.id = NextJob
      /\ UNCHANGED <<pending, receipt, base, applied, log, power, clear, end, told>>
  BY DEF Request
<1>4. /\ NextJob \notin log.admitted /\ NextJob \notin log.applied /\ NextJob # pending.id
      /\ NextJob # receipt.id /\ client[NextJob] = ""
  BY <1>2, Numeric DEF Overtaken, Known, Accepted
<1>5. end[NextJob] = "none" /\ told[NextJob] = "none"
  BY <1>2, <1>4 DEF Answered, Owing
<1>6. (pending.id # 0 => pending.id \in Jobs) /\ (receipt.id # 0 => receipt.id \in Jobs)
  BY Numeric, Positive
<1>7. Open'
  <2>1. Busy(pending) => client'[pending.id] = client[pending.id]
    BY <1>2, <1>4, <1>6 DEF Shape, Carried
  <2> QED
    BY <1>3, <2>1 DEF Answered, Open, Busy
<1>8. Owing'
  <2>1. receipt.id # 0 => client'[receipt.id] = client[receipt.id]
    BY <1>2, <1>4, <1>6
  <2>2. \A j \in Jobs : client'[j] = "" => client[j] = ""
    BY <1>2
  <2> QED
    BY <1>3, <1>4, <1>5, <2>1, <2>2 DEF Answered, Owing
<1>9. AllTrue'
  <2> SUFFICES ASSUME NEW j \in Jobs
               PROVE  Truth(j)'
    BY DEF AllTrue
  <2>1. CASE j = NextJob
    BY <1>3, <1>4, <1>5, <2>1 DEF Truth
  <2>2. CASE j # NextJob
    <3>1. Truth(j) /\ client'[j] = client[j]
      BY <1>2, <2>2 DEF Answered, AllTrue
    <3> QED
      BY <1>3, <3>1 DEF Truth
  <2> QED
    BY <2>1, <2>2
<1> QED
  BY <1>7, <1>8, <1>9 DEF Answered

LEMMA Between == \A x, y, z \in Nat : x <= y /\ z >= y /\ x # y => x # z
OBVIOUS

\* A candidate comes in: the transaction before it is answered.
LEMMA AnsweredEnters ==
    ASSUME Shape, Overtaken, Follows, Answered, Admits, NEW i \in Jobs, i \notin log.admitted,
           \A j \in Jobs : j # i => client'[j] = client[j],
           i # slot.id => client[i] = "", i = slot.id => client' = client /\ gen' = gen /\ ~Committed /\ slot.gen = gen /\ Committed',
           i # slot.id => (Committed' <=> Committed) /\ gen' >= gen,
           client'[i] # "", gen' \in Nat, UNCHANGED <<slot, receipt, base, applied, power, clear, end, told>>,
           pending'.id = i, pending'.effect # "none", pending'.persist = FALSE,
           pending'.held = (client'[i] # "silent"), pending'.op = (client'[i] = "user"),
           log'.applied = log.applied, log'.frame = log.frame, log'.saved = log.saved,
           log'.unsaved = log.unsaved, log.withdrawn \subseteq log'.withdrawn
    PROVE  Answered'
<1>0. /\ ~Busy(pending) /\ ~pending.held /\ ~pending.persist
  BY DEF Admits, Busy, Follows
<1>1. /\ i \notin log.applied /\ i \notin log.saved /\ i \notin log.unsaved /\ i # receipt.id /\ i # 0
  BY Numeric DEF Overtaken, Known
<1>2. end[i] = "none" /\ told[i] = "none"
  <2>1. CASE i = slot.id
    BY <1>1, <2>1 DEF Answered, Owing
  <2>2. CASE i # slot.id
    BY <2>2 DEF Answered, Owing
  <2> QED
    BY <2>1, <2>2
<1>3. Open'
  BY <1>1, <1>2 DEF Open, Busy
<1>4. Owing'
  <2>1. receipt.id # 0 => client'[receipt.id] = client[receipt.id]
    BY <1>1, Numeric, Positive
  <2>2. slot.id # 0 /\ ~Committed' =>
            /\ end[slot.id] = "none"
            /\ told[slot.id] = "none" \/ (told[slot.id] = "cancelled" /\ slot.gen # gen')
    <3>1. slot.gen <= gen /\ slot.gen \in Nat /\ gen \in Nat
      BY DEF Shape, SlotInv, Typed, Slots
    <3>2. slot.id # 0 /\ ~Committed' => slot.id # i /\ ~Committed /\ gen' >= gen
      OBVIOUS
    <3>3. gen' >= gen /\ slot.gen # gen => slot.gen # gen'
      BY <3>1, Between
    <3> QED
      BY <3>2, <3>3 DEF Answered, Owing
  <2>3. \A j \in Jobs : client'[j] = "" => client[j] = "" /\ j # i
    OBVIOUS
  <2>4. slot.id \in log.applied \ log'.withdrawn /\ power = "run" => FALSE
    BY <1>0 DEF Answered, Owing
  <2> QED
    BY <2>1, <2>2, <2>3, <2>4 DEF Answered, Owing
<1>5. AllTrue'
  <2> SUFFICES ASSUME NEW j \in Jobs
               PROVE  Truth(j)'
    BY DEF AllTrue
  <2>1. CASE j = i
    BY <1>1, <1>2, <2>1 DEF Truth
  <2>2. CASE j # i
    <3>1. Truth(j) /\ client'[j] = client[j]
      BY <2>2 DEF Answered, AllTrue
    <3> QED
      BY <1>0, <2>2, <3>1 DEF Truth
  <2> QED
    BY <2>1, <2>2
<1> QED
  BY <1>3, <1>4, <1>5 DEF Answered

\* A job in the slot that never became a candidate is answered.
LEMMA AnsweredSlot ==
    ASSUME Shape, Overtaken, Follows, Answered, slot.id # 0, ~Committed,
           NEW outcome \in {"failed", "cancelled"},
           told' = Told(told, slot.id, outcome), end' = Ended(end, slot.id, outcome),
           slot' = NoSlot \/ (slot' = slot /\ Committed'),
           UNCHANGED <<client, gen, receipt, pending, base, power, clear>>, SameLog
    PROVE  Answered'
<1>0. /\ slot.id \in Jobs /\ slot.id \notin log.admitted /\ slot.id \notin log.applied
      /\ slot.id \notin log.saved /\ slot.id \notin log.unsaved
      /\ client[slot.id] # "" /\ NoSlot.id = 0 /\ 0 \notin log.applied
  BY Numeric DEF Overtaken, Current, Known, Shape, SlotInv, Accepted, Jobs, NoSlot, Logs
<1>1. /\ \A j \in Jobs : told'[j] = told[j] \/ (j = slot.id /\ told'[j] = outcome)
      /\ \A j \in Jobs : end'[j] = end[j] \/ (j = slot.id /\ end'[j] = outcome)
  <2>0. told \in Results /\ end \in Ends /\ slot.id \in Coefficients
    BY Numeric
  <2>1. \A j \in Jobs : told'[j] = told[j] \/ (j = slot.id /\ told'[j] = outcome)
    <3>1. \A k \in Jobs : \/ Told(told, slot.id, outcome)[k] = told[k]
                          \/ k = slot.id /\ client[k] # "silent" /\ told[k] = "none"
                             /\ Told(told, slot.id, outcome)[k] = outcome
      BY <2>0, ToldIs
    <3> QED
      BY <3>1
  <2>2. \A j \in Jobs : end'[j] = end[j] \/ (j = slot.id /\ end'[j] = outcome)
    <3>1. \A k \in Jobs : \/ Ended(end, slot.id, outcome)[k] = end[k]
                          \/ k = slot.id /\ client[k] = "user" /\ end[k] = "none"
                             /\ Ended(end, slot.id, outcome)[k] = outcome
      BY <2>0, EndedIs
    <3> QED
      BY <3>1
  <2> QED
    BY <2>1, <2>2
<1>2. Open'
  <2>1. Busy(pending) => pending.id # slot.id /\ pending.id \in Jobs
    BY <1>0, Numeric, Positive DEF Overtaken, Known, Shape, Carried
  <2>2. Busy(pending) => told'[pending.id] = told[pending.id] /\ end'[pending.id] = end[pending.id]
    BY <1>1, <2>1
  <2> QED
    BY <2>2 DEF Answered, Open, Busy, SameLog
<1>3. Owing'
  <2>1. \A j \in Jobs : client[j] = "" => end'[j] = "none" /\ told'[j] = "none"
    BY <1>0, <1>1 DEF Answered, Owing
  <2>2. /\ slot'.id # 0 /\ ~Committed' => FALSE
        /\ slot'.id \in log'.applied => FALSE
    BY <1>0 DEF SameLog
  <2> QED
    BY <2>1, <2>2 DEF Answered, Owing, SameLog
<1>4. AllTrue'
  <2> SUFFICES ASSUME NEW j \in Jobs
               PROVE  Truth(j)'
    BY DEF AllTrue
  <2>0. Truth(j)
    BY DEF Answered, AllTrue
  <2>1. CASE j = slot.id
    <3>1. told'[j] \in {told[j], "failed", "cancelled"} /\ end'[j] \in {end[j], "failed", "cancelled"}
      BY <1>1
    <3> QED
      BY <1>0, <2>0, <2>1, <3>1 DEF Truth, SameLog
  <2>2. CASE j # slot.id
    <3>1. told'[j] = told[j] /\ end'[j] = end[j]
      BY <1>1, <2>2
    <3> QED
      BY <2>0, <3>1 DEF Truth, SameLog
  <2> QED
    BY <2>1, <2>2
<1> QED
  BY <1>2, <1>3, <1>4 DEF Answered
LEMMA AnsweredReset ==
    ASSUME Shape, Overtaken, Follows, Answered, NEW kind \in Kinds, Reset(kind)
    PROVE  Answered'
<1>1. Accepted # Jobs /\ client' = [client EXCEPT ![NextJob] = "reset"] /\ Typed /\ Numbered
  BY DEF Reset, Shape
<1>2. /\ NextJob \in Jobs /\ NextJob \notin Accepted
      /\ client'[NextJob] = "reset" /\ \A j \in Jobs : j # NextJob => client'[j] = client[j]
  BY <1>1, Fresh, Grows
<1>3. /\ Admits /\ gen \in Nat /\ gen' \in Nat /\ gen' >= gen
      /\ UNCHANGED <<slot, receipt, base, applied, power, clear, worker, end, told>>
      /\ \E extra : log' = [log EXCEPT !.admitted = @ \cup {NextJob}, !.withdrawn = @ \cup extra]
  <2>1. /\ Admits /\ UNCHANGED <<slot, receipt, base, applied, power, clear, worker, end, told>>
        /\ gen' = gen \/ gen' = gen + 1
    BY DEF Reset
  <2>2. gen \in Nat
    BY DEF Shape, Typed
  <2>3. \E extra : log' = [log EXCEPT !.admitted = @ \cup {NextJob}, !.withdrawn = @ \cup extra]
    <3>1. CASE slot.kind = kind
      BY <3>1 DEF Reset
    <3>2. CASE slot.kind # kind
      <4>1. log.withdrawn = log.withdrawn \cup {}
        OBVIOUS
      <4>2. log' = [log EXCEPT !.admitted = @ \cup {NextJob}, !.withdrawn = @ \cup {}]
        BY <3>2, <4>1 DEF Reset
      <4> QED
        BY <4>2
    <3> QED
      BY <3>1, <3>2
  <2>4. gen' \in Nat /\ gen' >= gen
    BY <2>1, <2>2
  <2> QED
    BY <2>1, <2>2, <2>3, <2>4
<1>4. /\ pending'.id = NextJob /\ pending'.effect # "none" /\ pending'.persist = FALSE
      /\ pending'.held = TRUE /\ pending'.op = FALSE
  BY DEF Reset, Candidate
<1>5. /\ log'.applied = log.applied /\ log'.frame = log.frame /\ log'.saved = log.saved
      /\ log'.unsaved = log.unsaved /\ log.withdrawn \subseteq log'.withdrawn
  BY <1>3, Numeric DEF Logs
<1>6. NextJob \notin log.admitted /\ client[NextJob] = "" /\ NextJob # slot.id
  <2>1. slot.id # 0 => slot.id \in Accepted
    BY DEF Shape, SlotInv
  <2> QED
    BY <1>2, <2>1, Numeric DEF Overtaken, Known, Accepted
<1>7. Committed' <=> Committed
  BY <1>3 DEF Committed
<1>8. pending'.held = (client'[NextJob] # "silent") /\ pending'.op = (client'[NextJob] = "user") /\ client'[NextJob] # ""
  BY <1>2, <1>4
<1> QED
  BY <1>2, <1>3, <1>4, <1>5, <1>6, <1>7, <1>8, AnsweredEnters

LEMMA AnsweredApply ==
    ASSUME Shape, Overtaken, Follows, Answered, NEW close \in BOOLEAN, ApplyPending(close),
           UNCHANGED <<client, slot, gen, receipt, base, worker, clear, told>>,
           power' = "run" => power = "run"
    PROVE  Answered'
<1>1. CASE ~flag.clearing /\ pending.effect # "none"
  <2>1. pending.id # 0 /\ pending.id \in Jobs /\ pending.id \notin log.applied /\ pending.id \in log.admitted
    BY <1>1, Numeric, Positive DEF Shape, Carried, Busy, Overtaken, Known, Answered, Open
  <2>2. /\ pending' = [pending EXCEPT !.effect = "none", !.persist = TRUE,
                                      !.changed = pending.effect # "coefficients"]
        /\ log' = [log EXCEPT !.applied = @ \cup {pending.id}, !.frame[pending.id] = applied'.frame]
    BY <1>1, <2>1, Applies DEF Shape
  <2>3. /\ pending'.id = pending.id /\ pending'.effect = "none" /\ pending'.persist
        /\ pending'.held = pending.held
    BY <2>2, Numeric DEF Transactions
  <2>4. /\ log'.applied = log.applied \cup {pending.id} /\ log'.saved = log.saved /\ log'.unsaved = log.unsaved
        /\ log'.withdrawn = log.withdrawn /\ \A j \in Jobs : j # pending.id => log'.frame[j] = log.frame[j]
    BY <2>2, Numeric DEF Logs
  <2>5. /\ \A j \in Jobs : j # pending.id => end'[j] = end[j]
        /\ client[pending.id] = "user" => end'[pending.id] = "success"
    <3>1. end' = (IF pending.op THEN Ended(end, pending.id, "success") ELSE end)
      BY <1>1 DEF ApplyPending
    <3>2. end \in Ends /\ pending.id \in Coefficients
      BY Numeric
    <3>3. /\ \A k \in Jobs : \/ Ended(end, pending.id, "success")[k] = end[k]
                             \/ k = pending.id /\ Ended(end, pending.id, "success")[k] = "success"
          /\ client[pending.id] = "user" => Ended(end, pending.id, "success")[pending.id] # "none"
      BY <2>1, <3>2, EndedIs
    <3>4. end[pending.id] = "none" /\ (pending.op <=> client[pending.id] = "user")
      BY <1>1 DEF Answered, Open
    <3> QED
      BY <2>1, <3>1, <3>3, <3>4
  <2>6. /\ pending.id \notin log.saved \cup log.unsaved
        /\ pending.held <=> client[pending.id] # "silent"
        /\ told[pending.id] = "none" \/ (told[pending.id] = "cancelled" /\ clear.pc = "wipe")
    BY <1>1 DEF Answered, Open, Busy
  <2>7. Open'
    BY <2>3, <2>4, <2>6 DEF Open, Busy
  <2>8. Committed' <=> Committed
    BY DEF Committed
  <2>9. Owing'
    <3>1. slot.id # 0 /\ ~Committed => slot.id # pending.id /\ slot.id \in Jobs
      BY <2>1, Numeric, Positive DEF Overtaken, Current
    <3>2. \A j \in Jobs : client[j] = "" => j # pending.id
      BY <2>1 DEF Overtaken, Known, Accepted
    <3> QED
      BY <2>3, <2>4, <2>5, <2>8, <3>1, <3>2 DEF Answered, Owing
  <2>10. AllTrue'
    <3> SUFFICES ASSUME NEW j \in Jobs
                 PROVE  Truth(j)'
      BY DEF AllTrue
    <3>1. CASE j = pending.id
      BY <2>3, <2>4, <2>5, <2>6, <3>1 DEF Truth
    <3>2. CASE j # pending.id
      <4>1. Truth(j)
        BY DEF Answered, AllTrue
      <4>2. j \in log'.applied <=> j \in log.applied
        BY <2>4, <3>2
      <4> QED
        BY <2>3, <2>4, <2>5, <3>2, <4>1, <4>2 DEF Truth
    <3> QED
      BY <3>1, <3>2
  <2> QED
    BY <2>7, <2>9, <2>10 DEF Answered
<1>2. CASE ~(~flag.clearing /\ pending.effect # "none")
  <2>1. UNCHANGED <<pending, end, log>>
    BY <1>2 DEF ApplyPending
  <2>2. base \in Nat /\ base >= base
    BY Numeric
  <2> QED
    BY <2>1, <2>2, AnsweredKept DEF Committed
<1> QED
  BY <1>1, <1>2

LEMMA AnsweredWipe ==
    ASSUME Shape, Overtaken, Follows, Answered, ClearWipe
    PROVE  Answered'
<1>0. /\ UNCHANGED <<client, slot, gen, base, power, worker>>
      /\ pending.id \in Coefficients /\ receipt.id \in Coefficients
  BY Numeric DEF ClearWipe
<1>1. PICK W \in SUBSET {pending.id, receipt.id} :
              /\ log' = [log EXCEPT !.withdrawn = @ \cup W]
              /\ log'.withdrawn = log.withdrawn \cup W
              /\ Busy(pending) \/ pending.held => pending.id \in W
              /\ receipt.id # 0 => receipt.id \in W
              /\ \A j \in Jobs : \/ told'[j] = told[j]
                                 \/ /\ (j = pending.id /\ pending.held) \/ j = receipt.id
                                    /\ told[j] = "none" /\ told'[j] = "cancelled" /\ client[j] # "silent"
              /\ pending.held /\ client[pending.id] # "silent" => told'[pending.id] # "none"
              /\ receipt.id # 0 /\ client[receipt.id] # "silent" => told'[receipt.id] # "none"
              /\ \A j \in Jobs : \/ end'[j] = end[j]
                                 \/ /\ j = pending.id /\ pending.effect # "none" /\ end[j] = "none"
                                    /\ end'[j] = "cancelled"
              /\ pending' = Empty /\ receipt'.id = 0 /\ clear.pc = "wipe" /\ clear'.pc = "gate"
  BY WipeIs
<1>2. /\ log'.applied = log.applied /\ log'.saved = log.saved /\ log'.unsaved = log.unsaved
      /\ log'.frame = log.frame
  BY <1>1, Numeric DEF Logs
<1>3. \A j \in Jobs : (j = pending.id \/ j = receipt.id) => j \in log.admitted /\ client[j] # ""
  BY Numeric DEF Overtaken, Known, Accepted
<1>4. Open'
  BY <1>1, EmptyIs DEF Open, Busy
<1>5. Committed' <=> Committed
  BY <1>0 DEF Committed
<1>6. Owing'
  <2>1. slot.id # 0 /\ ~Committed => /\ slot.id \in Jobs /\ slot.id # pending.id /\ slot.id # receipt.id
                                     /\ end'[slot.id] = end[slot.id] /\ told'[slot.id] = told[slot.id]
    <3>1. slot.id # 0 /\ ~Committed => slot.id \in Jobs /\ slot.id \notin log.admitted
      BY Numeric, Positive DEF Overtaken, Current
    <3> QED
      BY <1>1, <1>3, <3>1
  <2>2. \A j \in Jobs : client[j] = "" => end'[j] = end[j] /\ told'[j] = told[j]
    BY <1>1, <1>3
  <2>3. slot.id \in log.applied \ log'.withdrawn /\ power = "run" => FALSE
    <3>1. slot.id \in log.applied \ log.withdrawn /\ power = "run" => pending.id = slot.id /\ pending.persist
      BY DEF Answered, Owing
    <3> QED
      BY <1>1, <3>1 DEF Busy
  <2>4. \A j \in Jobs : client[j] = "" => end'[j] = "none" /\ told'[j] = "none"
    BY <2>2 DEF Answered, Owing
  <2>5. slot.id # 0 /\ ~Committed' =>
            /\ end'[slot.id] = "none"
            /\ told'[slot.id] = "none" \/ (told'[slot.id] = "cancelled" /\ slot.gen # gen)
    BY <1>5, <2>1 DEF Answered, Owing
  <2> QED
    BY <1>0, <1>1, <1>2, <2>3, <2>4, <2>5 DEF Owing
<1>7. AllTrue'
  <2> SUFFICES ASSUME NEW j \in Jobs
               PROVE  Truth(j)'
    BY DEF AllTrue
  <2>0. Truth(j) /\ j # 0
    BY Numeric DEF Answered, AllTrue
  <2>1. client[j] = "user" => (end'[j] = "success" <=> j \in log.applied)
    <3>1. pending.effect # "none" => pending.id \notin log.applied
      BY DEF Answered, Open
    <3>2. end'[j] = "success" => end[j] = "success"
      BY <1>1
    <3>3. j \in log.applied => end'[j] = end[j]
      BY <1>1, <3>1
    <3> QED
      BY <2>0, <3>2, <3>3 DEF Truth
  <2>2. told'[j] = told[j] \/ (told[j] = "none" /\ told'[j] = "cancelled" /\ j \in log'.withdrawn)
    BY <1>1, <2>0 DEF Busy
  <2>3. told'[j] = "cancelled" => j \notin log.applied \ log'.withdrawn
    <3>1. CASE told'[j] = told[j]
      BY <1>1, <2>0, <3>1 DEF Truth, Busy
    <3>2. CASE j \in log'.withdrawn
      BY <3>2
    <3> QED
      BY <2>2, <3>1, <3>2
  <2>4. j \in log.applied /\ client[j] # "silent" => told'[j] # "none"
    BY <1>1, <2>0, <2>2 DEF Truth
  <2> QED
    BY <1>0, <1>2, <2>0, <2>1, <2>2, <2>3, <2>4 DEF Truth
<1> QED
  BY <1>4, <1>6, <1>7 DEF Answered

LEMMA AnsweredInvalidate ==
    ASSUME Shape, Overtaken, Follows, Answered, ClearInvalidate
    PROVE  Answered'
<1>0. /\ UNCHANGED <<client, slot, pending, receipt, base, power, worker, end>> /\ gen' = gen + 1
      /\ told' = Told(told, slot.id, "cancelled") /\ clear.pc = "invalidate" /\ clear'.pc = "wipe"
      /\ log' = [log EXCEPT !.withdrawn = @ \cup Uncommitted]
  BY MarkIs DEF ClearInvalidate
<1>1. /\ log'.applied = log.applied /\ log'.saved = log.saved /\ log'.unsaved = log.unsaved
      /\ log'.frame = log.frame /\ log.withdrawn \subseteq log'.withdrawn
  BY <1>0, Numeric DEF Logs
<1>2. \A j \in Jobs : \/ told'[j] = told[j]
                      \/ j = slot.id /\ client[j] # "silent" /\ told[j] = "none" /\ told'[j] = "cancelled"
  <2>1. told \in Results /\ slot.id \in Coefficients
    BY Numeric
  <2>2. \A k \in Jobs : \/ Told(told, slot.id, "cancelled")[k] = told[k]
                        \/ /\ k = slot.id /\ client[k] # "silent" /\ told[k] = "none"
                           /\ Told(told, slot.id, "cancelled")[k] = "cancelled"
    BY <2>1, CancelledIs
  <2> QED
    BY <1>0, <2>2
<1>3. Committed' <=> Committed
  BY <1>0 DEF Committed
<1>4. /\ slot.id # 0 => slot.id \in Jobs /\ client[slot.id] # ""
      /\ slot.gen # gen'
  <2>1. slot.gen <= gen /\ slot.gen \in Nat /\ gen \in Nat
    BY DEF Shape, SlotInv, Typed, Slots
  <2>2. slot.gen # gen'
    BY <1>0, <2>1
  <2>3. slot.id # 0 => slot.id \in Jobs /\ client[slot.id] # ""
    BY DEF Shape, SlotInv, Accepted
  <2> QED
    BY <2>2, <2>3
<1>5. Open'
  <2>1. Busy(pending) => pending.id \in Jobs
    BY Numeric, Positive DEF Shape, Carried
  <2> QED
    BY <1>0, <1>1, <1>2, <2>1 DEF Answered, Open, Busy
<1>6. Owing'
  <2>1. slot.id # 0 /\ ~Committed => /\ end[slot.id] = "none"
                                     /\ told'[slot.id] = "none" \/ told'[slot.id] = "cancelled"
    BY <1>2, <1>4 DEF Answered, Owing
  <2>2. \A j \in Jobs : client[j] = "" => told'[j] = told[j]
    BY <1>2, <1>4, Numeric
  <2>3. slot.id \in log.applied \ log'.withdrawn /\ power = "run" => pending.id = slot.id /\ pending.persist
    BY <1>1 DEF Answered, Owing
  <2>4. \A j \in Jobs : client[j] = "" => end[j] = "none" /\ told'[j] = "none"
    BY <2>2 DEF Answered, Owing
  <2> QED
    BY <1>0, <1>1, <1>3, <1>4, <2>1, <2>3, <2>4 DEF Answered, Owing
<1>7. AllTrue'
  <2> SUFFICES ASSUME NEW j \in Jobs
               PROVE  Truth(j)'
    BY DEF AllTrue
  <2>0. Truth(j)
    BY DEF Answered, AllTrue
  <2>1. told'[j] = "cancelled" /\ j \in log.applied \ log.withdrawn =>
           \/ pending.id = j /\ pending.persist
           \/ power # "run" /\ receipt.id = j
    <3> SUFFICES ASSUME told'[j] = "cancelled", j \in log.applied \ log.withdrawn
                 PROVE  \/ pending.id = j /\ pending.persist
                        \/ power # "run" /\ receipt.id = j
      OBVIOUS
    <3>1. j = slot.id /\ client[j] # "silent" /\ told[j] = "none"
      BY <1>0, <1>2, <2>0 DEF Truth
    <3>2. CASE power = "run"
      BY <3>1, <3>2 DEF Answered, Owing
    <3>3. CASE power # "run"
      BY <2>0, <3>1, <3>3 DEF Truth, Follows, Answered, Open, Busy
    <3> QED
      BY <3>2, <3>3
  <2>2. told'[j] = told[j] \/ (told[j] = "none" /\ told'[j] = "cancelled")
    BY <1>2
  <2> QED
    BY <1>0, <1>1, <2>0, <2>1, <2>2 DEF Truth
<1> QED
  BY <1>5, <1>6, <1>7 DEF Answered
LEMMA AnsweredPersist ==
    ASSUME Shape, Overtaken, Follows, Answered, NEW t \in {"worker", "power"}, PersistEnd(t),
           UNCHANGED slot, ~Committed' => ~Committed, power' = "run" => power = "run" /\ ~Committed
    PROVE  Answered'
<1>0. /\ UNCHANGED <<client, gen, base, clear, end>> /\ plock.by = t
  BY DEF PersistEnd
<1>1. pending.id # 0 /\ pending.persist /\ pending.effect = "none" /\ clear.pc = "none"
  BY <1>0 DEF Shape, Carried, Busy, Holders
<1>2. /\ pending.id \in Jobs /\ pending.id \in log.applied /\ receipt.id = 0
      /\ pending.id \notin log.saved \cup log.unsaved /\ told[pending.id] = "none"
      /\ pending.held <=> client[pending.id] # "silent"
  BY <1>1, Numeric, Positive DEF Overtaken, Known, Follows, Answered, Open, Busy
<1>3. PICK apart \in BOOLEAN, ends \in BOOLEAN :
          /\ apart <=> pending.held /\ flag.stale /\ pending.changed
          /\ ends <=> ~apart /\ pending.held /\ pending.effect = "none" /\ ~flag.stale
          /\ pending'.held <=> pending.held /\ ~apart /\ ~ends
          /\ receipt' = IF apart THEN [id |-> pending.id, err |-> pending'.err] ELSE receipt
          /\ told' = IF ends THEN Told(told, pending.id, Verdict(pending'.err)) ELSE told
  BY <1>1, PersistEnds DEF Shape
<1>4. /\ pending'.effect = "none" /\ ~pending'.persist /\ flag'.stale = flag.stale
      /\ log' = IF pending'.err THEN [log EXCEPT !.unsaved = @ \cup {pending.id}]
                                ELSE [log EXCEPT !.saved = @ \cup {pending.id}]
  BY <1>1, PersistEnds DEF Shape
<1>5. /\ log'.applied = log.applied /\ log'.frame = log.frame /\ log'.withdrawn = log.withdrawn
      /\ pending'.err => log'.unsaved = log.unsaved \cup {pending.id} /\ log'.saved = log.saved
      /\ ~pending'.err => log'.unsaved = log.unsaved /\ log'.saved = log.saved \cup {pending.id}
  BY <1>4, Numeric DEF Logs
<1>6. /\ \A j \in Jobs : j # pending.id => told'[j] = told[j]
      /\ ends => told'[pending.id] = Verdict(pending'.err)
      /\ ~ends => told' = told
  <2>1. CASE ends
    <3>1. /\ told \in Results /\ pending.id \in Coefficients
          /\ Verdict(pending'.err) \in {"success", "unsaved", "failed", "cancelled"}
      BY Numeric DEF Verdict
    <3>2. /\ \A k \in Jobs : \/ Told(told, pending.id, Verdict(pending'.err))[k] = told[k]
                             \/ /\ k = pending.id /\ told[k] = "none"
                                /\ Told(told, pending.id, Verdict(pending'.err))[k] = Verdict(pending'.err)
          /\ pending.id # 0 /\ client[pending.id] # "silent" =>
                Told(told, pending.id, Verdict(pending'.err))[pending.id] # "none"
      BY <3>1, VerdictIs
    <3>3. client[pending.id] # "silent"
      BY <1>2, <1>3, <2>1
    <3>4. told' = Told(told, pending.id, Verdict(pending'.err))
      BY <1>3, <2>1
    <3> QED
      BY <1>1, <1>2, <2>1, <3>2, <3>3, <3>4
  <2>2. CASE ~ends
    BY <1>3, <2>2
  <2> QED
    BY <2>1, <2>2
<1>7. apart => receipt'.id = pending.id /\ receipt'.err = pending'.err
  BY <1>3
<1>8. ~apart => receipt'.id = 0
  BY <1>2, <1>3
<1>9. Open'
  BY <1>4 DEF Open, Busy
<1>10. Owing'
  <2>1. receipt'.id # 0 => /\ receipt'.id = pending.id /\ client[pending.id] # "silent"
                           /\ receipt'.err = pending'.err
    BY <1>2, <1>3, <1>7, <1>8
  <2>2. receipt'.id # 0 => /\ receipt'.id \in log'.applied /\ client'[receipt'.id] # "silent"
                           /\ IF receipt'.err THEN receipt'.id \in log'.unsaved
                                              ELSE receipt'.id \in log'.saved \ log'.unsaved
    BY <1>0, <1>2, <1>5, <2>1
  <2>3. slot.id # 0 /\ ~Committed => /\ slot.id \in Jobs /\ slot.id # pending.id /\ slot.id \notin log.applied
    BY <1>2, Numeric, Positive DEF Overtaken, Current, Known
  <2>4. \A j \in Jobs : client[j] = "" => j # pending.id
    BY <1>1 DEF Overtaken, Known, Accepted
  <2>5. slot.id \in log.applied => slot.id # 0
    BY Numeric DEF Logs
  <2>6. slot.id # 0 /\ ~Committed' =>
            /\ end[slot.id] = "none"
            /\ told'[slot.id] = "none" \/ (told'[slot.id] = "cancelled" /\ slot.gen # gen)
    BY <1>6, <2>3 DEF Answered, Owing
  <2>7. \A j \in Jobs : client[j] = "" => end[j] = "none" /\ told'[j] = "none"
    BY <1>6, <2>4 DEF Answered, Owing
  <2>8. slot.id \in log.applied /\ power' = "run" => FALSE
    BY <2>3, <2>5
  <2> QED
    BY <1>0, <1>5, <2>2, <2>6, <2>7, <2>8 DEF Owing
<1>11. AllTrue'
  <2> SUFFICES ASSUME NEW j \in Jobs
               PROVE  Truth(j)'
    BY DEF AllTrue
  <2>0. Truth(j)
    BY DEF Answered, AllTrue
  <2>1. CASE j = pending.id
    <3>1. CASE ends
      <4>1. base >= log.frame[j]
        <5>1. ~flag.stale
          BY <1>3, <3>1
        <5>2. base = applied.frame /\ log.frame[j] <= applied.frame
          BY <5>1 DEF Follows
        <5> QED
          BY <5>2, Numeric
      <4>2. told'[j] = IF pending'.err THEN "unsaved" ELSE "success"
        BY <1>6, <2>1, <3>1 DEF Verdict
      <4>3. CASE pending'.err
        <5>1. told'[j] = "unsaved" /\ j \in log'.applied \cap log'.unsaved
          BY <1>2, <1>5, <2>1, <4>2, <4>3
        <5> QED
          BY <1>0, <1>5, <2>0, <5>1 DEF Truth
      <4>4. CASE ~pending'.err
        <5>1. told'[j] = "success" /\ j \in log'.applied \cap log'.saved /\ j \notin log'.unsaved
          BY <1>2, <1>5, <2>1, <4>2, <4>4
        <5> QED
          BY <1>0, <1>5, <2>0, <4>1, <5>1 DEF Truth
      <4> QED
        BY <4>3, <4>4
    <3>2. CASE ~ends
      <4>1. told'[j] = "none"
        BY <1>2, <1>6, <2>1, <3>2
      <4>2. client[j] # "silent" => receipt'.id = j
        <5>1. client[j] # "silent" => pending.held
          BY <1>2, <2>1
        <5>2. pending.held => apart \/ flag.stale
          BY <1>1, <1>3, <3>2
        <5>3. flag.stale => pending.changed
          BY <1>1 DEF Follows
        <5> QED
          BY <1>3, <1>7, <2>1, <5>1, <5>2, <5>3
      <4> QED
        BY <1>0, <1>5, <2>0, <4>1, <4>2 DEF Truth
    <3> QED
      BY <3>1, <3>2
  <2>2. CASE j # pending.id
    <3>1. /\ told'[j] = told[j]
          /\ j \in log'.saved <=> j \in log.saved
          /\ j \in log'.unsaved <=> j \in log.unsaved
          /\ j # receipt.id
      BY <1>2, <1>5, <1>6, <2>2, Numeric
    <3>2. j \in log.applied /\ client[j] # "silent" => told[j] # "none"
      BY <2>0, <2>2, <3>1 DEF Truth
    <3>3. told[j] = "cancelled" => j \notin log.applied \ log.withdrawn
      BY <1>1, <2>0 DEF Truth
    <3> QED
      BY <1>0, <1>5, <2>0, <3>1, <3>2, <3>3 DEF Truth
  <2> QED
    BY <2>1, <2>2
<1> QED
  BY <1>9, <1>10, <1>11 DEF Answered

LEMMA AnsweredApplied ==
    ASSUME Shape, Overtaken, Follows, Answered, FrameApplied
    PROVE  Answered'
<1>0. /\ UNCHANGED <<client, slot, gen, base, worker, power, clear, end, log>> /\ receipt'.id = 0
      /\ sensor.pc = "applied"
  BY DEF FrameApplied, SensorAt, NoReceipt
<1>1. power = "run" /\ base = applied.frame
  BY <1>0 DEF Follows
<1>2. ~Completes(pending, FALSE)
  BY DEF Completes, Follows, Busy
<1>3. pending' = pending /\ told' = Told(told, receipt.id, Verdict(receipt.err))
  <2>1. /\ pending' = [pending EXCEPT !.held = @ /\ ~Completes(pending, FALSE)]
        /\ told' = IF Completes(pending, FALSE)
                   THEN Told(Told(told, receipt.id, Verdict(receipt.err)), pending.id, Verdict(pending.err))
                   ELSE Told(told, receipt.id, Verdict(receipt.err))
    BY DEF FrameApplied
  <2>2. [pending EXCEPT !.held = pending.held /\ TRUE] = pending
    <3>1. pending \in Transactions /\ pending.held \in BOOLEAN
      BY Numeric DEF Transactions
    <3> QED
      BY <3>1 DEF Transactions
  <2>3. (pending.held /\ ~Completes(pending, FALSE)) = (pending.held /\ TRUE)
    BY <1>2
  <2> QED
    BY <1>2, <2>1, <2>2, <2>3
<1>4. /\ \A j \in Jobs : \/ told'[j] = told[j]
                         \/ j = receipt.id /\ told[j] = "none" /\ told'[j] = Verdict(receipt.err)
      /\ receipt.id # 0 /\ client[receipt.id] # "silent" => told'[receipt.id] # "none"
  <2>1. /\ told \in Results /\ receipt.id \in Coefficients
        /\ Verdict(receipt.err) \in {"success", "unsaved", "failed", "cancelled"}
    BY Numeric DEF Verdict
  <2>2. /\ \A k \in Jobs : \/ Told(told, receipt.id, Verdict(receipt.err))[k] = told[k]
                           \/ /\ k = receipt.id /\ told[k] = "none"
                              /\ Told(told, receipt.id, Verdict(receipt.err))[k] = Verdict(receipt.err)
        /\ receipt.id # 0 /\ client[receipt.id] # "silent" =>
              Told(told, receipt.id, Verdict(receipt.err))[receipt.id] # "none"
    BY <2>1, VerdictIs
  <2> QED
    BY <1>3, <2>2
<1>5. receipt.id # 0 => /\ receipt.id \in log.applied /\ client[receipt.id] # "silent"
                        /\ receipt.err => receipt.id \in log.unsaved
                        /\ ~receipt.err => receipt.id \in log.saved \ log.unsaved
                        /\ receipt.id \in log.admitted
  BY DEF Answered, Owing, Overtaken, Known
<1>6. Committed' <=> Committed
  BY <1>0 DEF Committed
<1>7. Open'
  <2>1. Busy(pending) => pending.id \in Jobs /\ pending.id # receipt.id
    BY <1>5, Numeric, Positive DEF Answered, Open, Busy, Shape, Carried
  <2>2. Busy(pending) => told'[pending.id] = told[pending.id]
    BY <1>4, <2>1
  <2> QED
    BY <1>0, <1>3, <2>2 DEF Answered, Open, Busy
<1>8. Owing'
  <2>1. slot.id # 0 /\ ~Committed => slot.id \in Jobs /\ slot.id # receipt.id
    BY <1>5, Numeric, Positive DEF Overtaken, Current
  <2>2. \A j \in Jobs : client[j] = "" => j # receipt.id
    BY <1>5, Numeric DEF Overtaken, Known, Accepted
  <2>3. slot.id # 0 /\ ~Committed' =>
            /\ end[slot.id] = "none"
            /\ told'[slot.id] = "none" \/ (told'[slot.id] = "cancelled" /\ slot.gen # gen)
    BY <1>4, <1>6, <2>1 DEF Answered, Owing
  <2>4. \A j \in Jobs : client[j] = "" => end[j] = "none" /\ told'[j] = "none"
    BY <1>4, <2>2 DEF Answered, Owing
  <2>5. slot.id \in log.applied \ log.withdrawn /\ power = "run" => pending.id = slot.id /\ pending.persist
    BY DEF Answered, Owing
  <2> QED
    BY <1>0, <1>3, <2>3, <2>4, <2>5 DEF Owing
<1>9. AllTrue'
  <2> SUFFICES ASSUME NEW j \in Jobs
               PROVE  Truth(j)'
    BY DEF AllTrue
  <2>0. Truth(j) /\ j # 0
    BY Numeric DEF Answered, AllTrue
  <2>1. base >= log.frame[j]
    BY <1>1, Numeric DEF Follows
  <2>2. j \in log.applied /\ client[j] # "silent" /\ told'[j] = "none" => pending.held /\ pending.id = j
    BY <1>4, <2>0 DEF Truth
  <2>3. told[j] = "cancelled" /\ j \in log.applied \ log.withdrawn =>
           clear.pc = "wipe" /\ pending.id = j /\ pending.persist
    BY <1>1, <2>0 DEF Truth
  <2>4. CASE told'[j] = told[j]
    BY <1>0, <1>3, <2>0, <2>1, <2>2, <2>3, <2>4 DEF Truth
  <2>5. CASE j = receipt.id /\ told'[j] = Verdict(receipt.err)
    <3>1. CASE receipt.err
      <4>1. told'[j] = "unsaved" /\ j \in log.applied \cap log.unsaved
        BY <1>5, <2>0, <2>5, <3>1 DEF Verdict
      <4> QED
        BY <1>0, <2>0, <4>1 DEF Truth
    <3>2. CASE ~receipt.err
      <4>1. told'[j] = "success" /\ j \in log.applied \cap log.saved /\ j \notin log.unsaved
        BY <1>5, <2>0, <2>5, <3>2 DEF Verdict
      <4> QED
        BY <1>0, <2>0, <2>1, <4>1 DEF Truth
    <3> QED
      BY <3>1, <3>2
  <2> QED
    BY <1>4, <2>4, <2>5
<1> QED
  BY <1>7, <1>8, <1>9 DEF Answered

LEMMA AnsweredStep == Shape /\ Overtaken /\ Follows /\ Answered /\ Next => Answered'
<1> SUFFICES ASSUME Shape, Overtaken, Follows, Answered, Next
             PROVE  Answered'
  OBVIOUS
<1>0. base \in Nat /\ base >= base /\ pending \in Transactions /\ applied.frame \in Nat
  BY Numeric
<1>1. CASE Clear
  <2>0. UNCHANGED <<client, slot, base, worker, power>>
    BY <1>1, ClearLeaves
  <2>1. CASE ClearLock
    <3>1. UNCHANGED <<gen, receipt, pending, end, told, log>> /\ clear.pc = "none"
      BY <2>1 DEF ClearLock, ClearAt
    <3> QED
      BY <1>0, <2>0, <3>1, AnsweredKept DEF Committed
  <2>2. CASE ClearGate \/ ClearEnd
    <3>1. UNCHANGED <<gen, receipt, pending, end, told, log>> /\ clear.pc # "wipe"
      BY <2>2 DEF ClearGate, ClearEnd, ClearAt
    <3> QED
      BY <1>0, <2>0, <3>1, AnsweredKept DEF Committed
  <2>3. CASE ClearErase
    <3>1. UNCHANGED <<gen, receipt, pending, end, told>> /\ clear.pc # "wipe"
          /\ (log' = log \/ log' = [log EXCEPT !.erased = clear.mark])
      BY <2>3 DEF ClearErase, ClearStep, ClearAt
    <3>2. /\ log'.applied = log.applied /\ log'.frame = log.frame /\ log'.saved = log.saved
          /\ log'.unsaved = log.unsaved /\ log'.withdrawn = log.withdrawn
      BY <3>1, Numeric DEF Logs
    <3> QED
      BY <1>0, <2>0, <3>1, <3>2, AnsweredKept DEF Committed
  <2> QED
    BY <1>1, <2>1, <2>2, <2>3, AnsweredInvalidate, AnsweredWipe DEF Clear
<1>2. CASE Worker
  <2>0. UNCHANGED <<client, gen, base, power, clear>>
    BY <1>2, WorkerLeaves
  <2>1. CASE Rests \/ Trims \/ Frees
    <3>1. UNCHANGED <<receipt, pending, end, told>> /\ (slot' = slot \/ slot' = NoSlot)
          /\ (slot' = slot /\ ~Committed' => ~Committed \/ slot' = NoSlot)
      BY <2>1 DEF Rests, Trims, Frees, Writes, SameData, Committed
    <3>2. SameLog
      BY <2>1 DEF Rests, Trims, Frees, Writes, SameData
    <3>3. slot' = slot /\ ~Committed' => ~Committed
      <4>1. Frees => slot' # slot
        BY DEF Frees, Committed, NoSlot, Shape, SlotInv
      <4> QED
        BY <2>1, <4>1 DEF Rests, Trims
    <3> QED
      BY <1>0, <2>0, <3>1, <3>2, <3>3, AnsweredKept DEF SameLog
  <2>2. CASE Closes
    <3>1. UNCHANGED <<slot, receipt, end, told>> /\ SameLog /\ Committed'
          /\ pending'.id = pending.id /\ pending'.effect = pending.effect /\ pending'.persist = pending.persist
          /\ pending'.held = pending.held /\ pending'.op = pending.op
      BY <2>2 DEF Closes, Writes, SameCandidate, Committed
    <3> QED
      BY <1>0, <2>0, <3>1, AnsweredKept DEF SameLog
  <2>3. CASE Drops
    <3>1. /\ slot.id # 0 /\ ~Committed /\ slot' = NoSlot /\ UNCHANGED <<pending, receipt>> /\ SameLog
          /\ told' = Told(told, slot.id, "cancelled") /\ end' = Ended(end, slot.id, "cancelled")
      BY <2>3 DEF Drops, SameData
    <3> QED
      BY <2>0, <3>1, AnsweredSlot
  <2>4. CASE Fails
    <3>1. /\ slot.id # 0 /\ ~Committed /\ slot' = slot /\ UNCHANGED <<pending, receipt>> /\ SameLog
          /\ Committed'
      BY <2>4 DEF Fails, SameData, Committed
    <3>2. PICK outcome \in {"failed", "cancelled"} :
             told' = Told(told, slot.id, outcome) /\ end' = Ended(end, slot.id, outcome)
      BY <2>4 DEF Fails
    <3> QED
      BY <2>0, <3>1, <3>2, AnsweredSlot
  <2>5. CASE Commits
    <3>1. /\ UNCHANGED <<slot, receipt, end, told>> /\ slot.id # 0 /\ slot.gen = gen /\ ~Committed /\ Committed'
          /\ Admits
      BY <2>5 DEF Commits, Committed
    <3>2. /\ pending'.id = slot.id /\ pending'.effect # "none" /\ pending'.persist = FALSE
          /\ pending'.held = (client[slot.id] # "silent") /\ pending'.op = (client[slot.id] = "user")
      BY <2>5 DEF Commits, Candidate
    <3>3. /\ log'.applied = log.applied /\ log'.frame = log.frame /\ log'.saved = log.saved
          /\ log'.unsaved = log.unsaved /\ log.withdrawn \subseteq log'.withdrawn
      BY <2>5, Numeric DEF Commits, Logs
    <3>4. slot.id \in Jobs /\ slot.id \notin log.admitted /\ client[slot.id] # ""
      BY <3>1, Numeric, Positive DEF Overtaken, Current, Shape, SlotInv, Accepted
    <3>5. UNCHANGED applied /\ gen \in Nat
      BY <1>2, WorkerLeaves DEF Shape, Typed
    <3> QED
      BY <2>0, <3>1, <3>2, <3>3, <3>4, <3>5, AnsweredEnters
  <2>6. CASE /\ PersistBegin("worker") \/ PersistWrite("worker") \/ PersistEnd("worker")
             /\ slot' = slot /\ ~Committed /\ ~Committed'
    <3>1. CASE PersistBegin("worker") \/ PersistWrite("worker")
      <4>1. UNCHANGED <<receipt, pending, end, told, log>>
        BY <3>1 DEF PersistBegin, PersistWrite
      <4> QED
        BY <1>0, <2>0, <2>6, <4>1, AnsweredKept
    <3>2. CASE PersistEnd("worker")
      BY <2>0, <2>6, <3>2, AnsweredPersist
    <3> QED
      BY <2>6, <3>1, <3>2
  <2> QED
    BY <1>2, <2>1, <2>2, <2>3, <2>4, <2>5, <2>6, WorkerCases
<1>3. CASE Sensor
  <2>0. UNCHANGED <<client, slot, gen, worker, power, clear>>
    BY <1>3, SensorLeaves
  <2>1. CASE FrameApply
    BY <2>0, <2>1, AnsweredApply DEF FrameApply
  <2>2. CASE FrameConsume
    <3>1. UNCHANGED <<receipt, pending, end, told, log>> /\ base' = applied.frame
      BY <2>2 DEF FrameConsume
    <3>2. base' \in Nat /\ base' >= base
      BY <1>0, <3>1 DEF Follows
    <3> QED
      BY <2>0, <3>1, <3>2, AnsweredKept DEF Committed
  <2>3. CASE FrameSave
    BY <1>0, <2>0, <2>3, AnsweredKept DEF FrameSave, Committed
  <2> QED
    BY <1>3, <2>1, <2>2, <2>3, AnsweredApplied DEF Sensor
<1>4. CASE PowerSuspend \/ PowerStep
  <2>0. UNCHANGED <<client, slot, gen, base, worker, clear>>
    BY <1>4, PowerLeaves
  <2>1. CASE PowerApply
    BY <2>0, <2>1, AnsweredApply DEF PowerApply, PowerAt
  <2>2. CASE PowerSuspend \/ PowerHasNothing \/ PowerDrop \/ \E off \in BOOLEAN : PowerRetain(off)
    <3>1. UNCHANGED <<receipt, pending, end, told, log>> /\ power' # "run"
      BY <2>2 DEF PowerSuspend, PowerHasNothing, PowerDrop, PowerRetain
    <3> QED
      BY <1>0, <2>0, <3>1, AnsweredKept DEF Committed
  <2>3. CASE PowerPersists
    <3>0. power' # "run" /\ (Committed' <=> Committed)
      BY <2>0, <2>3 DEF PowerPersists, Committed
    <3>1. CASE PersistBegin("power") \/ PersistWrite("power")
      <4>1. UNCHANGED <<receipt, pending, end, told, log>>
        BY <3>1 DEF PersistBegin, PersistWrite
      <4> QED
        BY <1>0, <2>0, <3>0, <4>1, AnsweredKept
    <3>2. CASE PersistEnd("power")
      BY <2>0, <3>0, <3>2, AnsweredPersist
    <3> QED
      BY <2>3, <3>1, <3>2 DEF PowerPersists
  <2> QED
    BY <1>4, <2>1, <2>2, <2>3 DEF PowerStep
<1> QED
  BY <1>1, <1>2, <1>3, <1>4, AnsweredRequest, AnsweredReset DEF Next, Kinds
-----------------------------------------------------------------------------
(* What the power-down leaves behind *)

\* The candidate stays where it is in its life, and so does the power-down.
LEMMA KeptKept ==
    ASSUME Kept, log'.admitted = log.admitted, log'.applied = log.applied, log'.saved = log.saved,
           log'.unsaved = log.unsaved, log.withdrawn \subseteq log'.withdrawn,
           pending'.id = pending.id, pending'.effect = pending.effect, pending'.persist = pending.persist,
           flag'.closing = flag.closing,
           power' \notin {"run", "apply"} => power \notin {"run", "apply"},
           power' \in {"drop", "retain", "off"} => power \in {"drop", "retain", "off"} \/ ~pending.persist
    PROVE  Kept'
BY DEF Kept, Busy

\* A candidate comes in, which nothing does once the power-down has closed the door.
LEMMA KeptEnters ==
    ASSUME Kept, Admits, NEW i, log'.admitted = log.admitted \cup {i}, log'.applied = log.applied,
           log'.saved = log.saved, log'.unsaved = log.unsaved, log.withdrawn \subseteq log'.withdrawn,
           pending'.id = i, pending'.effect # "none", UNCHANGED power
    PROVE  Kept'
BY DEF Kept, Busy, Admits

LEMMA KeptApply ==
    ASSUME Shape, Kept, NEW close \in BOOLEAN, ApplyPending(close),
           power' = power \/ (close /\ power' = "persist")
    PROVE  Kept'
<1>1. CASE ~flag.clearing /\ pending.effect # "none"
  <2>1. pending.id # 0
    BY <1>1 DEF Shape, Carried, Busy
  <2>2. /\ pending' = [pending EXCEPT !.effect = "none", !.persist = TRUE,
                                      !.changed = pending.effect # "coefficients"]
        /\ log' = [log EXCEPT !.applied = @ \cup {pending.id}, !.frame[pending.id] = applied'.frame]
        /\ flag'.closing = (flag.closing \/ close)
    BY <1>1, <2>1, Applies DEF Shape
  <2>3. pending'.id = pending.id /\ pending'.effect = "none" /\ pending'.persist
    BY <2>2, Numeric DEF Transactions
  <2>4. /\ log'.applied = log.applied \cup {pending.id} /\ log'.saved = log.saved /\ log'.unsaved = log.unsaved
        /\ log'.withdrawn = log.withdrawn /\ log'.admitted = log.admitted
    BY <2>2, Numeric DEF Logs
  <2>5. power \in {"run", "apply"}
    BY <1>1 DEF Kept
  <2>6. power' \notin {"run", "apply"} => flag'.closing /\ power' = "persist"
    BY <2>2, <2>5
  <2> QED
    BY <1>1, <2>3, <2>4, <2>6 DEF Kept, Busy
<1>2. CASE ~(~flag.clearing /\ pending.effect # "none")
  <2>1. UNCHANGED <<pending, log>> /\ flag' = [flag EXCEPT !.save = @ /\ Effect # "save", !.closing = @ \/ close]
    BY <1>2 DEF ApplyPending
  <2>2. flag'.closing = (flag.closing \/ close)
    BY <2>1, Numeric DEF Flags
  <2>3. pending.effect = "none"
    BY <1>2, EmptyIs DEF Shape, Carried
  <2>4. power' \notin {"run", "apply"} => flag'.closing
    BY <2>2 DEF Kept
  <2>5. power' \in {"drop", "retain", "off"} => ~pending.persist
    BY DEF Kept
  <2> QED
    BY <2>1, <2>3, <2>4, <2>5 DEF Kept, Busy
<1> QED
  BY <1>1, <1>2

LEMMA KeptPersist ==
    ASSUME Shape, Overtaken, Kept, NEW t \in {"worker", "power"},
           \/ PersistBegin(t) /\ power' \notin {"drop", "retain", "off"}
           \/ PersistWrite(t) /\ power' \notin {"drop", "retain", "off"}
           \/ PersistEnd(t),
           power' = power \/ power \notin {"run", "apply"}
    PROVE  Kept'
<1>1. CASE (PersistBegin(t) \/ PersistWrite(t)) /\ power' \notin {"drop", "retain", "off"}
  <2>1. UNCHANGED <<pending, flag, log>>
    BY <1>1 DEF PersistBegin, PersistWrite
  <2> QED
    BY <1>1, <2>1 DEF Kept, Busy
<1>2. CASE PersistEnd(t)
  <2>1. pending.id # 0 /\ pending.persist
    BY <1>2 DEF PersistEnd, Shape, Carried, Busy
  <2>2. /\ pending'.effect = pending.effect /\ ~pending'.persist /\ flag'.closing = flag.closing
        /\ log' = IF pending'.err THEN [log EXCEPT !.unsaved = @ \cup {pending.id}]
                                  ELSE [log EXCEPT !.saved = @ \cup {pending.id}]
    BY <1>2, <2>1, PersistEnds DEF Shape
  <2>3. /\ log'.applied = log.applied /\ log'.withdrawn = log.withdrawn /\ log'.admitted = log.admitted
        /\ log'.saved \cup log'.unsaved = log.saved \cup log.unsaved \cup {pending.id}
    BY <2>2, Numeric DEF Logs
  <2>4. pending.id \in log.applied
    BY <2>1 DEF Overtaken, Known
  <2> QED
    BY <2>2, <2>3, <2>4 DEF Kept, Busy
<1> QED
  BY <1>1, <1>2

LEMMA KeptStep == Shape /\ Overtaken /\ Kept /\ Next => Kept'
<1> SUFFICES ASSUME Shape, Overtaken, Kept, Next
             PROVE  Kept'
  OBVIOUS
<1>0. flag \in Flags /\ log \in Logs /\ pending \in Transactions
  BY Numeric
<1>1. CASE \E kind \in Kinds, who \in {"user", "silent"} : Request(kind, who)
  BY <1>1, KeptKept DEF Request
<1>2. ASSUME NEW kind \in Kinds, Reset(kind)
      PROVE  Kept'
  <2>1. /\ Admits /\ UNCHANGED power /\ pending'.id = NextJob /\ pending'.effect # "none"
    BY <1>2 DEF Reset, Candidate
  <2>2. /\ log'.admitted = log.admitted \cup {NextJob} /\ log'.applied = log.applied
        /\ log'.saved = log.saved /\ log'.unsaved = log.unsaved /\ log.withdrawn \subseteq log'.withdrawn
    BY <1>0, <1>2 DEF Reset, Logs
  <2> QED
    BY <2>1, <2>2, KeptEnters
<1>3. CASE Clear
  <2>0. UNCHANGED power
    BY <1>3, ClearLeaves
  <2>1. CASE ClearLock \/ ClearGate \/ ClearEnd
    <3>1. UNCHANGED <<pending, log>> /\ flag'.closing = flag.closing
      BY <1>0, <2>1 DEF ClearLock, ClearGate, ClearEnd, Flags
    <3> QED
      BY <2>0, <3>1, KeptKept
  <2>2. CASE ClearInvalidate \/ ClearErase
    <3>1. UNCHANGED <<pending, flag>>
      BY <2>2 DEF ClearInvalidate, ClearErase
    <3>2. /\ log'.admitted = log.admitted /\ log'.applied = log.applied
          /\ log'.saved = log.saved /\ log'.unsaved = log.unsaved /\ log.withdrawn \subseteq log'.withdrawn
      BY <1>0, <2>2 DEF ClearInvalidate, ClearErase, Logs
    <3> QED
      BY <2>0, <3>1, <3>2, KeptKept
  <2>3. CASE ClearWipe
    <3>1. PICK W \in SUBSET {pending.id, receipt.id} :
              /\ log' = [log EXCEPT !.withdrawn = @ \cup W]
              /\ log'.withdrawn = log.withdrawn \cup W
              /\ Busy(pending) \/ pending.held => pending.id \in W
              /\ pending' = Empty /\ flag'.closing = flag.closing
      BY <2>3, WipeIs
    <3>2. /\ log'.admitted = log.admitted /\ log'.applied = log.applied
          /\ log'.saved = log.saved /\ log'.unsaved = log.unsaved
      BY <1>0, <3>1 DEF Logs
    <3> QED
      BY <2>0, <3>1, <3>2, EmptyIs DEF Kept, Busy
  <2> QED
    BY <1>3, <2>1, <2>2, <2>3 DEF Clear
<1>4. CASE Worker
  <2>0. UNCHANGED power
    BY <1>4, WorkerLeaves
  <2>1. CASE Rests \/ Drops \/ Fails \/ Trims \/ Closes \/ Frees
    <3>1. SameLog /\ SameFlags
      BY <2>1 DEF Rests, Drops, Fails, Trims, Closes, Frees, Writes, SameData
    <3>2. pending'.id = pending.id /\ pending'.effect = pending.effect /\ pending'.persist = pending.persist
      BY <2>1 DEF Rests, Drops, Fails, Trims, Closes, Frees, SameCandidate, SameData
    <3> QED
      BY <2>0, <3>1, <3>2, KeptKept DEF SameLog, SameFlags
  <2>2. CASE Commits
    <3>1. Admits /\ pending'.id = slot.id /\ pending'.effect # "none"
      BY <2>2 DEF Commits, Candidate
    <3>2. /\ log'.admitted = log.admitted \cup {slot.id} /\ log'.applied = log.applied
          /\ log'.saved = log.saved /\ log'.unsaved = log.unsaved /\ log.withdrawn \subseteq log'.withdrawn
      BY <1>0, <2>2 DEF Commits, Logs
    <3> QED
      BY <2>0, <3>1, <3>2, KeptEnters
  <2>3. CASE PersistBegin("worker") \/ PersistWrite("worker") \/ PersistEnd("worker")
    <3>1. PersistBegin("worker") \/ PersistWrite("worker") => pending.persist
      BY PersistBegins DEF PersistWrite, Shape, Carried
    <3>2. PersistBegin("worker") \/ PersistWrite("worker") => power' \notin {"drop", "retain", "off"}
      BY <2>0, <3>1 DEF Kept
    <3> QED
      BY <2>0, <2>3, <3>2, KeptPersist
  <2> QED
    BY <1>4, <2>1, <2>2, <2>3, WorkerCases
<1>5. CASE Sensor
  <2>0. UNCHANGED power
    BY <1>5, SensorLeaves
  <2>1. CASE FrameApply
    BY <2>0, <2>1, KeptApply DEF FrameApply
  <2>2. CASE FrameConsume \/ FrameSave
    <3>1. UNCHANGED <<pending, log, flag>>
      BY <2>2 DEF FrameConsume, FrameSave
    <3> QED
      BY <2>0, <3>1, KeptKept
  <2>3. CASE FrameApplied
    <3>1. /\ log' = log /\ flag' = [flag EXCEPT !.stale = FALSE]
          /\ pending' = [pending EXCEPT !.held = @ /\ ~Completes(pending, FALSE)]
      BY <2>3 DEF FrameApplied
    <3>2. pending'.id = pending.id /\ pending'.effect = pending.effect /\ pending'.persist = pending.persist
      BY <1>0, <3>1 DEF Transactions
    <3>3. flag'.closing = flag.closing
      BY <1>0, <3>1 DEF Flags
    <3> QED
      BY <2>0, <3>1, <3>2, <3>3, KeptKept
  <2> QED
    BY <1>5, <2>1, <2>2, <2>3 DEF Sensor
<1>6. CASE PowerSuspend
  <2>1. UNCHANGED <<pending, log>> /\ flag'.closing = flag.closing /\ power' = "apply"
    BY <1>0, <1>6 DEF PowerSuspend, Flags
  <2> QED
    BY <2>1, KeptKept
<1>7. CASE PowerStep
  <2>1. CASE PowerApply
    BY <2>1, KeptApply DEF PowerApply
  <2>2. CASE PowerPersists
    <3>1. power \notin {"run", "apply"}
      BY <2>2 DEF PowerPersists, PowerAt
    <3> QED
      BY <2>2, <3>1, KeptPersist DEF PowerPersists
  <2>3. CASE PowerHasNothing
    <3>1. UNCHANGED <<pending, log, flag>> /\ ~pending.persist /\ power = "persist"
      BY <2>3 DEF PowerHasNothing, PowerAt
    <3> QED
      BY <3>1, KeptKept
  <2>4. CASE PowerDrop \/ \E off \in BOOLEAN : PowerRetain(off)
    <3>1. UNCHANGED <<pending, log, flag>> /\ power \in {"drop", "retain"}
      BY <2>4 DEF PowerDrop, PowerRetain, PowerAt
    <3> QED
      BY <3>1, KeptKept
  <2> QED
    BY <1>7, <2>1, <2>2, <2>3, <2>4 DEF PowerStep
<1> QED
  BY <1>1, <1>2, <1>3, <1>4, <1>5, <1>6, <1>7 DEF Next, Kinds
-----------------------------------------------------------------------------
(* What retained memory owes to the live coefficients *)

LEMMA PromisedStep == Shape /\ Overtaken /\ Promised /\ Next => Promised'
<1> SUFFICES ASSUME Shape, Overtaken, Promised, Next
             PROVE  Promised'
  OBVIOUS
<1>0. flag \in Flags /\ log \in Logs /\ pending \in Transactions /\ worker.err \in BOOLEAN
  BY Numeric DEF Shape, Typed, Workers
<1>1. ASSUME UNCHANGED pending, log.fleeting \subseteq log'.fleeting
      PROVE  Promised'
  BY <1>1 DEF Promised, Busy
<1>2. CASE \E kind \in Kinds, who \in {"user", "silent"} : Request(kind, who)
  BY <1>1, <1>2 DEF Request
<1>3. ASSUME NEW kind \in Kinds, Reset(kind)
      PROVE  Promised'
  BY <1>3 DEF Reset, Candidate, Promised, Busy
<1>4. CASE Clear
  <2>1. CASE ClearWipe
    BY <2>1, EmptyIs DEF ClearWipe, Promised, Busy
  <2>2. CASE ClearLock \/ ClearInvalidate \/ ClearGate \/ ClearErase \/ ClearEnd
    <3>1. UNCHANGED pending
      BY <2>2 DEF ClearLock, ClearInvalidate, ClearGate, ClearErase, ClearEnd
    <3>2. log'.fleeting = log.fleeting
      BY <1>0, <2>2 DEF ClearLock, ClearInvalidate, ClearGate, ClearErase, ClearEnd, Logs
    <3> QED
      BY <1>1, <3>1, <3>2
  <2> QED
    BY <1>4, <2>1, <2>2 DEF Clear
<1>5. ASSUME NEW t \in {"worker", "power"}, PersistBegin(t) \/ PersistWrite(t) \/ PersistEnd(t)
      PROVE  Promised'
  <2>1. CASE PersistBegin(t) \/ PersistWrite(t)
    BY <1>1, <2>1 DEF PersistBegin, PersistWrite
  <2>2. CASE PersistEnd(t)
    <3>1. pending.id # 0 /\ pending.effect = "none"
      BY <2>2 DEF PersistEnd, Shape, Carried, Busy
    <3>2. ~pending'.persist /\ pending'.effect = "none"
      BY <2>2, <3>1, PersistEnds DEF Shape
    <3> QED
      BY <3>2 DEF Promised, Busy
  <2> QED
    BY <1>5, <2>1, <2>2
<1>6. CASE Worker
  <2>1. CASE Rests \/ Drops \/ Fails \/ Trims \/ Frees
    BY <1>1, <2>1 DEF Rests, Drops, Fails, Trims, Frees, Writes, SameData, SameLog
  <2>2. CASE Closes
    <3>1. log'.fleeting = log.fleeting
      BY <2>2 DEF Closes, Writes, SameLog
    <3> QED
      BY <2>2, <3>1 DEF Closes, SameCandidate, Promised, Busy
  <2>3. CASE Commits
    <3>1. PICK effect \in {"bias", "frame"}, part \in {"bias", "matrix"}, keep \in BOOLEAN, err \in BOOLEAN :
             /\ pending' = Candidate(slot.id, client[slot.id], effect, part, keep, err, worker.gen)
             /\ log' = [log EXCEPT !.admitted = @ \cup {slot.id},
                                   !.fleeting = IF keep THEN @ ELSE @ \cup {slot.id}]
      BY <2>3 DEF Commits
    <3>2. pending'.id = slot.id /\ pending'.effect = effect /\ pending'.keep = keep /\ ~pending'.persist
      BY <3>1 DEF Candidate
    <3>3. ~keep => slot.id \in log'.fleeting
      BY <1>0, <3>1 DEF Logs
    <3> QED
      BY <3>2, <3>3 DEF Promised, Busy
  <2> QED
    BY <1>5, <1>6, <2>1, <2>2, <2>3, WorkerCases
<1>7. ASSUME NEW close \in BOOLEAN, ApplyPending(close)
      PROVE  Promised'
  <2>1. CASE ~flag.clearing /\ pending.effect # "none"
    <3>1. pending.id # 0
      BY <2>1 DEF Shape, Carried, Busy
    <3>2. /\ pending' = [pending EXCEPT !.effect = "none", !.persist = TRUE,
                                        !.changed = pending.effect # "coefficients"]
          /\ log' = [log EXCEPT !.applied = @ \cup {pending.id}, !.frame[pending.id] = applied'.frame]
      BY <1>7, <2>1, <3>1, Applies DEF Shape
    <3>3. /\ pending'.id = pending.id /\ pending'.effect = "none" /\ pending'.keep = pending.keep
          /\ pending'.part = pending.part /\ (~pending'.changed => pending.effect = "coefficients")
      BY <1>0, <3>2 DEF Transactions
    <3>4. log'.fleeting = log.fleeting
      BY <1>0, <3>2 DEF Logs
    <3> QED
      BY <2>1, <3>3, <3>4 DEF Promised, Busy
  <2>2. CASE ~(~flag.clearing /\ pending.effect # "none")
    BY <1>1, <1>7, <2>2 DEF ApplyPending
  <2> QED
    BY <2>1, <2>2
<1>8. CASE Sensor
  <2>1. CASE FrameConsume \/ FrameSave
    BY <1>1, <2>1 DEF FrameConsume, FrameSave
  <2>2. CASE FrameApplied
    <3>1. pending' = [pending EXCEPT !.held = @ /\ ~Completes(pending, FALSE)] /\ log' = log
      BY <2>2 DEF FrameApplied
    <3>2. /\ pending'.id = pending.id /\ pending'.effect = pending.effect /\ pending'.persist = pending.persist
          /\ pending'.keep = pending.keep /\ pending'.part = pending.part /\ pending'.changed = pending.changed
      BY <1>0, <3>1 DEF Transactions
    <3> QED
      BY <3>1, <3>2 DEF Promised, Busy
  <2> QED
    BY <1>7, <1>8, <2>1, <2>2 DEF Sensor, FrameApply
<1>9. CASE PowerSuspend \/ PowerStep
  <2>1. CASE PowerSuspend \/ PowerHasNothing \/ PowerDrop \/ \E off \in BOOLEAN : PowerRetain(off)
    BY <1>1, <2>1 DEF PowerSuspend, PowerHasNothing, PowerDrop, PowerRetain
  <2> QED
    BY <1>5, <1>7, <1>9, <2>1 DEF PowerStep, PowerApply, PowerPersists
<1> QED
  BY <1>2, <1>3, <1>4, <1>6, <1>8, <1>9 DEF Next, Kinds

\* Neither what is live nor what is retained of a part changes.
LEMMA MatchesKept ==
    ASSUME NEW c \in {"bias", "matrix"}, Matches(c), applied'[c] = applied[c], ram'[c] = ram[c],
           Accepted \subseteq Accepted', log.withdrawn \subseteq log'.withdrawn,
           log.fleeting \subseteq log'.fleeting, log'.erased = log.erased,
           pending'.persist = pending.persist,
           pending.persist => /\ pending'.id = pending.id /\ pending'.part = pending.part
                              /\ pending'.keep = pending.keep,
           clear'.pc \in {"gate", "erase"} => clear.pc \in {"gate", "erase"} /\ clear'.mark = clear.mark,
           clear'.pc = "wipe" => clear.pc = "wipe" /\ clear'.mark = clear.mark
    PROVE  Matches(c)'
BY DEF Matches, Unwritten

LEMMA MatchesClear ==
    ASSUME Shape, Overtaken, NEW c \in {"bias", "matrix"}, Matches(c), Clear
    PROVE  Matches(c)'
<1>0. /\ UNCHANGED <<client, applied>> /\ Accepted' = Accepted
      /\ log \in Logs /\ clear \in Clears /\ ram \in Memories
  BY ClearLeaves DEF Accepted, Shape, Typed
<1>1. CASE ClearLock \/ ClearGate \/ ClearEnd
  <2>1. UNCHANGED <<pending, ram, log>>
    BY <1>1 DEF ClearLock, ClearGate, ClearEnd
  <2>2. /\ clear'.pc \in {"gate", "erase"} => clear.pc \in {"gate", "erase"} /\ clear'.mark = clear.mark
        /\ clear'.pc # "wipe"
    BY <1>0, <1>1 DEF ClearLock, ClearGate, ClearEnd, ClearAt, Clears
  <2> QED
    BY <1>0, <2>1, <2>2, MatchesKept
<1>2. CASE ClearInvalidate
  <2>1. /\ UNCHANGED <<pending, ram>> /\ clear'.pc = "wipe" /\ Accepted = 1..clear'.mark
        /\ clear'.mark \in Coefficients
    BY <1>2, MarkIs DEF ClearInvalidate
  <2>2. log.withdrawn \subseteq log'.withdrawn /\ log'.fleeting = log.fleeting /\ log'.erased = log.erased
    BY <1>0, <1>2 DEF ClearInvalidate, Logs
  <2>3. applied[c] = 0 \/ applied[c] <= clear'.mark
    BY <2>1, BoundsAssumption DEF Matches, Coefficients
  <2> QED
    BY <1>0, <2>1, <2>2, <2>3 DEF Matches, Unwritten
<1>3. CASE ClearWipe
  <2>1. PICK W \in SUBSET {pending.id, receipt.id} :
            /\ log' = [log EXCEPT !.withdrawn = @ \cup W]
            /\ log'.withdrawn = log.withdrawn \cup W
            /\ Busy(pending) \/ pending.held => pending.id \in W
            /\ pending' = Empty /\ clear.pc = "wipe" /\ clear'.pc = "gate" /\ clear'.mark = clear.mark
    BY <1>3, WipeIs
  <2>2. log'.fleeting = log.fleeting /\ log'.erased = log.erased
    BY <1>0, <2>1 DEF Logs
  <2>3. pending.persist /\ pending.part = c => applied[c] \in log'.withdrawn
    BY <2>1 DEF Matches, Busy
  <2>4. ram' = ram
    BY <1>3 DEF ClearWipe
  <2> QED
    BY <1>0, <2>1, <2>2, <2>3, <2>4, EmptyIs DEF Matches, Unwritten
<1>4. CASE ClearErase
  <2>1. UNCHANGED pending /\ clear.pc = "erase" /\ clear'.pc = "release"
    BY <1>0, <1>4 DEF ClearErase, ClearStep, ClearAt, Clears
  <2>2. CASE UNCHANGED <<ram, log>>
    BY <1>0, <2>1, <2>2, MatchesKept
  <2>3. CASE /\ ram' = [d \in DOMAIN ram |-> IF d = "fusion" THEN NotKept ELSE 0]
             /\ log' = [log EXCEPT !.erased = clear.mark]
    <3>1. ram'[c] = 0
      BY <1>0, <2>3 DEF Memories
    <3>2. log'.withdrawn = log.withdrawn /\ log'.fleeting = log.fleeting /\ log'.erased = clear.mark
      BY <1>0, <2>3 DEF Logs
    <3> QED
      BY <1>0, <2>1, <3>1, <3>2 DEF Matches, Unwritten
  <2> QED
    BY <1>4, <2>2, <2>3 DEF ClearErase
<1> QED
  BY <1>1, <1>2, <1>3, <1>4 DEF Clear

LEMMA MatchesApply ==
    ASSUME Shape, Overtaken, Promised, NEW c \in {"bias", "matrix"}, Matches(c),
           NEW close \in BOOLEAN, ApplyPending(close), UNCHANGED <<client, ram, clear>>
    PROVE  Matches(c)'
<1>0. Accepted' = Accepted /\ log \in Logs /\ pending \in Transactions
  BY Numeric DEF Accepted
<1>1. CASE ~flag.clearing /\ pending.effect # "none"
  <2>1. pending.id # 0 /\ pending.id \in log.admitted /\ ~pending.persist
        /\ (pending.part = "bias" \/ pending.keep)
    BY <1>1 DEF Shape, Carried, Busy, Overtaken, Known
  <2>2. /\ applied'[pending.part] = pending.id
        /\ \A d \in {"bias", "matrix"} : d # pending.part => applied'[d] = applied[d]
        /\ pending' = [pending EXCEPT !.effect = "none", !.persist = TRUE,
                                      !.changed = pending.effect # "coefficients"]
        /\ log' = [log EXCEPT !.applied = @ \cup {pending.id}, !.frame[pending.id] = applied'.frame]
    BY <1>1, <2>1, Applies DEF Shape
  <2>3. /\ pending'.id = pending.id /\ pending'.persist /\ pending'.part = pending.part
        /\ pending'.keep = pending.keep
    BY <1>0, <2>2 DEF Transactions
  <2>4. log'.fleeting = log.fleeting /\ log'.erased = log.erased /\ log'.withdrawn = log.withdrawn
    BY <1>0, <2>2 DEF Logs
  <2>5. CASE c = pending.part
    <3>1. applied'[c] \in Accepted /\ applied'[c] = pending.id
      BY <2>1, <2>2, <2>5 DEF Overtaken, Known
    <3>2. Unwritten(c)' \/ (c = "bias" /\ applied'[c] \in log'.fleeting)
      BY <1>1, <2>1, <2>3, <2>4, <2>5, <3>1 DEF Unwritten, Promised, Busy
    <3>3. clear.pc \notin {"gate", "erase"}
      BY <1>1 DEF Shape, Holders
    <3> QED
      BY <1>0, <2>3, <2>5, <3>1, <3>2, <3>3 DEF Matches
  <2>6. CASE c # pending.part
    BY <1>0, <2>1, <2>2, <2>3, <2>4, <2>6 DEF Matches, Unwritten
  <2> QED
    BY <2>5, <2>6
<1>2. CASE ~(~flag.clearing /\ pending.effect # "none")
  BY <1>0, <1>2, MatchesKept DEF ApplyPending
<1> QED
  BY <1>1, <1>2

LEMMA MatchesPersist ==
    ASSUME Shape, Overtaken, NEW c \in {"bias", "matrix"}, Matches(c), NEW t \in {"worker", "power"},
           PersistBegin(t) \/ PersistWrite(t) \/ PersistEnd(t)
    PROVE  Matches(c)'
<1>0. /\ UNCHANGED <<client, applied, clear>> /\ Accepted' = Accepted /\ log \in Logs
  BY Numeric DEF PersistBegin, PersistWrite, PersistEnd, Accepted
<1>1. CASE PersistBegin(t)
  <2>1. UNCHANGED <<pending, ram, log>>
    BY <1>1 DEF PersistBegin
  <2> QED
    BY <1>0, <2>1, MatchesKept
<1>2. CASE PersistWrite(t)
  <2>1. ram'[c] = ram[c] \/ (c = plock.next.part /\ ram'[c] = plock.next.id)
    BY <1>2, PersistWrites DEF Shape
  <2>2. pending.persist /\ plock.next.id = pending.id /\ plock.next.part = pending.part
    BY <1>2 DEF PersistWrite, Shape, Carried
  <2>3. ram'[c] = ram[c] \/ ram'[c] = applied[c]
    BY <2>1, <2>2 DEF Matches
  <2>4. UNCHANGED <<pending, log>>
    BY <1>2 DEF PersistWrite
  <2> QED
    BY <1>0, <2>3, <2>4 DEF Matches, Unwritten
<1>3. CASE PersistEnd(t)
  <2>1. pending.id # 0 /\ pending.persist /\ clear.pc = "none" /\ (worker.pc = "written" \/ power = "written")
    BY <1>3 DEF PersistEnd, Shape, Carried, Busy, Holders
  <2>2. Unwritten(c) => ram[c] = applied[c]
    BY <2>1 DEF Unwritten, Matches, Shape, Carried
  <2>3. /\ ~pending'.persist
        /\ log' = IF pending'.err THEN [log EXCEPT !.unsaved = @ \cup {pending.id}]
                                  ELSE [log EXCEPT !.saved = @ \cup {pending.id}]
    BY <1>3, <2>1, PersistEnds DEF Shape
  <2>4. log'.fleeting = log.fleeting /\ log'.erased = log.erased /\ log'.withdrawn = log.withdrawn
    BY <1>0, <2>3 DEF Logs
  <2>5. ram' = ram
    BY <1>3 DEF PersistEnd
  <2> QED
    BY <1>0, <2>1, <2>2, <2>3, <2>4, <2>5 DEF Matches, Unwritten
<1> QED
  BY <1>1, <1>2, <1>3

LEMMA MatchesStep ==
    ASSUME Shape, Overtaken, Promised, NEW c \in {"bias", "matrix"}, Matches(c), Next
    PROVE  Matches(c)'
<1>0. log \in Logs /\ pending \in Transactions
  BY Numeric
<1>1. ASSUME NEW kind \in Kinds, NEW who \in {"user", "silent"}, Request(kind, who)
      PROVE  Matches(c)'
  <2>1. UNCHANGED <<applied, ram, log, pending, clear>>
    BY <1>1 DEF Request
  <2>2. Accepted \subseteq Accepted'
    BY <1>1, Grows DEF Request, Shape
  <2> QED
    BY <2>1, <2>2, MatchesKept
<1>2. ASSUME NEW kind \in Kinds, Reset(kind)
      PROVE  Matches(c)'
  <2>1. UNCHANGED <<applied, ram, clear>> /\ ~pending.persist /\ pending'.persist = FALSE
    BY <1>2 DEF Reset, Candidate, Admits
  <2>2. Accepted \subseteq Accepted'
    BY <1>2, Grows DEF Reset, Shape
  <2>3. log.withdrawn \subseteq log'.withdrawn /\ log'.fleeting = log.fleeting /\ log'.erased = log.erased
    BY <1>0, <1>2 DEF Reset, Logs
  <2>4. pending'.persist = pending.persist
    BY <1>0, <2>1 DEF Transactions
  <2> QED
    BY <2>1, <2>2, <2>3, <2>4, MatchesKept
<1>3. CASE Worker
  <2>0. UNCHANGED <<client, applied, clear>> /\ Accepted' = Accepted
    BY <1>3, WorkerLeaves DEF Accepted
  <2>1. CASE Rests \/ Drops \/ Fails \/ Trims \/ Closes \/ Frees
    <3>1. SameLog
      BY <2>1 DEF Rests, Drops, Fails, Trims, Closes, Frees, Writes, SameData
    <3>2. /\ pending'.id = pending.id /\ pending'.persist = pending.persist /\ pending'.part = pending.part
          /\ pending'.keep = pending.keep
      BY <2>1 DEF Rests, Drops, Fails, Trims, Closes, Frees, SameCandidate, SameData
    <3>3. ram'[c] = ram[c]
      BY <2>1 DEF Rests, Drops, Fails, Trims, Closes, Frees, Writes, SameData, SameRam
    <3> QED
      BY <2>0, <3>1, <3>2, <3>3, MatchesKept DEF SameLog
  <2>2. CASE Commits
    <3>1. UNCHANGED ram /\ ~pending.persist /\ pending'.persist = FALSE
      BY <2>2 DEF Commits, Candidate, Admits
    <3>2. log'.withdrawn = log.withdrawn /\ log.fleeting \subseteq log'.fleeting /\ log'.erased = log.erased
      BY <1>0, <2>2 DEF Commits, Logs
    <3>3. pending'.persist = pending.persist
      BY <1>0, <3>1 DEF Transactions
    <3> QED
      BY <2>0, <3>1, <3>2, <3>3, MatchesKept
  <2> QED
    BY <1>3, <2>1, <2>2, WorkerCases, MatchesPersist
<1>4. CASE Sensor
  <2>0. UNCHANGED <<client, clear>> /\ Accepted' = Accepted
    BY <1>4, SensorLeaves DEF Accepted
  <2>1. CASE FrameApply
    BY <2>0, <2>1, MatchesApply DEF FrameApply
  <2>2. CASE FrameConsume \/ FrameSave
    <3>1. UNCHANGED <<pending, log, applied>> /\ ram'[c] = ram[c]
      BY <2>2, SameCoefficients DEF FrameConsume, FrameSave, Shape
    <3> QED
      BY <2>0, <3>1, MatchesKept
  <2>3. CASE FrameApplied
    <3>1. pending' = [pending EXCEPT !.held = @ /\ ~Completes(pending, FALSE)] /\ UNCHANGED <<log, applied, ram>>
      BY <2>3 DEF FrameApplied
    <3>2. /\ pending'.id = pending.id /\ pending'.persist = pending.persist
          /\ pending'.keep = pending.keep /\ pending'.part = pending.part
      BY <1>0, <3>1 DEF Transactions
    <3> QED
      BY <2>0, <3>1, <3>2, MatchesKept
  <2> QED
    BY <1>4, <2>1, <2>2, <2>3 DEF Sensor
<1>5. CASE PowerSuspend \/ PowerStep
  <2>0. UNCHANGED <<client, clear>> /\ Accepted' = Accepted
    BY <1>5, PowerLeaves DEF Accepted
  <2>1. CASE PowerApply
    BY <2>0, <2>1, MatchesApply DEF PowerApply
  <2>2. CASE PowerSuspend \/ PowerHasNothing \/ PowerDrop \/ \E off \in BOOLEAN : PowerRetain(off)
    <3>1. UNCHANGED <<pending, log, applied>> /\ ram'[c] = ram[c]
      BY <2>2, SameCoefficients DEF PowerSuspend, PowerHasNothing, PowerDrop, PowerRetain, Shape
    <3> QED
      BY <2>0, <3>1, MatchesKept
  <2> QED
    BY <1>5, <2>1, <2>2, MatchesPersist DEF PowerStep, PowerPersists
<1> QED
  BY <1>1, <1>2, <1>3, <1>4, <1>5, MatchesClear DEF Next, Kinds
-----------------------------------------------------------------------------
(* The theorems *)

Inv == Shape /\ Overtaken /\ Follows /\ Answered /\ Kept /\ Promised /\ AllMatch

LEMMA InvInit == Init => Inv
<1> SUFFICES ASSUME Init
             PROVE  Inv
  OBVIOUS
<1>1. 0 \in Coefficients /\ MaxJobs + 1 \in Nat /\ 0 \in Nat /\ 0 \notin Jobs
  BY BoundsAssumption DEF Coefficients, Jobs
<1>2. Accepted = {}
  BY DEF Init, Accepted
<1>3. Typed
  <2>1. pending \in Transactions
    BY EmptyIs DEF Init
  <2>2. plock \in Locks
    BY EmptyIs DEF Init, NoWriter, Locks
  <2>3. worker \in Workers
    BY <1>1 DEF Init, Idle, Workers
  <2>4. log \in Logs
    BY <1>1 DEF Init, Logs
  <2>5. client \in Clients /\ end \in Ends /\ told \in Results
    BY DEF Init, Clients, Ends, Results
  <2>6. slot \in Slots /\ flag \in Flags /\ receipt \in Receipts /\ sensor \in Sensors
    BY <1>1 DEF Init, NoSlot, Slots, Flags, NoReceipt, Receipts, Sensors
  <2>7. applied \in Lives /\ clear \in Clears
    BY <1>1 DEF Init, Lives, Clears
  <2>8. ram \in Memories /\ flash \in Flashes
    <3>1. \A c \in {"bias", "matrix", "temp", "trim", "fusion"} : (IF c = "fusion" THEN NotKept ELSE 0) \in Nat
      BY <1>1 DEF NotKept
    <3>2. ram = [c \in {"bias", "matrix", "temp", "trim", "fusion"} |-> IF c = "fusion" THEN NotKept ELSE 0]
      BY DEF Init
    <3>3. ram \in Memories
      BY <3>1, <3>2, Zenon DEF Memories
    <3>4. flash = Defaults
      BY DEF Init
    <3>5. Defaults \in [bias : Nat, matrix : Nat, temp : Nat, trim : Nat]
      BY DEF Defaults
    <3>6. Defaults \in Flashes
      BY DEF Defaults, Flashes
    <3> QED
      BY <3>3, <3>4, <3>6
  <2>9. base \in Nat /\ gen \in Nat /\ storage \in {"free", "worker", "power"} /\ wanted \in BOOLEAN /\ power \in Powers
    BY <1>1 DEF Init, Powers
  <2> QED
    BY <2>1, <2>2, <2>3, <2>4, <2>5, <2>6, <2>7, <2>8, <2>9 DEF Typed
<1>3a. \A c \in {"bias", "matrix", "temp", "trim"} : ram[c] = 0
  <2>1. ram = [c \in {"bias", "matrix", "temp", "trim", "fusion"} |-> IF c = "fusion" THEN NotKept ELSE 0]
    BY DEF Init
  <2> QED
    BY <2>1
<1>4. Numbered
  <2>1. Accepted = 1..0 /\ 0 \in 0..MaxJobs
    BY <1>2, BoundsAssumption
  <2> QED
    BY <2>1 DEF Numbered
<1>5. SlotInv
  <2>1. slot.kind = "none" /\ slot.id = 0 /\ slot.gen = 0 /\ gen = 0 /\ worker.pc = "top" /\ worker.id = 0
    BY DEF Init, NoSlot, Idle
  <2>2. 0 <= 0
    OBVIOUS
  <2> QED
    BY <2>1, <2>2 DEF SlotInv, Collecting
<1>6. Holders
  BY DEF Init, Holders, NoWriter, Idle
<1>7. Carried
  BY EmptyIs DEF Init, Carried, NoWriter, Idle, Busy
<1>8. Overtaken
  <2>1. Known
    BY <1>2, EmptyIs DEF Init, Known, NoReceipt
  <2>2. Current
    BY EmptyIs DEF Init, Current, NoSlot, Idle, Busy
  <2>3. Wiped
    <3>1. flash["bias"] = 0 /\ flash["matrix"] = 0 /\ flash["temp"] = 0 /\ flash["trim"] = 0
      BY DEF Init, Defaults
    <3>2. \A c \in {"bias", "matrix", "temp", "trim"} : flash[c] = 0
      BY <3>1
    <3> QED
      BY <1>3a, <3>2 DEF Wiped
  <2> QED
    BY <2>1, <2>2, <2>3 DEF Overtaken
<1>9. Follows
  <2>1. /\ base = 0 /\ applied.frame = 0 /\ ~flag.stale /\ sensor.pc = "idle" /\ power = "run"
        /\ receipt.id = 0 /\ ~pending.persist /\ ~pending.held /\ \A j \in Jobs : log.frame[j] = 0
    BY EmptyIs DEF Init, NoReceipt
  <2>2. 0 <= 0
    OBVIOUS
  <2> QED
    BY <2>1, <2>2 DEF Follows
<1>10. Answered
  <2>1. Open
    BY EmptyIs DEF Init, Open, Busy
  <2>2. Owing
    BY DEF Init, Owing, NoReceipt, NoSlot
  <2>3. AllTrue
    BY DEF Init, AllTrue, Truth
  <2> QED
    BY <2>1, <2>2, <2>3 DEF Answered
<1>11. Kept
  BY EmptyIs DEF Init, Kept
<1>12. Promised
  BY EmptyIs DEF Init, Promised, Busy
<1>13. AllMatch
  <2>1. applied["bias"] = 0 /\ applied["matrix"] = 0
    BY DEF Init
  <2>2. \A c \in {"bias", "matrix"} : applied[c] = 0 /\ ram[c] = 0
    BY <1>3a, <2>1
  <2>3. ~pending.persist /\ clear.pc = "none"
    BY EmptyIs DEF Init
  <2> QED
    BY <2>2, <2>3 DEF AllMatch, Matches
<1> QED
  BY <1>3, <1>4, <1>5, <1>6, <1>7, <1>8, <1>9, <1>10, <1>11, <1>12, <1>13 DEF Inv, Shape

LEMMA InvStays ==
    ASSUME Inv, UNCHANGED vars
    PROVE  Inv'
<1>0. UNCHANGED <<client, slot, gen, flag, pending, receipt, applied, base, ram, flash, plock, storage,
                  worker, sensor, wanted, power, clear, end, told, log>>
  BY DEF vars
<1>1. Shape'
  <2>1. Typed' /\ Numbered'
    BY <1>0 DEF Inv, Shape, Typed, Numbered, Accepted
  <2>2. SlotInv' /\ Holders' /\ Carried'
    BY <1>0 DEF Inv, Shape, SlotInv, Accepted, Holders, Carried
  <2> QED
    BY <2>1, <2>2 DEF Shape
<1>2. Overtaken'
  BY <1>0 DEF Inv, Overtaken, Known, Current, Wiped, Threshold, Committed, Accepted
<1>3. Follows'
  BY <1>0 DEF Inv, Follows
<1>4. Answered'
  BY <1>0 DEF Inv, Answered, Open, Owing, AllTrue, Truth, Committed
<1>5. Kept' /\ Promised'
  BY <1>0 DEF Inv, Kept, Promised
<1>6. AllMatch'
  BY <1>0 DEF Inv, AllMatch, Matches, Unwritten, Accepted
<1> QED
  BY <1>1, <1>2, <1>3, <1>4, <1>5, <1>6 DEF Inv

LEMMA InvStep == Inv /\ [Next]_vars => Inv'
<1> SUFFICES ASSUME Inv, [Next]_vars
             PROVE  Inv'
  OBVIOUS
<1>1. CASE Next
  <2>1. Shape' /\ Overtaken' /\ Follows' /\ Answered' /\ Kept' /\ Promised'
    BY <1>1, ShapeStep, OvertakenStep, FollowsStep, AnsweredStep, KeptStep, PromisedStep DEF Inv
  <2>2. AllMatch'
    BY <1>1, MatchesStep DEF Inv, AllMatch
  <2> QED
    BY <2>1, <2>2 DEF Inv
<1>2. CASE UNCHANGED vars
  BY <1>2, InvStays
<1> QED
  BY <1>1, <1>2

LEMMA Always == Spec => []Inv
<1> QED
  BY InvInit, InvStep, PTL DEF Spec

\* Nothing that a reset or a reset-all has overtaken comes back, in any order in
\* which the worker, the sensor thread, the power-down and the reset-all run.
THEOREM NothingComesBack == Spec => []NothingOutdated
<1>1. Inv => NothingOutdated
  <2> SUFFICES ASSUME Inv
               PROVE  NothingOutdated
    OBVIOUS
  <2>1. Wiped /\ (Busy(pending) => pending.id \notin log.withdrawn)
    BY DEF Inv, Overtaken, Current
  <2>2. DOMAIN flash = {"bias", "matrix", "temp", "trim"}
    BY DEF Inv, Shape, Typed, Flashes
  <2>3. pending \in Transactions
    BY DEF Inv, Shape, Typed
  <2>4. pending.id \in log.withdrawn => pending.effect = "none" /\ ~pending.persist
    BY <2>1 DEF Busy
  <2> QED
    BY <2>1, <2>2, <2>4 DEF NothingOutdated, Wiped
<1> QED
  BY <1>1, Always, PTL

\* What a user is told of a calibration is what became of it: live, written, and
\* taken over by the fusion when it says success.
THEOREM VerdictHolds == Spec => []VerdictIsTrue
<1>1. Inv => VerdictIsTrue
  BY DEF Inv, Answered, AllTrue, Truth, VerdictIsTrue, Accepted
<1> QED
  BY <1>1, Always, PTL

\* A power-down leaves no admitted candidate behind, whoever held the lock or
\* was in the middle of a write when it began.
THEOREM AcceptedIsKept == Spec => []AcceptedSurvives
<1>1. Inv => AcceptedSurvives
  BY DEF Inv, Kept, Busy, AcceptedSurvives
<1> QED
  BY <1>1, Always, PTL

\* A fusion state is retained only with coefficients the next boot will load.
THEOREM FusionFits == Spec => SavedFusionFits
<1> DEFINE Step == ram'.fusion # ram.fusion /\ ram'.fusion # NotKept =>
                      ram'.fusion = applied.frame /\ Backed("bias") /\ Backed("matrix")
<1>1. ASSUME Inv, NEW asked, Retains(asked)
      PROVE  Step
  <2> SUFFICES ASSUME ram'.fusion # NotKept
               PROVE  ram'.fusion = applied.frame /\ Backed("bias") /\ Backed("matrix")
    OBVIOUS
  <2>1. ram \in Memories
    BY <1>1 DEF Inv, Shape, Typed
  <2>2. ram'.fusion = IF asked \/ FusionStale \/ sensor.unread THEN NotKept ELSE base
    BY <1>1, <2>1 DEF Retains, Memories
  <2>3. ~FusionStale /\ ram'.fusion = base
    BY <2>2
  <2>4. ~flag.stale /\ (pending.persist => ~pending.changed)
    BY <2>3 DEF FusionStale
  <2>5. base = applied.frame
    BY <1>1, <2>4 DEF Inv, Follows
  <2>6. ASSUME NEW c \in {"bias", "matrix"}
        PROVE  Backed(c)
    <3>1. Matches(c) /\ (Unwritten(c) => c = "matrix" /\ pending.persist /\ ~pending.changed)
      BY <1>1, <2>4 DEF Inv, AllMatch, Promised, Unwritten
    <3> QED
      BY <3>1 DEF Matches, Backed
  <2> QED
    BY <2>3, <2>5, <2>6
<1>2. ASSUME Inv, [Next]_vars
      PROVE  Step
  <2>0. ram \in Memories /\ worker.id \in Coefficients
    BY <1>2 DEF Inv, Shape, Typed, Workers
  <2>1. CASE FrameSave \/ \E off \in BOOLEAN : PowerRetain(off)
    BY <1>1, <1>2, <2>1 DEF FrameSave, PowerRetain
  <2>2. CASE PowerDrop \/ ClearErase
    <3>1. ram'.fusion = ram.fusion \/ ram'.fusion = NotKept
      BY <2>0, <2>2 DEF PowerDrop, ClearErase, Memories
    <3> QED
      BY <3>1
  <2>3. CASE WorkerPersists \/ PowerPersists
    <3>1. ram' = ram \/ ram'["fusion"] = ram["fusion"]
      BY <1>2, <2>3, PersistWrites DEF WorkerPersists, PowerPersists, PersistBegin, PersistEnd, Inv, Shape
    <3> QED
      BY <3>1
  <2>4. CASE RetrimStore \/ Tail
    <3>1. ram'.fusion = ram.fusion
      BY <2>0, <2>4 DEF RetrimStore, Tail, Memories
    <3> QED
      BY <3>1
  <2>5. CASE UNCHANGED ram
    BY <2>5
  <2>6. \/ FrameSave \/ (\E off \in BOOLEAN : PowerRetain(off)) \/ PowerDrop \/ ClearErase
        \/ WorkerPersists \/ PowerPersists \/ RetrimStore \/ Tail \/ UNCHANGED ram
    <3>1. CASE \/ \E kind \in {"imu", "poses"}, who \in {"user", "silent"} : Request(kind, who)
               \/ \E kind \in {"imu", "poses"} : Reset(kind)
      BY <3>1 DEF Request, Reset
    <3>2. CASE Clear
      BY <3>2 DEF Clear, ClearLock, ClearInvalidate, ClearWipe, ClearGate, ClearEnd
    <3>3. CASE Worker
      BY <3>3 DEF Worker, WorkerHasNothing, Look, CollectFails, RetrimBegin, RetrimResume, OpenTransaction,
                  CommitBias, CommitAccel, Release
    <3>4. CASE Sensor
      BY <3>4 DEF Sensor, FrameApply, FrameConsume, FrameApplied
    <3>5. CASE PowerSuspend \/ PowerStep
      BY <3>5 DEF PowerSuspend, PowerStep, PowerApply, PowerHasNothing
    <3>6. CASE UNCHANGED vars
      BY <3>6 DEF vars
    <3> QED
      BY <1>2, <3>1, <3>2, <3>3, <3>4, <3>5, <3>6 DEF Next
  <2> HIDE DEF Step
  <2> QED
    BY <2>1, <2>2, <2>3, <2>4, <2>5, <2>6
<1>3. [Step]_vars <=> [ram'.fusion # ram.fusion /\ ram'.fusion # NotKept =>
         ram'.fusion = applied.frame /\ Backed("bias") /\ Backed("matrix")]_vars
  OBVIOUS
<1> QED
  BY <1>2, Always, PTL DEF Spec, SavedFusionFits
=============================================================================
