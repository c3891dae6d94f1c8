------------------------ MODULE TrackerEventsProofs ------------------------
(***************************************************************************)
(* Safety of the telemetry event queue for every size of the queue and of  *)
(* the table of operations, every number of copies and every interval.     *)
(*                                                                         *)
(* Sound is the invariant: what tokens, records, operations, rest states,  *)
(* boot observations and ENDs have to do with each other.  One lemma per   *)
(* function of tracker_events.c says that it keeps Sound; what a record    *)
(* taken, an operation or a state replaced, or records leaving can disturb *)
(* is proved once (TakenSound, FitsSound, SlotSound, LessenedSound).  The  *)
(* scan for a victim and the pass over the operations are recursive        *)
(* functions, and what they preserve for every length is by induction      *)
(* (lemma Induction, from the well-foundedness of < on the numbers).       *)
(*                                                                         *)
(* TimeInv adds what the sleep of the connection thread rests on: while    *)
(* nobody is about to wake it, its wait ends no later than anything gets   *)
(* due.  A producer keeps that if it is Calm, which is shown once for what *)
(* is recorded (LoudCalm), for an operation (OpCalm) and for a rest state  *)
(* (SlotCalm).                                                             *)
(***************************************************************************)
EXTENDS TrackerEvents, FiniteSetTheorems, WellFoundedInduction, TLAPS

-----------------------------------------------------------------------------
(* What a store is *)

Queue == 1..QueueSize
Opers == 1..OpSize
Ends == {0, 1}
Kinds == PowerEvents \cup {"none", "BUTTON", "ACCEPTED", "BEGIN", "STEP", "END", "REJECTED", "STORAGE",
                           "TRACKER_REST", "FUSION_REST"}
Values == Int \X Int
Recs == [tok : Nat, ev : Kinds, op : Nat, val : Values, copies : Nat, limit : Nat, age : Nat, nonce : Nat]
Ops == [id : Nat, auto : BOOLEAN, active : BOOLEAN, visible : BOOLEAN, latest : Recs, phase : Values,
        candidate : BOOLEAN, why : Nat, born : Nat, changed : Nat, beat : Nat, progress : Nat, retry : Nat]
Slots == [published : Recs, val : Values, candidate : BOOLEAN, observed : BOOLEAN, seen : Nat,
          publishAge : Nat, sentAge : Nat]
Startups == [scheduled : BOOLEAN, retired : BOOLEAN, in : Nat, pending : [Ends -> BOOLEAN],
             tok : [Ends -> Nat]]
Stores == [queue : [Queue -> Recs], ops : [Opers -> Ops], states : [Ends -> Slots], startup : Startups,
           nonce : Nat, entropyFailed : BOOLEAN, epoch : Nat, serial : Nat, nextOp : Nat, gate : Nat,
           notify : BOOLEAN, selected : Recs, queueTurn : Int, opTurn : Int, stateTurn : Int]

Airs == [boots : [Ends -> SUBSET Nat], cancel : Nat, intent : Nat, ended : SUBSET (Nat \X Nat)]

-----------------------------------------------------------------------------
(* The invariant, in its parts.  a is the air: what the radio took. *)

BootOf(i) == IF i = 0 THEN "BOOT" ELSE "WATCHDOG"

\* Tokens are serial numbers.
Tokens(s) ==
    /\ \A i \in Queue : s.queue[i].tok <= s.serial
    /\ \A i, j \in Queue : Valid(s.queue[i]) /\ s.queue[i].tok = s.queue[j].tok => i = j
    /\ s.selected.tok <= s.serial
\* What is queued is not spent and no rest state; a slot without a record is
\* empty.
Rests == {"TRACKER_REST", "FUSION_REST"}
Full(r) == IF Valid(r) THEN r.copies < r.limit /\ r.ev \notin Rests ELSE r = NoRec
Unspent(s) == \A i \in Queue : Full(s.queue[i])
OpShape(s, i) ==
    LET o == s.ops[i]
    IN  /\ o.id <= s.nextOp
        /\ o.active => o.id # 0
        /\ o.candidate => o.active
        /\ Valid(o.latest) => /\ o.active /\ ~Hidden(o)
                              /\ o.latest.op = o.id /\ o.latest.ev \in {"ACCEPTED", "BEGIN", "STEP"}
OpsShape(s) ==
    /\ \A i \in Opers : OpShape(s, i)
    /\ \A i, j \in Opers : s.ops[i].id # 0 /\ s.ops[i].id = s.ops[j].id => i = j
StatesShape(s) ==
    \A i \in Ends : LET r == s.states[i].published
                    IN  Valid(r) => r.limit = NoticeCopies /\ r.op = 0 /\ r.ev = RestOf(i)

\* The startup observations.
Boots(s) ==
    /\ \A i \in Ends : s.startup.pending[i] \/ s.startup.tok[i] # 0 => s.startup.scheduled
    /\ \A i \in Ends : s.startup.pending[i] /\ s.startup.tok[i] # 0 =>
          \E j \in Queue : s.queue[j].tok = s.startup.tok[i] /\ s.queue[j].ev = BootOf(i)
\* what is known of a record that announces a boot
Announces(s, a, r) ==
    \A i \in Ends : r.ev = BootOf(i) =>
        /\ r.tok # 0 /\ r.tok = s.startup.tok[i] /\ r.nonce # 0 /\ s.startup.scheduled
        /\ s.nonce # 0 => r.nonce = s.nonce /\ a.boots[i] \subseteq {s.nonce}
        /\ a.intent # 0 => r.tok < a.intent
Heard(s, a) ==
    /\ \A i \in Ends : s.startup.pending[i] \/ ~s.startup.scheduled => a.boots[i] = {}
    /\ \A i \in Ends : \A m, n \in a.boots[i] : m = n
    /\ a.intent # 0 => s.startup.retired /\ \A i \in Ends : ~s.startup.pending[i]
    /\ \A j \in Queue : Announces(s, a, s.queue[j])
    /\ Announces(s, a, s.selected)

\* The ends of operations.
Closes(s, e) ==
    /\ e[1] \in 1..s.nextOp
    /\ \A i \in Opers : s.ops[i].id = e[1] => ~s.ops[i].active
    /\ \A j \in Queue : s.queue[j].op = e[1] /\ s.queue[j].ev # "STORAGE" => s.queue[j].tok <= e[2]
    /\ s.selected.op = e[1] /\ s.selected.ev # "STORAGE" => s.selected.tok <= e[2]
Closers(s, a) ==
    a.ended \cup {<<r.op, r.tok>> : r \in {q \in {s.queue[j] : j \in Queue} \cup {s.selected} : q.ev = "END"}}
Closed(s, a) ==
    /\ \A j \in Queue : s.queue[j].op <= s.nextOp
    /\ s.selected.op <= s.nextOp
    /\ \A e \in Closers(s, a) : Closes(s, e)
\* What is kept for a repetition has an old token, too.
Kept(s) ==
    /\ \A i \in Opers : s.ops[i].latest.tok <= s.serial
    /\ \A i \in Ends : s.states[i].published.tok <= s.serial

Core(s, a) ==
    /\ Tokens(s) /\ Unspent(s) /\ OpsShape(s) /\ StatesShape(s)
    /\ Boots(s) /\ Heard(s, a) /\ Closed(s, a)
Sound(s, a) == Core(s, a) /\ Kept(s)

LEMMA Sizes == 1 \in Queue /\ 2 \in Queue /\ 3 \in Queue /\ QueueSize \in Nat /\ OpSize \in Nat
               /\ NoticeCopies \in Nat \ {0}
BY SizesAssumption DEF Queue

LEMMA NoRecIs == NoRec \in Recs /\ ~Valid(NoRec) /\ NoValue \in Values
BY DEF NoRec, Recs, Kinds, PowerEvents, Values, NoValue, Valid

LEMMA MaterializeIs ==
  ASSUME NEW s \in Stores, NEW op \in Nat, NEW ev \in Kinds, NEW val \in Values, NEW limit \in Nat
  PROVE LET r == Materialize(s, op, ev, val, limit)
        IN  /\ r \in Recs /\ r.tok = s.serial + 1 /\ r.op = op /\ r.ev = ev /\ r.val = val
            /\ r.limit = limit /\ r.copies = 0 /\ r.age = 0 /\ r.nonce = s.nonce
BY DEF Materialize, Recs, Stores

\* Stores that differ from a store in a few fields.
LEMMA WithOps ==
  ASSUME NEW s \in Stores, NEW f \in [Opers -> Ops]
  PROVE [s EXCEPT !.ops = f] \in Stores
BY DEF Stores

LEMMA WithStates ==
  ASSUME NEW s \in Stores, NEW f \in [Ends -> Slots]
  PROVE [s EXCEPT !.states = f] \in Stores
BY DEF Stores

-----------------------------------------------------------------------------
(* Induction *)

Before == {p \in Nat \X Nat : p[1] < p[2]}

LEMMA BeforeIsFounded == IsWellFoundedOn(Before, Nat)
<1>1. OpToRel(<, Nat) = Before
  BY DEF OpToRel, Before
<1> QED
  BY <1>1, NatLessThanWellFounded

LEMMA Least ==
  ASSUME NEW S, S \subseteq Nat, S # {}
  PROVE \E n \in S : \A m \in S : n <= m
<1>1. PICK n \in S : \A m \in S : ~(<<m, n>> \in Before)
  BY BeforeIsFounded, WFMin
<1>2. ASSUME NEW m \in S PROVE n <= m
  <2>1. m \in Nat /\ n \in Nat
    OBVIOUS
  <2>2. ~(m < n)
    BY <1>1, <2>1 DEF Before
  <2> QED
    BY <2>1, <2>2
<1> QED
  BY <1>2

\* Induction over an interval, for a set in the place of a predicate.
LEMMA Induction ==
  ASSUME NEW T, NEW F \in Nat, NEW K \in Nat, F \in T, \A n \in F..(K-1) : n \in T => n + 1 \in T
  PROVE F..K \subseteq T
<1>1. SUFFICES ASSUME (F..K) \ T # {} PROVE FALSE
  OBVIOUS
<1>2. PICK n \in (F..K) \ T : \A m \in (F..K) \ T : n <= m
  <2> (F..K) \ T \subseteq Nat
    OBVIOUS
  <2> QED
    BY <1>1, Least
<1>3. n # F /\ n \in (F+1)..K
  BY <1>2
<1>4. n - 1 \in F..(K-1) /\ n - 1 \in F..K /\ ~(n <= n-1)
  BY <1>3
<1>5. n - 1 \in T
  BY <1>2, <1>4
<1>6. (n-1)+1 \in T
  BY <1>4, <1>5
<1>7. (n-1)+1 = n
  BY <1>3
<1> QED
  BY <1>2, <1>6, <1>7

-----------------------------------------------------------------------------
(* Taking a record into the queue *)

\* The scan for a victim, as far as it has come.
Better(s, x, i) == IF ~StartupPending(s, s.queue[i]) /\ BetterVictim(s, x, i) THEN i ELSE x
Scan(s, g, k) == g = [i \in 1..k |-> IF i = 1 THEN 1 ELSE Better(s, g[i - 1], i)]

LEMMA ScanExists ==
  ASSUME NEW s
  PROVE \E g : Scan(s, g, QueueSize)
<1> DEFINE T == {k \in Queue : \E g : Scan(s, g, k)}
<1>0. QueueSize \in Nat /\ QueueSize > 2
  BY SizesAssumption
<1>1. 1 \in T
  <2> DEFINE g == [i \in 1..1 |-> 1]
  <2>1. g = [i \in 1..1 |-> IF i = 1 THEN 1 ELSE Better(s, g[i - 1], i)]
    OBVIOUS
  <2>2. Scan(s, g, 1) /\ 1 \in Queue
    BY <2>1, <1>0 DEF Scan, Queue
  <2> HIDE DEF g
  <2> QED
    BY <2>2
<1>2. ASSUME NEW k \in 1..(QueueSize - 1), k \in T PROVE k + 1 \in T
  <2>1. PICK g : Scan(s, g, k)
    BY <1>2
  <2> DEFINE h == [i \in 1..(k+1) |-> IF i = k+1 THEN Better(s, g[k], k+1) ELSE g[i]]
             f == [i \in 1..(k+1) |-> IF i = 1 THEN 1 ELSE Better(s, h[i - 1], i)]
  <2>2. ASSUME NEW i \in 1..(k+1) PROVE h[i] = f[i]
    <3>1. CASE i = 1
      BY <3>1, <2>1, <1>2 DEF Scan
    <3>2. CASE i = k+1
      <4>1. k # k+1 /\ k \in 1..(k+1) /\ k + 1 # 1
        BY <1>2
      <4> QED
        BY <3>2, <4>1
    <3>3. CASE i \in 2..k
      <4>1. g[i] = Better(s, g[i - 1], i)
        BY <2>1, <3>3 DEF Scan
      <4>2. h[i-1] = g[i-1] /\ h[i] = g[i] /\ i # 1
        BY <3>3
      <4> QED
        BY <4>1, <4>2
    <3> QED
      BY <3>1, <3>2, <3>3
  <2>3. h = f
    BY <2>2
  <2>4. Scan(s, h, k + 1)
    BY <2>3 DEF Scan
  <2> QED
    BY <2>4, <1>2, <1>0 DEF Queue
<1>3. 1..QueueSize \subseteq T
  <2> HIDE DEF T
  <2> QED
    BY <1>0, <1>1, <1>2, Induction
<1> QED
  BY <1>3, <1>0

LEMMA VictimScans ==
  ASSUME NEW s
  PROVE \E g : Scan(s, g, QueueSize) /\ Victim(s) = g[QueueSize]
<1> DEFINE g == CHOOSE g : g = [i \in 1..QueueSize |-> IF i = 1 THEN 1 ELSE Better(s, g[i - 1], i)]
<1>1. g = [i \in 1..QueueSize |-> IF i = 1 THEN 1 ELSE Better(s, g[i - 1], i)]
  BY ScanExists DEF Scan
<1>2. Victim(s) = g[QueueSize]
  BY DEF Victim, Better
<1> HIDE DEF g
<1> QED
  BY <1>1, <1>2 DEF Scan

LEMMA VictimIs ==
  ASSUME NEW s
  PROVE /\ Victim(s) \in Queue
        /\ (\E j \in Queue : ~StartupPending(s, s.queue[j])) => ~StartupPending(s, s.queue[Victim(s)])
<1>0. QueueSize \in Nat /\ QueueSize > 2
  BY SizesAssumption
<1>1. PICK g : Scan(s, g, QueueSize) /\ Victim(s) = g[QueueSize]
  BY VictimScans
<1> DEFINE Free(i) == ~StartupPending(s, s.queue[i])
           T == {k \in Queue : g[k] \in 1..k /\ ((\E j \in 1..k : Free(j)) => Free(g[k]))}
<1>2. 1 \in T
  <2>1. g[1] = 1
    BY <1>1, <1>0 DEF Scan
  <2>2. 1 \in Queue /\ \A j \in 1..1 : j = 1
    BY <1>0 DEF Queue
  <2> QED
    BY <2>1, <2>2
<1>3. ASSUME NEW k \in 1..(QueueSize - 1), k \in T PROVE k + 1 \in T
  <2>1. k + 1 \in Queue /\ (k + 1) - 1 = k /\ k + 1 # 1
    BY <1>0 DEF Queue
  <2>2. g[k+1] = Better(s, g[k], k+1)
    BY <1>1, <2>1 DEF Scan, Queue
  <2>3. g[k] \in 1..k /\ ((\E j \in 1..k : Free(j)) => Free(g[k]))
    BY <1>3
  <2>4. g[k+1] \in 1..(k+1)
    BY <2>2, <2>3 DEF Better
  <2>5. ASSUME \E j \in 1..(k+1) : Free(j) PROVE Free(g[k+1])
    <3>1. CASE Free(g[k])
      BY <3>1, <2>2 DEF Better
    <3>2. CASE ~Free(g[k])
      <4>1. Free(k+1)
        BY <3>2, <2>3, <2>5
      <4>2. BetterVictim(s, g[k], k+1)
        BY <3>2 DEF BetterVictim
      <4> QED
        BY <4>1, <4>2, <2>2 DEF Better
    <3> QED
      BY <3>1, <3>2
  <2> QED
    BY <2>1, <2>4, <2>5
<1>4. 1..QueueSize \subseteq T
  <2> HIDE DEF T
  <2> QED
    BY <1>0, <1>2, <1>3, Induction
<1>5. QueueSize \in T
  BY <1>4, <1>0
<1> QED
  BY <1>1, <1>5 DEF Queue

\* A valid record of two startup observations has one of two tokens.
LEMMA NotAllPending ==
  ASSUME NEW s \in Stores, Tokens(s)
  PROVE \E j \in Queue : ~StartupPending(s, s.queue[j])
<1>1. SUFFICES ASSUME \A j \in Queue : StartupPending(s, s.queue[j]) PROVE FALSE
  OBVIOUS
<1>2. \A j \in {1, 2, 3} : /\ Valid(s.queue[j])
                           /\ s.queue[j].tok = s.startup.tok[0] \/ s.queue[j].tok = s.startup.tok[1]
  BY <1>1, Sizes DEF StartupPending
<1>3. \A i, j \in {1, 2, 3} : s.queue[i].tok = s.queue[j].tok => i = j
  BY <1>2, Sizes DEF Tokens
<1> QED
  BY <1>2, <1>3

\* t is s with the record r taken in, or refused where telemetry would
\* displace a power notice.
Took(s, t, r) ==
    /\ t \in Stores
    /\ t = [s EXCEPT !.serial = r.tok, !.queue = t.queue, !.notify = t.notify]
    /\ \/ /\ t.queue = s.queue /\ t.notify = s.notify /\ ~Power(r)
          /\ \A i \in Queue : Valid(s.queue[i])
       \/ /\ t.notify
          /\ \E i \in Queue : /\ t.queue = [s.queue EXCEPT ![i] = r]
                              /\ ~StartupPending(s, s.queue[i])
                              /\ Valid(s.queue[i]) /\ Power(s.queue[i]) => Power(r)
                              /\ Valid(s.queue[i]) => \A j \in Queue : Valid(s.queue[j])

LEMMA RecordTakes ==
  ASSUME NEW s \in Stores, NEW r \in Recs, Tokens(s)
  PROVE Took(s, Record(s, r), r)
<1> DEFINE u == [s EXCEPT !.serial = r.tok]
           free == FreeSlots(u)
           slot == IF free # {} THEN CHOOSE i \in free : \A j \in free : i <= j ELSE Victim(u)
<1>1. /\ u \in Stores /\ u.queue = s.queue /\ u.notify = s.notify /\ u.startup = s.startup
      /\ \A q : StartupPending(u, q) <=> StartupPending(s, q)
  BY DEF Stores, Recs, StartupPending
<1>2. free = {i \in Queue : ~Valid(s.queue[i])}
  BY <1>1 DEF FreeSlots, Queue
<1>3. slot \in Queue /\ ~StartupPending(s, s.queue[slot]) /\ (free # {} => ~Valid(s.queue[slot]))
  <2>1. CASE free # {}
    <3>1. PICK i \in free : \A j \in free : i <= j
      <4>1. free \subseteq Nat
        BY <1>2 DEF Queue
      <4> QED
        BY <4>1, <2>1, Least
    <3>2. slot \in free
      BY <2>1, <3>1
    <3> QED
      BY <3>2, <1>2, <2>1 DEF StartupPending
  <2>2. CASE free = {}
    <3>1. PICK j \in Queue : ~StartupPending(u, u.queue[j])
      BY NotAllPending, <1>1
    <3>2. Victim(u) \in Queue /\ ~StartupPending(u, u.queue[Victim(u)])
      BY <3>1, VictimIs
    <3> QED
      BY <2>2, <3>2, <1>1
  <2> QED
    BY <2>1, <2>2
<1> DEFINE t == Record(s, r)
<1>4. t = IF free = {} /\ ~MayDisplace(u.queue[slot], r) THEN u ELSE [u EXCEPT !.queue[slot] = r, !.notify = TRUE]
  BY DEF Record, Enqueue
<1> HIDE DEF free, slot, t
<1>5. CASE free = {} /\ ~MayDisplace(u.queue[slot], r)
  <2>1. t = u /\ ~Power(r) /\ \A i \in Queue : Valid(s.queue[i])
    BY <1>4, <1>5, <1>2 DEF MayDisplace
  <2> QED
    BY <2>1, <1>1 DEF Took, t, Stores
<1>6. CASE ~(free = {} /\ ~MayDisplace(u.queue[slot], r))
  <2> DEFINE q == [s.queue EXCEPT ![slot] = r]
  <2>0. s.queue \in [Queue -> Recs] /\ q \in [Queue -> Recs]
    BY <1>3 DEF Stores
  <2>1. t = [s EXCEPT !.serial = r.tok, !.queue = q, !.notify = TRUE]
    BY <1>4, <1>6, <1>1 DEF Stores
  <2> HIDE DEF q, u
  <2>2. t \in Stores
    BY <2>0, <2>1 DEF Stores, Recs
  <2>3. t.queue = q /\ t.notify
    BY <2>1 DEF Stores
  <2>4. Valid(s.queue[slot]) /\ Power(s.queue[slot]) => Power(r)
    BY <1>3, <1>6, <1>1 DEF MayDisplace
  <2>5. Valid(s.queue[slot]) => \A j \in Queue : Valid(s.queue[j])
    BY <1>3, <1>2
  <2>6. t = [s EXCEPT !.serial = r.tok, !.queue = t.queue, !.notify = t.notify]
    BY <2>1, <2>3
  <2> QED
    BY <2>2, <2>3, <2>4, <2>5, <2>6, <1>3 DEF Took, t, q
<1> QED
  BY <1>5, <1>6 DEF t

-----------------------------------------------------------------------------
(* What taking a record leaves true *)

\* The records that are compared with the end of an operation.
LEMMA ClosersIs ==
  ASSUME NEW s, NEW a, NEW e
  PROVE e \in Closers(s, a) <=>
          \/ e \in a.ended
          \/ \E j \in Queue : s.queue[j].ev = "END" /\ e = <<s.queue[j].op, s.queue[j].tok>>
          \/ s.selected.ev = "END" /\ e = <<s.selected.op, s.selected.tok>>
BY DEF Closers

\* A record that may be taken: it is the youngest and is not of an operation
\* that has ended.
Youngest(s, a, r) ==
    /\ r \in Recs /\ r.tok = s.serial + 1 /\ r.copies < r.limit /\ r.ev \notin Rests /\ r.op <= s.nextOp
    /\ r.ev # "STORAGE" => \A e \in Closers(s, a) : e[1] # r.op
    /\ r.ev = "END" => r.op # 0 /\ \A i \in Opers : s.ops[i].id = r.op => ~s.ops[i].active
\* It is no boot observation.
Telemetry(s, a, r) == Youngest(s, a, r) /\ r.ev \notin {"BOOT", "WATCHDOG"}

LEMMA TookIs ==
  ASSUME NEW s \in Stores, NEW t, NEW r \in Recs, Took(s, t, r)
  PROVE /\ t \in Stores /\ t.serial = r.tok
        /\ t.selected = s.selected /\ t.ops = s.ops /\ t.states = s.states /\ t.startup = s.startup
        /\ t.nonce = s.nonce /\ t.nextOp = s.nextOp /\ t.epoch = s.epoch /\ t.gate = s.gate
        /\ \A j \in Queue : t.queue[j] \in {r, s.queue[j]}
        /\ \A j, k \in Queue : t.queue[j] # s.queue[j] /\ t.queue[k] # s.queue[k] => j = k
        /\ \A j \in Queue : StartupPending(s, s.queue[j]) => t.queue[j] = s.queue[j]
        /\ t.queue \in [Queue -> Recs] /\ s.queue \in [Queue -> Recs]
<1>1. /\ t \in Stores /\ t = [s EXCEPT !.serial = r.tok, !.queue = t.queue, !.notify = t.notify]
      /\ \/ t.queue = s.queue
         \/ \E i \in Queue : t.queue = [s.queue EXCEPT ![i] = r] /\ ~StartupPending(s, s.queue[i])
  BY DEF Took
<1>2. t.queue \in [Queue -> Recs] /\ s.queue \in [Queue -> Recs]
  BY <1>1 DEF Stores
<1>3. /\ t.serial = r.tok
      /\ t.selected = s.selected /\ t.ops = s.ops /\ t.states = s.states /\ t.startup = s.startup
      /\ t.nonce = s.nonce /\ t.nextOp = s.nextOp /\ t.epoch = s.epoch /\ t.gate = s.gate
  BY <1>1 DEF Stores
<1>4. /\ \A j \in Queue : t.queue[j] \in {r, s.queue[j]}
      /\ \A j, k \in Queue : t.queue[j] # s.queue[j] /\ t.queue[k] # s.queue[k] => j = k
      /\ \A j \in Queue : StartupPending(s, s.queue[j]) => t.queue[j] = s.queue[j]
  BY <1>1, <1>2
<1> QED
  BY <1>1, <1>2, <1>3, <1>4

\* From s to t no queued power notice gives way but to another, and no warning
\* of wake-on-motion is added.
Keeping(s, t) ==
    /\ s.serial <= t.serial /\ t.selected = s.selected
    /\ \A j \in Queue : Power(s.queue[j]) => Power(t.queue[j])
    /\ \A j \in Queue : t.queue[j].ev = "WILL_WOM" =>
          s.queue[j].ev = "WILL_WOM" /\ t.queue[j].tok = s.queue[j].tok

LEMMA SameKeeping ==
  ASSUME NEW s \in Stores, NEW t, t.queue = s.queue, t.serial = s.serial, t.selected = s.selected
  PROVE Keeping(s, t)
BY DEF Stores, Keeping

LEMMA KeepingTwice ==
  ASSUME NEW s \in Stores, NEW u \in Stores, NEW t \in Stores, Keeping(s, u), Keeping(u, t)
  PROVE Keeping(s, t)
<1>1. s.serial <= t.serial
  BY DEF Keeping, Stores
<1> QED
  BY <1>1 DEF Keeping

LEMMA TookKeeping ==
  ASSUME NEW s \in Stores, NEW t, NEW r \in Recs, Took(s, t, r), Unspent(s), r.tok = s.serial + 1,
         r.ev # "WILL_WOM"
  PROVE Keeping(s, t)
<1>1. s.serial \in Nat /\ s.queue \in [Queue -> Recs]
  BY DEF Stores
<1>2. s.serial <= t.serial /\ t.selected = s.selected
  BY <1>1, TookIs
<1>3. \A j \in Queue : t.queue[j].ev = "WILL_WOM" => t.queue[j] = s.queue[j]
  BY TookIs
<1>4. ASSUME NEW j \in Queue, Power(s.queue[j]) PROVE Power(t.queue[j])
  <2>1. Valid(s.queue[j])
    BY <1>4 DEF Unspent, Full, Power, PowerEvents, NoRec
  <2>2. CASE t.queue = s.queue
    BY <1>4, <2>2
  <2>3. CASE t.queue # s.queue
    <3>1. PICK i \in Queue : /\ t.queue = [s.queue EXCEPT ![i] = r]
                             /\ Valid(s.queue[i]) /\ Power(s.queue[i]) => Power(r)
      BY <2>3 DEF Took
    <3> QED
      BY <1>1, <1>4, <2>1, <3>1
  <2> QED
    BY <2>2, <2>3
<1> QED
  BY <1>2, <1>3, <1>4 DEF Keeping

LEMMA TokensTaken ==
  ASSUME NEW s \in Stores, NEW t, NEW r \in Recs, Took(s, t, r), r.tok = s.serial + 1, Tokens(s)
  PROVE Tokens(t)
<1>1. s.serial \in Nat /\ \A j \in Queue : s.queue[j].tok \in Nat
  BY DEF Stores, Recs
<1>2. \A j \in Queue : t.queue[j].tok <= t.serial
  BY <1>1, TookIs DEF Tokens
<1>3. ASSUME NEW i \in Queue, NEW j \in Queue, Valid(t.queue[i]), t.queue[i].tok = t.queue[j].tok
      PROVE i = j
  <2>1. CASE t.queue[i] = s.queue[i] /\ t.queue[j] = s.queue[j]
    BY <2>1, <1>3 DEF Tokens
  <2>2. CASE t.queue[i] # s.queue[i] /\ t.queue[j] # s.queue[j]
    BY <2>2, TookIs
  <2>3. CASE t.queue[i] # s.queue[i] /\ t.queue[j] = s.queue[j]
    BY <2>3, <1>3, <1>1, TookIs DEF Tokens
  <2>4. CASE t.queue[i] = s.queue[i] /\ t.queue[j] # s.queue[j]
    BY <2>4, <1>3, <1>1, TookIs DEF Tokens
  <2> QED
    BY <2>1, <2>2, <2>3, <2>4
<1>4. t.selected.tok <= t.serial
  BY <1>1, TookIs DEF Tokens, Stores, Recs
<1> QED
  BY <1>2, <1>3, <1>4 DEF Tokens

LEMMA BootStays ==
  ASSUME NEW s \in Stores, NEW t, NEW r \in Recs, Took(s, t, r), NEW i \in Ends,
         s.startup.pending[i], s.startup.tok[i] # 0,
         NEW j \in Queue, s.queue[j].tok = s.startup.tok[i], s.queue[j].ev = BootOf(i)
  PROVE t.queue[j].tok = s.startup.tok[i] /\ t.queue[j].ev = BootOf(i)
<1>1. StartupPending(s, s.queue[j])
  BY DEF StartupPending, Valid, Ends
<1> QED
  BY <1>1, TookIs

LEMMA ClosedTaken ==
  ASSUME NEW s \in Stores, NEW t, NEW r \in Recs, NEW a, Took(s, t, r), Tokens(s), Closed(s, a),
         Youngest(s, a, r)
  PROVE Closed(t, a)
<1>0. /\ s.serial \in Nat /\ s.nextOp \in Nat /\ s.queue \in [Queue -> Recs] /\ s.selected \in Recs
      /\ \A q \in Recs : q.tok \in Nat /\ q.op \in Nat
  BY DEF Stores, Recs
<1>1. \A j \in Queue : t.queue[j].op <= t.nextOp
  BY TookIs DEF Closed, Telemetry, Youngest
<1>2. t.selected.op <= t.nextOp
  BY TookIs DEF Closed
<1>3. ASSUME NEW e \in Closers(t, a) PROVE Closes(t, e)
  <2>1. CASE e \in Closers(s, a)
    <3>1. Closes(s, e)
      BY <2>1 DEF Closed
    <3>2. r.op = e[1] => r.ev = "STORAGE"
      BY <2>1 DEF Telemetry, Youngest
    <3>3. ASSUME NEW j \in Queue, t.queue[j].op = e[1], t.queue[j].ev # "STORAGE" PROVE t.queue[j].tok <= e[2]
      BY <3>1, <3>2, <3>3, TookIs DEF Closes
    <3> QED
      BY <3>1, <3>3, TookIs DEF Closes
  <2>2. CASE e \notin Closers(s, a)
    <3>1. r.ev = "END" /\ e = <<r.op, r.tok>>
      BY <2>2, ClosersIs, TookIs
    <3>2. e[1] = r.op /\ e[2] = r.tok
      BY <3>1
    <3>3. e[1] \in 1..t.nextOp
      BY <3>1, <3>2, <1>0, TookIs DEF Telemetry, Youngest
    <3>4. \A i \in Opers : t.ops[i].id = e[1] => ~t.ops[i].active
      BY <3>1, <3>2, TookIs DEF Telemetry, Youngest
    <3>5. \A j \in Queue : t.queue[j].tok <= r.tok
      BY <1>0, TookIs DEF Tokens, Telemetry, Youngest
    <3>6. t.selected.tok <= r.tok
      BY <1>0, TookIs DEF Tokens, Telemetry, Youngest
    <3> QED
      BY <3>2, <3>3, <3>4, <3>5, <3>6 DEF Closes
  <2> QED
    BY <2>1, <2>2
<1> QED
  BY <1>1, <1>2, <1>3 DEF Closed

LEMMA TakenCore ==
  ASSUME NEW s \in Stores, NEW t, NEW r \in Recs, NEW a, Took(s, t, r), Core(s, a), Telemetry(s, a, r)
  PROVE Core(t, a)
<1>1. Tokens(t)
  BY TokensTaken DEF Core, Telemetry, Youngest
<1>2. Unspent(t)
  <2>1. s.serial \in Nat /\ Full(r)
    BY DEF Telemetry, Youngest, Full, Valid, Stores
  <2> QED
    BY <2>1, TookIs DEF Core, Unspent
<1>3. OpsShape(t) /\ StatesShape(t)
  BY TookIs DEF Core, OpsShape, OpShape, StatesShape
<1>4. Boots(t)
  <2>1. ASSUME NEW i \in Ends, s.startup.pending[i], s.startup.tok[i] # 0
        PROVE \E j \in Queue : t.queue[j].tok = s.startup.tok[i] /\ t.queue[j].ev = BootOf(i)
    BY <2>1, BootStays DEF Core, Boots
  <2> QED
    BY <2>1, TookIs DEF Core, Boots
<1>5. Heard(t, a)
  <2>1. Announces(t, a, r)
    BY DEF Telemetry, Youngest, Announces, BootOf
  <2>2. ASSUME NEW q, Announces(s, a, q) PROVE Announces(t, a, q)
    BY <2>2, TookIs DEF Announces
  <2> QED
    BY <2>1, <2>2, TookIs DEF Core, Heard
<1>6. Closed(t, a)
  BY ClosedTaken DEF Core, Telemetry
<1> QED
  BY <1>1, <1>2, <1>3, <1>4, <1>5, <1>6 DEF Core

-----------------------------------------------------------------------------
(* What a change of the operations leaves true *)

\* Nothing but operations and flags has changed, and no operation that was
\* over is active.
Moved(s, t) ==
    /\ t \in Stores
    /\ t.queue = s.queue /\ t.selected = s.selected /\ t.states = s.states /\ t.startup = s.startup
    /\ t.nonce = s.nonce /\ t.serial = s.serial /\ t.nextOp >= s.nextOp
    /\ \A i \in Opers : t.ops[i].active =>
          \/ t.ops[i].id > s.nextOp
          \/ \E j \in Opers : s.ops[j].id = t.ops[i].id /\ s.ops[j].active

LEMMA MovedCore ==
  ASSUME NEW s \in Stores, NEW t, NEW a, Moved(s, t), OpsShape(t), Core(s, a)
  PROVE Core(t, a)
<1>0. /\ s.nextOp \in Nat /\ t.nextOp \in Nat /\ \A i \in Opers : t.ops[i].id \in Nat
      /\ \A j \in Queue : s.queue[j].op \in Nat
      /\ s.selected.op \in Nat
  BY DEF Stores, Recs, Ops, Moved
<1>1. Tokens(t) /\ Unspent(t) /\ StatesShape(t) /\ Boots(t)
  BY DEF Core, Moved, Tokens, Unspent, StatesShape, Boots
<1>2. Heard(t, a)
  BY DEF Core, Moved, Heard, Announces
<1>3. Closed(t, a)
  <2>1. (\A j \in Queue : t.queue[j].op <= t.nextOp) /\ t.selected.op <= t.nextOp
    BY <1>0 DEF Core, Closed, Moved
  <2>2. ASSUME NEW e \in Closers(t, a) PROVE Closes(t, e)
    <3>1. e \in Closers(s, a)
      BY DEF Moved, Closers
    <3>2. Closes(s, e)
      BY <3>1 DEF Core, Closed
    <3>3. e[1] \in 1..t.nextOp
      BY <3>2, <1>0 DEF Closes, Moved
    <3>4. \A i \in Opers : t.ops[i].id = e[1] => ~t.ops[i].active
      BY <3>2, <1>0 DEF Closes, Moved
    <3> QED
      BY <3>2, <3>3, <3>4 DEF Closes, Moved
  <2> QED
    BY <2>1, <2>2 DEF Closed
<1> QED
  BY <1>1, <1>2, <1>3 DEF Core

\* One operation changes and keeps its id.
LEMMA OneMoves ==
  ASSUME NEW s \in Stores, NEW t, NEW i \in Opers, NEW o \in Ops, OpsShape(s),
         o.id = s.ops[i].id, o.active => s.ops[i].active, o.candidate => o.active,
         Valid(o.latest) => /\ o.active /\ ~Hidden(o)
                            /\ o.latest.op = o.id /\ o.latest.ev \in {"ACCEPTED", "BEGIN", "STEP"},
         t \in Stores, t.ops = [s.ops EXCEPT ![i] = o],
         t.queue = s.queue, t.selected = s.selected, t.states = s.states, t.startup = s.startup,
         t.nonce = s.nonce, t.serial = s.serial, t.nextOp = s.nextOp
  PROVE Moved(s, t) /\ OpsShape(t)
<1>1. s.ops \in [Opers -> Ops] /\ s.nextOp \in Nat
  BY DEF Stores
<1>2. t.ops[i] = o /\ \A j \in Opers : j # i => t.ops[j] = s.ops[j]
  BY <1>1
<1>3. \A j \in Opers : OpShape(t, j)
  BY <1>1, <1>2 DEF OpsShape, OpShape
<1>4. \A j, k \in Opers : t.ops[j].id # 0 /\ t.ops[j].id = t.ops[k].id => j = k
  BY <1>1, <1>2 DEF OpsShape
<1>5. \A j \in Opers : t.ops[j].active => \E k \in Opers : s.ops[k].id = t.ops[j].id /\ s.ops[k].active
  BY <1>1, <1>2
<1>6. t.nextOp >= s.nextOp
  BY <1>1
<1> QED
  BY <1>3, <1>4, <1>5, <1>6 DEF Moved, OpsShape

-----------------------------------------------------------------------------
(* Publishing about an operation *)

\* What PublishOp(s, i, ...) records.
Published(s, i, ev, val, limit) == Materialize(s, s.ops[i].id, ev, val, limit)
Shown(s, i, r) ==
    [s EXCEPT !.ops = [s.ops EXCEPT ![i] = [s.ops[i] EXCEPT !.latest = IF s.ops[i].active THEN r ELSE @,
                                                            !.visible = TRUE]]]

Publishing(s, i, ev, val, limit, r, u, o) ==
    /\ s \in Stores /\ i \in Opers /\ ev \in Kinds /\ val \in Values /\ limit \in Nat
    /\ r = Published(s, i, ev, val, limit) /\ u = Shown(s, i, r)
    /\ o = [s.ops[i] EXCEPT !.latest = IF s.ops[i].active THEN r ELSE @, !.visible = TRUE]

IsShown(s, i, ev, val, limit, r, u, o) ==
    /\ r \in Recs /\ o \in Ops /\ u \in Stores /\ u.ops = [s.ops EXCEPT ![i] = o]
    /\ r.tok = s.serial + 1 /\ r.op = s.ops[i].id /\ r.ev = ev /\ r.limit = limit /\ r.copies = 0
    /\ r.nonce = s.nonce
    /\ u.queue = s.queue /\ u.selected = s.selected /\ u.states = s.states
    /\ u.startup = s.startup /\ u.nonce = s.nonce /\ u.serial = s.serial /\ u.nextOp = s.nextOp
    /\ u.epoch = s.epoch /\ u.gate = s.gate /\ u.notify = s.notify
    /\ PublishOp(s, i, ev, val, limit) = Record(u, r)
    /\ o.id = s.ops[i].id /\ o.active = s.ops[i].active /\ o.candidate = s.ops[i].candidate
    /\ o.auto = s.ops[i].auto /\ o.visible
    /\ o.latest = IF s.ops[i].active THEN r ELSE s.ops[i].latest

LEMMA ShownIs ==
  ASSUME NEW s, NEW i, NEW ev, NEW val, NEW limit, NEW r, NEW u, NEW o,
         Publishing(s, i, ev, val, limit, r, u, o)
  PROVE IsShown(s, i, ev, val, limit, r, u, o)
<1> /\ s \in Stores /\ i \in Opers /\ ev \in Kinds /\ val \in Values /\ limit \in Nat
    /\ r = Published(s, i, ev, val, limit) /\ u = Shown(s, i, r)
    /\ o = [s.ops[i] EXCEPT !.latest = IF s.ops[i].active THEN r ELSE @, !.visible = TRUE]
  BY DEF Publishing
<1>1. s.ops \in [Opers -> Ops] /\ s.ops[i] \in Ops /\ s.ops[i].id \in Nat
  BY DEF Stores, Ops
<1>2. /\ r \in Recs /\ r.tok = s.serial + 1 /\ r.op = s.ops[i].id /\ r.ev = ev
      /\ r.limit = limit /\ r.copies = 0 /\ r.nonce = s.nonce
  BY <1>1, MaterializeIs DEF Published
<1>3. o \in Ops
  BY <1>1, <1>2 DEF Ops
<1>4. /\ o.id = s.ops[i].id /\ o.active = s.ops[i].active /\ o.candidate = s.ops[i].candidate
      /\ o.auto = s.ops[i].auto /\ o.visible
      /\ o.latest = IF s.ops[i].active THEN r ELSE s.ops[i].latest
  BY <1>1 DEF Ops
<1>5. u = [s EXCEPT !.ops = [s.ops EXCEPT ![i] = o]]
  BY DEF Shown
<1>6. [s.ops EXCEPT ![i] = o] \in [Opers -> Ops]
  BY <1>1, <1>3
<1>7. PublishOp(s, i, ev, val, limit) = Record(u, r)
  <2>1. PublishOp(s, i, ev, val, limit)
          = Record([s EXCEPT !.ops[i].latest = IF s.ops[i].active THEN r ELSE @, !.ops[i].visible = TRUE], r)
    BY DEF PublishOp, Published
  <2>2. [s EXCEPT !.ops[i].latest = IF s.ops[i].active THEN r ELSE @, !.ops[i].visible = TRUE] = Shown(s, i, r)
    BY <1>1 DEF Shown, Stores, Ops
  <2> QED
    BY <2>1, <2>2
<1>8. /\ u \in Stores /\ u.ops = [s.ops EXCEPT ![i] = o]
      /\ u.queue = s.queue /\ u.selected = s.selected /\ u.states = s.states
      /\ u.startup = s.startup /\ u.nonce = s.nonce /\ u.serial = s.serial /\ u.nextOp = s.nextOp
      /\ u.epoch = s.epoch /\ u.gate = s.gate /\ u.notify = s.notify
  BY <1>5, <1>6 DEF Stores
<1> QED
  BY <1>2, <1>3, <1>4, <1>7, <1>8 DEF IsShown

\* What is published of an operation that is active, ends it, or tells of one
\* that never began.
MayPublish(s, a, i, ev) ==
    /\ ev \in {"ACCEPTED", "BEGIN", "END", "REJECTED"} /\ s.ops[i].id # 0
    /\ s.ops[i].active => ev \in {"ACCEPTED", "BEGIN"}
    /\ ~s.ops[i].active => ~Valid(s.ops[i].latest)
    /\ \A e \in Closers(s, a) : e[1] # s.ops[i].id

LEMMA PublishIs ==
  ASSUME NEW s \in Stores, NEW a, NEW i \in Opers, NEW ev, NEW val \in Values, NEW limit \in Nat \ {0},
         Core(s, a), MayPublish(s, a, i, ev)
  PROVE LET r == Published(s, i, ev, val, limit)
            t == PublishOp(s, i, ev, val, limit)
        IN  /\ Core(t, a) /\ Took(Shown(s, i, r), t, r) /\ ev \in Kinds
<1> DEFINE r == Published(s, i, ev, val, limit)
           o == [s.ops[i] EXCEPT !.latest = IF s.ops[i].active THEN r ELSE @, !.visible = TRUE]
           u == Shown(s, i, r)
           t == PublishOp(s, i, ev, val, limit)
<1>1. ev \in Kinds
  BY DEF MayPublish, Kinds
<1>2. /\ r \in Recs /\ o \in Ops /\ u \in Stores /\ u.ops = [s.ops EXCEPT ![i] = o]
      /\ r.tok = s.serial + 1 /\ r.op = s.ops[i].id /\ r.ev = ev /\ r.limit = limit /\ r.copies = 0
      /\ u.queue = s.queue /\ u.selected = s.selected /\ u.states = s.states
      /\ u.startup = s.startup /\ u.nonce = s.nonce /\ u.serial = s.serial /\ u.nextOp = s.nextOp
      /\ t = Record(u, r)
      /\ o.id = s.ops[i].id /\ o.active = s.ops[i].active /\ o.candidate = s.ops[i].candidate
      /\ o.auto = s.ops[i].auto /\ o.visible
      /\ o.latest = IF s.ops[i].active THEN r ELSE s.ops[i].latest
  <2>0. t = PublishOp(s, i, ev, val, limit)
    OBVIOUS
  <2>1. Publishing(s, i, ev, val, limit, r, u, o)
    <3>1. limit \in Nat
      OBVIOUS
    <3> QED
      BY <1>1, <3>1 DEF Publishing
  <2> HIDE DEF r, o, u, t
  <2>2. IsShown(s, i, ev, val, limit, r, u, o)
    BY <2>1, ShownIs
  <2> QED
    BY <2>0, <2>2 DEF IsShown
<1> HIDE DEF r, o, u, t
<1>3. OpsShape(s) /\ OpShape(s, i)
  BY DEF Core, OpsShape
<1>4. Moved(s, u) /\ OpsShape(u)
  <2>1. Valid(o.latest) => /\ o.active /\ ~Hidden(o)
                           /\ o.latest.op = o.id /\ o.latest.ev \in {"ACCEPTED", "BEGIN", "STEP"}
    BY <1>2 DEF MayPublish, Hidden
  <2>2. (o.active => s.ops[i].active) /\ (o.candidate => o.active)
    BY <1>2, <1>3 DEF OpShape
  <2> QED
    BY <1>2, <1>3, <2>1, <2>2, OneMoves
<1>5. Core(u, a)
  BY <1>4, MovedCore
<1>6. Took(u, t, r)
  BY <1>2, <1>5, RecordTakes DEF Core
<1>7. Telemetry(u, a, r)
  <2>1. r.op <= u.nextOp
    BY <1>2, <1>3 DEF OpShape
  <2>2. r.copies < r.limit
    BY <1>2
  <2>3. \A e \in Closers(u, a) : e[1] # r.op
    BY <1>2 DEF MayPublish, Closers
  <2>4. r.ev = "END" => \A j \in Opers : u.ops[j].id = r.op => ~u.ops[j].active
    <3>1. SUFFICES ASSUME r.ev = "END", NEW j \in Opers, u.ops[j].id = r.op PROVE ~u.ops[j].active
      OBVIOUS
    <3>2. u.ops[i] = o /\ o.id # 0 /\ ~o.active
      BY <1>2, <3>1 DEF MayPublish, Stores
    <3>3. j = i
      BY <1>4, <3>2, <1>2, <3>1 DEF OpsShape
    <3> QED
      BY <3>2, <3>3
  <2> QED
    BY <1>2, <2>1, <2>2, <2>3, <2>4 DEF Telemetry, Youngest, MayPublish, Rests
<1>8. Core(t, a)
  BY <1>2, <1>5, <1>6, <1>7, TakenCore
<1> QED
  BY <1>1, <1>6, <1>8 DEF r, u, t

LEMMA PublishKept ==
  ASSUME NEW s \in Stores, NEW a, NEW i \in Opers, NEW ev, NEW val \in Values, NEW limit \in Nat \ {0},
         Sound(s, a), MayPublish(s, a, i, ev)
  PROVE LET t == PublishOp(s, i, ev, val, limit)
        IN  t \in Stores /\ Sound(t, a) /\ Keeping(s, t)
<1> DEFINE r == Published(s, i, ev, val, limit)
           u == Shown(s, i, r)
           t == PublishOp(s, i, ev, val, limit)
<1>1. Core(t, a) /\ Took(u, t, r) /\ ev \in Kinds
  BY PublishIs DEF Sound
<1>2. /\ r \in Recs /\ u \in Stores /\ r.tok = s.serial + 1 /\ r.ev = ev
      /\ u.states = s.states /\ u.queue = s.queue /\ u.serial = s.serial /\ u.selected = s.selected
      /\ \A j \in Opers : u.ops[j].latest \in {r, s.ops[j].latest}
  <2> DEFINE o == [s.ops[i] EXCEPT !.latest = IF s.ops[i].active THEN r ELSE @, !.visible = TRUE]
  <2>1. s.ops \in [Opers -> Ops] /\ limit \in Nat
    BY DEF Stores
  <2>2. /\ r \in Recs /\ u \in Stores /\ r.tok = s.serial + 1 /\ r.ev = ev
        /\ u.states = s.states /\ u.queue = s.queue /\ u.serial = s.serial /\ u.selected = s.selected
        /\ u.ops = [s.ops EXCEPT ![i] = o]
        /\ o.latest = IF s.ops[i].active THEN r ELSE s.ops[i].latest
    <3>1. Publishing(s, i, ev, val, limit, r, u, o)
      BY <1>1, <2>1 DEF Publishing
    <3> HIDE DEF r, u, o, t
    <3>2. IsShown(s, i, ev, val, limit, r, u, o)
      BY <3>1, ShownIs
    <3> QED
      BY <3>2 DEF IsShown
  <2> HIDE DEF r, u, o
  <2>3. \A j \in Opers : u.ops[j].latest \in {r, s.ops[j].latest}
    BY <2>1, <2>2
  <2> QED
    BY <2>2, <2>3
<1> HIDE DEF r, u, t
<1>3. t \in Stores /\ t.serial = s.serial + 1 /\ t.ops = u.ops /\ t.states = s.states
  BY <1>1, <1>2, TookIs
<1>4. s.serial \in Nat /\ (\A j \in Opers : s.ops[j].latest.tok \in Nat)
      /\ \A j \in Ends : s.states[j].published.tok \in Nat
  BY DEF Stores, Ops, Recs, Slots
<1>5. Kept(t)
  BY <1>2, <1>3, <1>4 DEF Sound, Kept
<1>6. Keeping(u, t)
  <2>1. Unspent(u) /\ ev # "WILL_WOM"
    BY <1>2 DEF Sound, Core, Unspent, MayPublish
  <2> QED
    BY <1>1, <1>2, <2>1, TookKeeping
<1>7. Keeping(s, t)
  BY <1>2, <1>3, <1>6, SameKeeping, KeepingTwice
<1> QED
  BY <1>1, <1>3, <1>5, <1>7 DEF Sound, t

\* t is s with the operation i as o, its id kept.
Changed(s, t, i, o) ==
    /\ s \in Stores /\ t \in Stores /\ i \in Opers /\ o \in Ops
    /\ o.id = s.ops[i].id /\ (o.active => s.ops[i].active) /\ (o.candidate => o.active)
    /\ Valid(o.latest) => /\ o.active /\ ~Hidden(o)
                          /\ o.latest.op = o.id /\ o.latest.ev \in {"ACCEPTED", "BEGIN", "STEP"}
                          /\ o.latest.tok <= s.serial
    /\ t.ops = [s.ops EXCEPT ![i] = o]
    /\ t.queue = s.queue /\ t.selected = s.selected /\ t.states = s.states /\ t.startup = s.startup
    /\ t.nonce = s.nonce /\ t.serial = s.serial /\ t.nextOp = s.nextOp

LEMMA ChangedSound ==
  ASSUME NEW s, NEW t, NEW i, NEW o, NEW a, Changed(s, t, i, o), Sound(s, a)
  PROVE Sound(t, a) /\ t \in Stores
<1>1. s \in Stores /\ t \in Stores /\ i \in Opers /\ o \in Ops /\ OpsShape(s)
  BY DEF Changed, Sound, Core
<1>2. Moved(s, t) /\ OpsShape(t)
  BY <1>1, OneMoves DEF Changed
<1>3. Core(t, a)
  BY <1>1, <1>2, MovedCore DEF Sound
<1>4. s.ops \in [Opers -> Ops] /\ s.serial \in Nat
  BY <1>1 DEF Stores
<1>5. o.latest.tok <= s.serial
  BY <1>1, <1>4 DEF Changed, Valid, Ops, Recs
<1>6. Kept(t)
  BY <1>1, <1>4, <1>5 DEF Changed, Sound, Kept
<1> QED
  BY <1>1, <1>3, <1>6 DEF Sound

LEMMA OpVictimIs ==
  ASSUME NEW s \in Stores
  PROVE OpVictim(s) \in Opers
<1> DEFINE free == {i \in 1..OpSize : s.ops[i].id = 0}
           dull == {i \in 1..OpSize : ~s.ops[i].active}
           pool == IF free # {} THEN free ELSE IF dull # {} THEN dull ELSE 1..OpSize
<1>0. OpSize \in Nat \ {0} /\ \A i \in 1..OpSize : s.ops[i].id \in Nat
  BY SizesAssumption DEF Stores, Ops, Opers
<1>1. CASE free # {}
  <2>1. free \subseteq Nat
    BY <1>0
  <2>2. \E i \in free : \A j \in free : i <= j
    BY <2>1, <1>1, Least
  <2>3. OpVictim(s) = CHOOSE i \in free : \A j \in free : i <= j
    BY <1>1 DEF OpVictim
  <2>4. OpVictim(s) \in free
    BY <2>2, <2>3
  <2> QED
    BY <2>4 DEF Opers
<1>2. CASE free = {}
  <2>1. pool # {} /\ pool \subseteq 1..OpSize
    BY <1>0, <1>2
  <2>2. OpVictim(s) = CHOOSE i \in pool : \A j \in pool : s.ops[i].id <= s.ops[j].id
    BY <1>2 DEF OpVictim
  <2> HIDE DEF pool
  <2> DEFINE ids == {s.ops[i].id : i \in pool}
  <2>3. ids \subseteq Nat /\ ids # {}
    BY <1>0, <2>1
  <2>4. PICK n \in ids : \A m \in ids : n <= m
    BY <2>3, Least
  <2>5. \E i \in pool : \A j \in pool : s.ops[i].id <= s.ops[j].id
    BY <2>4
  <2>6. OpVictim(s) \in pool
    BY <2>2, <2>5
  <2> QED
    BY <2>1, <2>6 DEF Opers
<1> QED
  BY <1>1, <1>2

\* A new operation takes the place of another; nothing of its id has been
\* recorded.
NewOp(s, auto) ==
    [NoOp EXCEPT !.id = s.nextOp + 1, !.auto = auto, !.active = TRUE, !.beat = OpBeat]

LEMMA NewOpIs ==
  ASSUME NEW s \in Stores, NEW auto \in BOOLEAN
  PROVE LET o == NewOp(s, auto)
        IN  /\ o \in Ops /\ o.id = s.nextOp + 1 /\ o.auto = auto /\ o.active /\ ~o.visible
            /\ ~o.candidate /\ o.latest = NoRec
<1>1. s.nextOp \in Nat /\ OpBeat \in Nat /\ Pace \in Nat /\ Fresh \in Nat
  BY SizesAssumption DEF Stores
<1>2. NoOp \in Ops /\ ~NoOp.visible /\ ~NoOp.candidate /\ NoOp.latest = NoRec
  BY <1>1, NoRecIs DEF NoOp, Ops
<1> DEFINE n == NoOp
<1> HIDE DEF n
<1>3. NewOp(s, auto) = [n EXCEPT !.id = s.nextOp + 1, !.auto = auto, !.active = TRUE, !.beat = OpBeat]
  BY DEF NewOp, n
<1>4. n \in Ops /\ ~n.visible /\ ~n.candidate /\ n.latest = NoRec
  BY <1>2 DEF n
<1>5. s.nextOp + 1 \in Nat
  BY <1>1
<1>6. NewOp(s, auto) \in Ops
  BY <1>1, <1>3, <1>4, <1>5 DEF Ops
<1> QED
  BY <1>3, <1>4, <1>6 DEF Ops

\* t is s with the new operation o in the place of i.
Started(s, t, i, o) ==
    /\ s \in Stores /\ t \in Stores /\ i \in Opers /\ o \in Ops
    /\ o.id = s.nextOp + 1 /\ ~o.candidate /\ o.latest = NoRec
    /\ t.ops = [s.ops EXCEPT ![i] = o] /\ t.nextOp = s.nextOp + 1
    /\ t.queue = s.queue /\ t.selected = s.selected /\ t.states = s.states /\ t.startup = s.startup
    /\ t.nonce = s.nonce /\ t.serial = s.serial

LEMMA StartedSound ==
  ASSUME NEW s, NEW t, NEW i, NEW o, NEW a, Started(s, t, i, o), Sound(s, a)
  PROVE /\ Sound(t, a) /\ t \in Stores /\ t.ops[i] = o
        /\ \A e \in Closers(t, a) : e[1] # o.id
<1>1. s \in Stores /\ t \in Stores /\ i \in Opers /\ o \in Ops /\ OpsShape(s)
  BY DEF Started, Sound, Core
<1>2. /\ s.ops \in [Opers -> Ops] /\ s.nextOp \in Nat /\ s.serial \in Nat
      /\ \A j \in Opers : s.ops[j].id \in Nat /\ s.ops[j].id <= s.nextOp
  BY <1>1 DEF Stores, Ops, OpsShape, OpShape
<1>3. t.ops[i] = o /\ \A j \in Opers : j # i => t.ops[j] = s.ops[j]
  BY <1>1, <1>2 DEF Started
<1>4. o.id > s.nextOp /\ o.id # 0 /\ t.nextOp >= s.nextOp /\ o.id = t.nextOp
      /\ ~Valid(o.latest) /\ o.latest.tok = 0
  BY <1>2, NoRecIs DEF Started, Valid
<1>5. OpsShape(t)
  <2>1. ASSUME NEW j \in Opers PROVE OpShape(t, j)
    <3>1. CASE j = i
      BY <3>1, <1>3, <1>4, <1>2 DEF OpShape, Started
    <3>2. CASE j # i
      BY <3>2, <1>3, <1>2, <1>1 DEF OpsShape, OpShape, Started
    <3> QED
      BY <3>1, <3>2
  <2>2. \A j, k \in Opers : t.ops[j].id # 0 /\ t.ops[j].id = t.ops[k].id => j = k
    BY <1>1, <1>2, <1>3, <1>4 DEF OpsShape
  <2> QED
    BY <2>1, <2>2 DEF OpsShape
<1>6. Moved(s, t)
  BY <1>1, <1>2, <1>3, <1>4 DEF Moved, Started
<1>7. Core(t, a)
  BY <1>1, <1>5, <1>6, MovedCore DEF Sound
<1>8. Kept(t)
  BY <1>2, <1>3, <1>4 DEF Sound, Kept, Started
<1>9. \A e \in Closers(t, a) : e[1] # o.id
  <2>1. SUFFICES ASSUME NEW e \in Closers(t, a) PROVE e[1] # o.id
    OBVIOUS
  <2>2. e \in Closers(s, a)
    BY DEF Started, Closers
  <2>3. e[1] \in 1..s.nextOp
    BY <2>2 DEF Sound, Core, Closed, Closes
  <2> QED
    BY <2>3, <1>2, <1>4
<1> QED
  BY <1>1, <1>3, <1>7, <1>8, <1>9 DEF Sound

LEMMA AllocateIs ==
  ASSUME NEW s \in Stores, NEW auto \in BOOLEAN, NEW a, Sound(s, a)
  PROVE Started(s, Allocate(s, auto), OpVictim(s), NewOp(s, auto))
<1> DEFINE i == OpVictim(s)
           o == NewOp(s, auto)
           t == Allocate(s, auto)
<1>1. i \in Opers /\ o \in Ops /\ o.id = s.nextOp + 1 /\ ~o.candidate /\ o.latest = NoRec
  BY OpVictimIs, NewOpIs
<1>2. s.ops \in [Opers -> Ops] /\ s.nextOp \in Nat
  BY DEF Stores
<1>3. [s.ops EXCEPT ![i] = o] \in [Opers -> Ops]
  BY <1>1, <1>2
<1>4. t = [s EXCEPT !.nextOp = s.nextOp + 1, !.ops = [s.ops EXCEPT ![i] = o]]
  BY <1>1 DEF Allocate, NewOp, Stores
<1> HIDE DEF i, o, t
<1>5. /\ t \in Stores /\ t.ops = [s.ops EXCEPT ![i] = o] /\ t.nextOp = s.nextOp + 1
      /\ t.queue = s.queue /\ t.selected = s.selected /\ t.states = s.states /\ t.startup = s.startup
      /\ t.nonce = s.nonce /\ t.serial = s.serial
  <2>1. s.nextOp + 1 \in Nat
    BY <1>2
  <2>2. t \in Stores
    BY <2>1, <1>3, <1>4 DEF Stores
  <2>3. /\ t.ops = [s.ops EXCEPT ![i] = o] /\ t.nextOp = s.nextOp + 1
        /\ t.queue = s.queue /\ t.selected = s.selected /\ t.states = s.states /\ t.startup = s.startup
        /\ t.nonce = s.nonce /\ t.serial = s.serial
    BY <1>4 DEF Stores
  <2> QED
    BY <2>2, <2>3
<1> QED
  BY <1>1, <1>5 DEF Started, i, o, t

-----------------------------------------------------------------------------
(* The producers *)

LEMMA OpenOp ==
  ASSUME NEW s \in Stores, NEW a, Sound(s, a), NEW i \in Opers, s.ops[i].active
  PROVE s.ops[i].id # 0 /\ \A e \in Closers(s, a) : e[1] # s.ops[i].id
BY DEF Sound, Core, Closed, Closes, OpsShape, OpShape

\* o may stand for the operation i.
Fits(s, i, o) ==
    /\ o \in Ops
    /\ o.id = s.ops[i].id /\ (o.active => s.ops[i].active) /\ (o.candidate => o.active)
    /\ Valid(o.latest) => /\ o.active /\ ~Hidden(o)
                          /\ o.latest.op = o.id /\ o.latest.ev \in {"ACCEPTED", "BEGIN", "STEP"}
                          /\ o.latest.tok <= s.serial
WithOp(s, i, o, notify) == [s EXCEPT !.ops = [s.ops EXCEPT ![i] = o], !.notify = notify]

LEMMA WithOpIs ==
  ASSUME NEW s \in Stores, NEW i \in Opers, NEW o \in Ops, NEW b \in BOOLEAN
  PROVE LET t == WithOp(s, i, o, b)
        IN  /\ t \in Stores /\ t.ops = [s.ops EXCEPT ![i] = o] /\ t.ops[i] = o /\ t.notify = b
            /\ t.queue = s.queue /\ t.selected = s.selected /\ t.states = s.states
            /\ t.startup = s.startup /\ t.nonce = s.nonce /\ t.serial = s.serial /\ t.nextOp = s.nextOp
            /\ t.gate = s.gate /\ t.epoch = s.epoch
<1>1. s.ops \in [Opers -> Ops]
  BY DEF Stores
<1>2. [s.ops EXCEPT ![i] = o] \in [Opers -> Ops] /\ [s.ops EXCEPT ![i] = o][i] = o
  BY <1>1
<1>3. WithOp(s, i, o, b) \in Stores
  BY <1>2 DEF Stores, WithOp
<1> QED
  BY <1>2, <1>3 DEF Stores, WithOp

\* t is s with o for the operation i, and as sound.
Replaced(s, t, i, o, a) ==
    /\ t \in Stores /\ Sound(t, a) /\ Closers(t, a) = Closers(s, a)
    /\ t.ops = [s.ops EXCEPT ![i] = o] /\ t.ops[i] = o /\ t.serial = s.serial
    /\ t.nonce = s.nonce /\ t.nextOp = s.nextOp /\ Keeping(s, t)

LEMMA FitsSound ==
  ASSUME NEW s \in Stores, NEW i \in Opers, NEW o, NEW b \in BOOLEAN, NEW a, Fits(s, i, o), Sound(s, a)
  PROVE Replaced(s, WithOp(s, i, o, b), i, o, a)
<1> DEFINE t == WithOp(s, i, o, b)
<1>0. o \in Ops
  BY DEF Fits
<1>1. /\ t \in Stores /\ t.ops = [s.ops EXCEPT ![i] = o] /\ t.ops[i] = o
      /\ t.queue = s.queue /\ t.selected = s.selected /\ t.states = s.states
      /\ t.startup = s.startup /\ t.nonce = s.nonce /\ t.serial = s.serial /\ t.nextOp = s.nextOp
  BY <1>0, WithOpIs
<1> HIDE DEF t
<1>2. Changed(s, t, i, o)
  BY <1>0, <1>1 DEF Changed, Fits
<1>3. Closers(t, a) = Closers(s, a)
  BY <1>1 DEF Closers
<1>4. Replaced(s, t, i, o, a)
  BY <1>1, <1>2, <1>3, ChangedSound, SameKeeping DEF Replaced
<1> QED
  BY <1>4 DEF t

\* An operation as it is fits.
LEMMA FitsItself ==
  ASSUME NEW s \in Stores, NEW i \in Opers, NEW a, Sound(s, a)
  PROVE Fits(s, i, s.ops[i]) /\ s.ops[i] \in Ops
<1>1. s.ops[i] \in Ops /\ OpShape(s, i) /\ s.ops[i].latest.tok <= s.serial
  BY DEF Stores, Sound, Core, OpsShape, Kept
<1> QED
  BY <1>1 DEF OpShape, Fits

\* o is a new operation at i of u, of which nothing has been recorded.
Opened(u, i, o, a) ==
    /\ u \in Stores /\ Sound(u, a) /\ i \in Opers /\ o \in Ops /\ u.ops[i] = o
    /\ o.active /\ o.id # 0 /\ ~o.candidate /\ o.latest = NoRec
    /\ \A e \in Closers(u, a) : e[1] # o.id

LEMMA Opens ==
  ASSUME NEW s \in Stores, NEW a, Sound(s, a), NEW auto \in BOOLEAN
  PROVE Opened(Allocate(s, auto), OpVictim(s), NewOp(s, auto), a) /\ Keeping(s, Allocate(s, auto))
<1> DEFINE u == Allocate(s, auto)
           i == OpVictim(s)
           o == NewOp(s, auto)
<1>1. Started(s, u, i, o)
  BY AllocateIs
<1>2. /\ o \in Ops /\ o.id = s.nextOp + 1 /\ o.active /\ ~o.candidate /\ o.latest = NoRec
  BY NewOpIs
<1>3. i \in Opers /\ s.nextOp \in Nat
  BY OpVictimIs DEF Stores
<1> HIDE DEF u, i, o
<1>4. u \in Stores /\ Sound(u, a) /\ u.ops[i] = o /\ \A e \in Closers(u, a) : e[1] # o.id
  BY <1>1, StartedSound
<1>5. Opened(u, i, o, a)
  BY <1>2, <1>3, <1>4 DEF Opened
<1>6. Keeping(s, u)
  BY <1>1, SameKeeping DEF Started
<1> QED
  BY <1>5, <1>6 DEF u, i, o

LEMMA AcceptSound ==
  ASSUME NEW s \in Stores, NEW a, Sound(s, a)
  PROVE LET t == PublishOp(Allocate(s, FALSE), OpVictim(s), "ACCEPTED", NoValue, NoticeCopies)
        IN  t \in Stores /\ Sound(t, a) /\ Keeping(s, t)
<1> DEFINE u == Allocate(s, FALSE)
           i == OpVictim(s)
           o == NewOp(s, FALSE)
<1>1. Opened(u, i, o, a) /\ Keeping(s, u)
  BY Opens
<1> HIDE DEF u, i, o
<1>2. /\ i \in Opers /\ o \in Ops /\ o.active /\ o.id # 0 /\ ~o.candidate /\ o.latest = NoRec
      /\ u \in Stores /\ Sound(u, a) /\ u.ops[i] = o /\ \A e \in Closers(u, a) : e[1] # o.id
  BY <1>1 DEF Opened
<1>4. MayPublish(u, a, i, "ACCEPTED")
  BY <1>2 DEF MayPublish
<1>5. /\ PublishOp(u, i, "ACCEPTED", NoValue, NoticeCopies) \in Stores
      /\ Sound(PublishOp(u, i, "ACCEPTED", NoValue, NoticeCopies), a)
      /\ Keeping(u, PublishOp(u, i, "ACCEPTED", NoValue, NoticeCopies))
  BY <1>2, <1>4, PublishKept, NoRecIs, Sizes
<1>6. Keeping(s, PublishOp(u, i, "ACCEPTED", NoValue, NoticeCopies))
  BY <1>1, <1>2, <1>5, KeepingTwice
<1> QED
  BY <1>5, <1>6 DEF u, i

LEMMA RejectSound ==
  ASSUME NEW s \in Stores, NEW a, Sound(s, a)
  PROVE LET t == PublishOp([Allocate(s, FALSE) EXCEPT !.ops[OpVictim(s)].active = FALSE],
                           OpVictim(s), "REJECTED", NoValue, NoticeCopies)
        IN  t \in Stores /\ Sound(t, a) /\ Keeping(s, t)
<1> DEFINE u == Allocate(s, FALSE)
           i == OpVictim(s)
           o == NewOp(s, FALSE)
           p == [o EXCEPT !.active = FALSE]
           v == WithOp(u, i, p, u.notify)
<1>1. Opened(u, i, o, a) /\ Keeping(s, u)
  BY Opens
<1> HIDE DEF u, i, o
<1>2. /\ i \in Opers /\ o \in Ops /\ o.active /\ o.id # 0 /\ ~o.candidate /\ o.latest = NoRec
      /\ u \in Stores /\ Sound(u, a) /\ u.ops[i] = o /\ \A e \in Closers(u, a) : e[1] # o.id
  BY <1>1 DEF Opened
<1>4. p \in Ops /\ p.id = o.id /\ ~p.active /\ ~p.candidate /\ p.latest = NoRec
  BY <1>2 DEF Ops
<1>5. [u EXCEPT !.ops[i].active = FALSE] = v
  BY <1>2 DEF WithOp, Stores
<1> HIDE DEF p
<1>6. Fits(u, i, p)
  BY <1>2, <1>4, NoRecIs DEF Fits
<1>7. u.notify \in BOOLEAN
  BY <1>2 DEF Stores
<1>8. v \in Stores /\ Sound(v, a) /\ Closers(v, a) = Closers(u, a) /\ v.ops[i] = p /\ Keeping(u, v)
  <2>1. Replaced(u, v, i, p, a)
    BY <1>2, <1>6, <1>7, FitsSound
  <2> HIDE DEF v
  <2> QED
    BY <2>1 DEF Replaced
<1> HIDE DEF v
<1>9. MayPublish(v, a, i, "REJECTED")
  BY <1>2, <1>4, <1>8, NoRecIs DEF MayPublish
<1>10. /\ PublishOp(v, i, "REJECTED", NoValue, NoticeCopies) \in Stores
       /\ Sound(PublishOp(v, i, "REJECTED", NoValue, NoticeCopies), a)
       /\ Keeping(v, PublishOp(v, i, "REJECTED", NoValue, NoticeCopies))
  BY <1>2, <1>8, <1>9, PublishKept, NoRecIs, Sizes
<1>11. Keeping(s, PublishOp(v, i, "REJECTED", NoValue, NoticeCopies))
  BY <1>1, <1>2, <1>8, <1>10, KeepingTwice
<1> QED
  BY <1>5, <1>10, <1>11 DEF u, i

LEMMA BeginSound ==
  ASSUME NEW s \in Stores, NEW a, Sound(s, a), NEW auto \in BOOLEAN
  PROVE LET i == OpVictim(s)
            u == [Allocate(s, auto) EXCEPT !.ops[i].phase = Began, !.ops[i].changed = 0, !.notify = TRUE]
            t == IF auto THEN u ELSE PublishOp(u, i, "BEGIN", Began, 1)
        IN  t \in Stores /\ Sound(t, a) /\ Keeping(s, t)
<1> DEFINE u == Allocate(s, auto)
           i == OpVictim(s)
           o == NewOp(s, auto)
           p == [o EXCEPT !.phase = Began, !.changed = 0]
           v == WithOp(u, i, p, TRUE)
<1>1. Opened(u, i, o, a) /\ Keeping(s, u)
  BY Opens
<1> HIDE DEF u, i, o
<1>2. /\ i \in Opers /\ o \in Ops /\ o.active /\ o.id # 0 /\ ~o.candidate /\ o.latest = NoRec
      /\ u \in Stores /\ Sound(u, a) /\ u.ops[i] = o /\ \A e \in Closers(u, a) : e[1] # o.id
  BY <1>1 DEF Opened
<1>4. p \in Ops /\ p.id = o.id /\ p.active /\ ~p.candidate /\ p.latest = NoRec
  <2>1. Began \in Values
    BY DEF Began, Values
  <2> QED
    BY <1>2, <2>1 DEF Ops
<1>5. [u EXCEPT !.ops[i].phase = Began, !.ops[i].changed = 0, !.notify = TRUE] = v
  BY <1>2 DEF WithOp, Stores
<1> HIDE DEF p
<1>6. Fits(u, i, p)
  BY <1>2, <1>4, NoRecIs DEF Fits
<1>8. v \in Stores /\ Sound(v, a) /\ Closers(v, a) = Closers(u, a) /\ v.ops[i] = p /\ Keeping(u, v)
  <2>1. Replaced(u, v, i, p, a)
    BY <1>2, <1>6, FitsSound
  <2> HIDE DEF v
  <2> QED
    BY <2>1 DEF Replaced
<1> HIDE DEF v
<1>9. MayPublish(v, a, i, "BEGIN")
  BY <1>2, <1>4, <1>8 DEF MayPublish
<1>10. /\ PublishOp(v, i, "BEGIN", Began, 1) \in Stores
       /\ Sound(PublishOp(v, i, "BEGIN", Began, 1), a)
       /\ Keeping(v, PublishOp(v, i, "BEGIN", Began, 1))
  <2>1. Began \in Values /\ 1 \in Nat \ {0}
    BY DEF Began, Values
  <2> QED
    BY <1>2, <1>8, <1>9, <2>1, PublishKept
<1>11. Keeping(s, v) /\ Keeping(s, PublishOp(v, i, "BEGIN", Began, 1))
  BY <1>1, <1>2, <1>8, <1>10, KeepingTwice
<1> QED
  BY <1>5, <1>8, <1>10, <1>11 DEF u, i

On(s, id) == {i \in OpSlot(s, id) : s.ops[i].active}

LEMMA OnIs ==
  ASSUME NEW s, NEW id, On(s, id) # {}
  PROVE LET i == CHOOSE j \in On(s, id) : TRUE IN i \in Opers /\ s.ops[i].active /\ s.ops[i].id = id
<1>1. (CHOOSE j \in On(s, id) : TRUE) \in On(s, id)
  OBVIOUS
<1> QED
  BY <1>1 DEF On, OpSlot, Opers

LEMMA StartSound ==
  ASSUME NEW s \in Stores, NEW a, Sound(s, a), NEW i \in Opers, s.ops[i].active
  PROVE LET t == PublishOp([s EXCEPT !.ops[i].phase = Began], i, "BEGIN", Began, 1)
        IN  t \in Stores /\ Sound(t, a) /\ Keeping(s, t)
<1> DEFINE o == s.ops[i]
           p == [o EXCEPT !.phase = Began]
           v == WithOp(s, i, p, s.notify)
<1>1. Fits(s, i, o) /\ o \in Ops /\ s.notify \in BOOLEAN
  BY FitsItself DEF Stores
<1>2. Began \in Values
  BY DEF Began, Values
<1>3. [s EXCEPT !.ops[i].phase = Began] = v
  BY DEF WithOp, Stores
<1>4. o.active /\ o.id # 0 /\ \A e \in Closers(s, a) : e[1] # o.id
  BY OpenOp
<1> HIDE DEF o
<1>5. /\ p \in Ops /\ p.id = o.id /\ p.active = o.active /\ p.candidate = o.candidate
      /\ p.latest = o.latest /\ p.auto = o.auto /\ p.visible = o.visible
  BY <1>1, <1>2 DEF Ops
<1> HIDE DEF p
<1>6. Fits(s, i, p)
  BY <1>1, <1>5 DEF Fits, Hidden
<1>7. v \in Stores /\ Sound(v, a) /\ Closers(v, a) = Closers(s, a) /\ v.ops[i] = p /\ Keeping(s, v)
  <2>1. Replaced(s, v, i, p, a)
    BY <1>1, <1>6, FitsSound
  <2> HIDE DEF v
  <2> QED
    BY <2>1 DEF Replaced
<1> HIDE DEF v
<1>8. MayPublish(v, a, i, "BEGIN")
  BY <1>4, <1>5, <1>7 DEF MayPublish
<1>9. /\ PublishOp(v, i, "BEGIN", Began, 1) \in Stores /\ Sound(PublishOp(v, i, "BEGIN", Began, 1), a)
      /\ Keeping(v, PublishOp(v, i, "BEGIN", Began, 1))
  BY <1>2, <1>7, <1>8, PublishKept
<1>10. Keeping(s, PublishOp(v, i, "BEGIN", Began, 1))
  BY <1>7, <1>9, KeepingTwice
<1> QED
  BY <1>3, <1>9, <1>10

LEMMA StepSound ==
  ASSUME NEW s \in Stores, NEW a, Sound(s, a), NEW i \in Opers, s.ops[i].active,
         NEW phase \in Values, NEW b \in BOOLEAN, NEW n \in Nat
  PROVE LET o == s.ops[i]
            p == [o EXCEPT !.latest = IF UnsentStep(o) THEN NoRec ELSE @, !.phase = phase,
                           !.changed = 0, !.candidate = TRUE, !.retry = n]
            q == [o EXCEPT !.retry = n]
        IN  Replaced(s, WithOp(s, i, p, b), i, p, a) /\ Replaced(s, WithOp(s, i, q, b), i, q, a)
<1> DEFINE o == s.ops[i]
           p == [o EXCEPT !.latest = IF UnsentStep(o) THEN NoRec ELSE @, !.phase = phase,
                          !.changed = 0, !.candidate = TRUE, !.retry = n]
           q == [o EXCEPT !.retry = n]
<1>1. Fits(s, i, o) /\ o \in Ops /\ o.active
  BY FitsItself
<1> HIDE DEF o
<1>2. /\ p \in Ops /\ p.id = o.id /\ p.active = o.active /\ p.latest \in {NoRec, o.latest}
      /\ p.auto = o.auto /\ p.visible = o.visible
  BY <1>1, NoRecIs DEF Ops
<1>3. /\ q \in Ops /\ q.id = o.id /\ q.active = o.active /\ q.candidate = o.candidate
      /\ q.latest = o.latest /\ q.auto = o.auto /\ q.visible = o.visible
  BY <1>1 DEF Ops
<1> HIDE DEF p, q
<1>4. Fits(s, i, p)
  BY <1>1, <1>2, NoRecIs DEF Fits, Hidden
<1>5. Fits(s, i, q)
  BY <1>1, <1>3 DEF Fits, Hidden
<1>6. Replaced(s, WithOp(s, i, p, b), i, p, a) /\ Replaced(s, WithOp(s, i, q, b), i, q, a)
  BY <1>4, <1>5, FitsSound
<1> QED
  BY <1>6 DEF p, q, o

LEMMA ReasonSound ==
  ASSUME NEW s \in Stores, NEW a, Sound(s, a), NEW i \in Opers
  PROVE LET t == [s EXCEPT !.ops[i].why = 1] IN t \in Stores /\ Sound(t, a) /\ Keeping(s, t)
<1> DEFINE o == s.ops[i]
           p == [o EXCEPT !.why = 1]
           v == WithOp(s, i, p, s.notify)
<1>1. Fits(s, i, o) /\ o \in Ops /\ s.notify \in BOOLEAN
  BY FitsItself DEF Stores
<1>3. [s EXCEPT !.ops[i].why = 1] = v
  BY DEF WithOp, Stores
<1> HIDE DEF o
<1>5. /\ p \in Ops /\ p.id = o.id /\ p.active = o.active /\ p.candidate = o.candidate
      /\ p.latest = o.latest /\ p.auto = o.auto /\ p.visible = o.visible
  BY <1>1 DEF Ops
<1> HIDE DEF p
<1>6. Fits(s, i, p)
  BY <1>1, <1>5 DEF Fits, Hidden
<1>7. Replaced(s, v, i, p, a)
  BY <1>1, <1>6, FitsSound
<1> QED
  BY <1>3, <1>7 DEF Replaced

LEMMA EndSound ==
  ASSUME NEW s \in Stores, NEW a, Sound(s, a), NEW i \in Opers, s.ops[i].active, NEW val \in Values
  PROVE LET u == Ended(s, i)
            t == PublishOp(u, i, "END", val, NoticeCopies)
        IN  /\ u \in Stores /\ Sound(u, a) /\ Keeping(s, u)
            /\ t \in Stores /\ Sound(t, a) /\ Keeping(s, t)
<1> DEFINE o == s.ops[i]
           p == [o EXCEPT !.active = FALSE, !.candidate = FALSE, !.latest = NoRec]
           v == WithOp(s, i, p, s.notify)
<1>1. o \in Ops /\ s.notify \in BOOLEAN
  BY FitsItself DEF Stores
<1>3. Ended(s, i) = v
  BY DEF WithOp, Stores, Ended
<1>4. o.active /\ o.id # 0 /\ \A e \in Closers(s, a) : e[1] # o.id
  BY OpenOp
<1>5. p \in Ops /\ p.id = s.ops[i].id /\ p.id = o.id /\ ~p.active /\ ~p.candidate /\ p.latest = NoRec
  BY <1>1, NoRecIs DEF Ops
<1> HIDE DEF p, o
<1>6. Fits(s, i, p)
  BY <1>5, NoRecIs DEF Fits
<1>7. v \in Stores /\ Sound(v, a) /\ Closers(v, a) = Closers(s, a) /\ v.ops[i] = p /\ Keeping(s, v)
  <2>1. Replaced(s, v, i, p, a)
    BY <1>1, <1>6, FitsSound
  <2> HIDE DEF v
  <2> QED
    BY <2>1 DEF Replaced
<1> HIDE DEF v
<1>8. MayPublish(v, a, i, "END")
  BY <1>4, <1>5, <1>7, NoRecIs DEF MayPublish
<1>9. /\ PublishOp(v, i, "END", val, NoticeCopies) \in Stores
      /\ Sound(PublishOp(v, i, "END", val, NoticeCopies), a)
      /\ Keeping(v, PublishOp(v, i, "END", val, NoticeCopies))
  BY <1>7, <1>8, PublishKept, Sizes
<1>10. Keeping(s, PublishOp(v, i, "END", val, NoticeCopies))
  BY <1>7, <1>9, KeepingTwice
<1> QED
  BY <1>3, <1>7, <1>9, <1>10

\* Taking a record that Telemetry admits.
LEMMA TakenSound ==
  ASSUME NEW s \in Stores, NEW a, Sound(s, a), NEW r, Telemetry(s, a, r)
  PROVE Took(s, Record(s, r), r) /\ Record(s, r) \in Stores /\ Sound(Record(s, r), a)
<1> DEFINE t == Record(s, r)
<1>1. r \in Recs
  BY DEF Telemetry, Youngest
<1>2. Took(s, t, r)
  BY <1>1, RecordTakes DEF Sound, Core
<1> HIDE DEF t
<1>3. t \in Stores /\ t.serial = s.serial + 1 /\ t.ops = s.ops /\ t.states = s.states
  BY <1>1, <1>2, TookIs DEF Telemetry, Youngest
<1>4. Core(t, a)
  BY <1>1, <1>2, TakenCore DEF Sound
<1>5. s.serial \in Nat /\ (\A j \in Opers : s.ops[j].latest.tok \in Nat)
      /\ \A j \in Ends : s.states[j].published.tok \in Nat
  BY DEF Stores, Ops, Recs, Slots
<1>6. Kept(t)
  BY <1>3, <1>5 DEF Sound, Kept
<1> QED
  BY <1>2, <1>3, <1>4, <1>6 DEF Sound, t

LEMMA StorageSound ==
  ASSUME NEW s \in Stores, NEW a, Sound(s, a), NEW id \in Nat, OpSlot(s, id) # {}
  PROVE LET t == Record(s, Materialize(s, id, "STORAGE", NoValue, NoticeCopies))
        IN  t \in Stores /\ Sound(t, a) /\ Keeping(s, t)
<1> DEFINE r == Materialize(s, id, "STORAGE", NoValue, NoticeCopies)
<1>1. /\ r \in Recs /\ r.tok = s.serial + 1 /\ r.op = id /\ r.ev = "STORAGE"
      /\ r.limit = NoticeCopies /\ r.copies = 0
  <2>1. "STORAGE" \in Kinds
    BY DEF Kinds
  <2> QED
    BY <2>1, MaterializeIs, NoRecIs, Sizes
<1>2. id <= s.nextOp
  BY DEF OpSlot, Sound, Core, OpsShape, OpShape, Opers
<1> HIDE DEF r
<1>3. Telemetry(s, a, r)
  BY <1>1, <1>2, Sizes DEF Telemetry, Youngest, Rests
<1>4. Keeping(s, Record(s, r))
  BY <1>1, <1>3, TakenSound, TookKeeping DEF Sound, Core
<1> QED
  BY <1>3, <1>4, TakenSound DEF r

-----------------------------------------------------------------------------
(* What keeps all records, or drops some *)

Alike(q, r) == q.tok = r.tok /\ q.ev = r.ev /\ q.op = r.op /\ q.nonce = r.nonce /\ q.limit = r.limit

\* Records leave, grow older or are counted; nothing is added, and a boot
\* observation that is pending stays.
Lessened(s, t) ==
    /\ s \in Stores /\ t \in Stores
    /\ \A j \in Queue : \/ t.queue[j] = NoRec
                        \/ /\ Alike(t.queue[j], s.queue[j])
                           /\ Full(t.queue[j])
    /\ \A i \in Ends, j \in Queue :
          t.startup.pending[i] /\ s.startup.tok[i] # 0 /\ s.queue[j].tok = s.startup.tok[i]
             /\ s.queue[j].ev = BootOf(i) => Alike(t.queue[j], s.queue[j])
    /\ \A i \in Ends : t.startup.pending[i] => s.startup.pending[i]
    /\ t.startup.tok = s.startup.tok /\ t.startup.scheduled = s.startup.scheduled
    /\ s.startup.retired => t.startup.retired
    /\ t.nonce \in {s.nonce, 0}
    /\ t.selected \in {s.selected, NoRec}
    /\ t.serial = s.serial /\ t.nextOp = s.nextOp
    /\ \A i \in Opers : t.ops[i].id = s.ops[i].id /\ (t.ops[i].active => s.ops[i].active)
    /\ OpsShape(t) /\ StatesShape(t) /\ Kept(t)

LEMMA LessenedSound ==
  ASSUME NEW s, NEW t, NEW a, Lessened(s, t), Sound(s, a)
  PROVE Sound(t, a) /\ t \in Stores
<1>0. /\ s \in Stores /\ t \in Stores /\ s.serial \in Nat /\ s.nextOp \in Nat
      /\ ~Valid(NoRec) /\ NoRec.tok = 0 /\ NoRec.op = 0 /\ NoRec.ev = "none"
  BY DEF Lessened, Stores, Valid, NoRec
<1>1. ASSUME NEW j \in Queue
      PROVE \/ t.queue[j] = NoRec
            \/ /\ Alike(t.queue[j], s.queue[j])
               /\ Full(t.queue[j])
  BY DEF Lessened
<1>2. Tokens(t)
  BY <1>0, <1>1 DEF Sound, Core, Tokens, Alike, Valid, Lessened
<1>3. Unspent(t)
  BY <1>0, <1>1 DEF Unspent, Full
<1>4. OpsShape(t) /\ StatesShape(t) /\ Kept(t)
  BY DEF Lessened
<1>5. Boots(t)
  <2>1. ASSUME NEW i \in Ends, t.startup.pending[i], t.startup.tok[i] # 0
        PROVE \E j \in Queue : t.queue[j].tok = t.startup.tok[i] /\ t.queue[j].ev = BootOf(i)
    <3>1. s.startup.pending[i] /\ s.startup.tok[i] = t.startup.tok[i]
      BY <2>1 DEF Lessened
    <3>2. PICK j \in Queue : s.queue[j].tok = s.startup.tok[i] /\ s.queue[j].ev = BootOf(i)
      BY <2>1, <3>1 DEF Sound, Core, Boots
    <3>3. Alike(t.queue[j], s.queue[j])
      BY <2>1, <3>1, <3>2 DEF Lessened
    <3> QED
      BY <3>1, <3>2, <3>3 DEF Alike
  <2>2. \A i \in Ends : t.startup.pending[i] \/ t.startup.tok[i] # 0 => t.startup.scheduled
    BY DEF Sound, Core, Boots, Lessened
  <2> QED
    BY <2>1, <2>2 DEF Boots
<1>6. Heard(t, a)
  <2>1. Announces(t, a, NoRec)
    BY <1>0 DEF Announces, BootOf
  <2>2. ASSUME NEW q, NEW r, Alike(q, r), Announces(s, a, r) PROVE Announces(t, a, q)
    BY <2>2 DEF Announces, Alike, Lessened
  <2>3. ASSUME NEW j \in Queue PROVE Announces(t, a, t.queue[j])
    <3>1. Announces(s, a, s.queue[j])
      BY DEF Sound, Core, Heard
    <3> QED
      BY <3>1, <2>1, <2>2, <1>1
  <2>4. Announces(t, a, t.selected)
    <3>1. Announces(s, a, s.selected) /\ Alike(s.selected, s.selected)
      BY DEF Sound, Core, Heard, Alike
    <3> QED
      BY <3>1, <2>1, <2>2 DEF Lessened
  <2> QED
    BY <2>3, <2>4 DEF Heard, Sound, Core, Lessened
<1>7. Closed(t, a)
  <2>1. (\A j \in Queue : t.queue[j].op <= t.nextOp) /\ t.selected.op <= t.nextOp
    BY <1>0, <1>1 DEF Sound, Core, Closed, Alike, Lessened
  <2>2. ASSUME NEW e \in Closers(t, a) PROVE Closes(t, e)
    <3>1. e \in Closers(s, a)
      BY <1>0, <1>1, ClosersIs DEF Alike, Lessened
    <3>2. Closes(s, e)
      BY <3>1 DEF Sound, Core, Closed
    <3>3. e[1] \in 1..t.nextOp /\ e[1] # 0
      BY <3>2, <1>0 DEF Closes, Lessened
    <3>4. \A i \in Opers : t.ops[i].id = e[1] => ~t.ops[i].active
      BY <3>2 DEF Closes, Lessened
    <3>5. ASSUME NEW j \in Queue, t.queue[j].op = e[1], t.queue[j].ev # "STORAGE"
          PROVE t.queue[j].tok <= e[2]
      BY <3>2, <3>3, <3>5, <1>0, <1>1 DEF Closes, Alike
    <3>6. t.selected.op = e[1] /\ t.selected.ev # "STORAGE" => t.selected.tok <= e[2]
      BY <3>2, <3>3, <1>0 DEF Closes, Lessened
    <3> QED
      BY <3>3, <3>4, <3>5, <3>6 DEF Closes
  <2> QED
    BY <2>1, <2>2 DEF Closed
<1> QED
  BY <1>0, <1>2, <1>3, <1>4, <1>5, <1>6, <1>7 DEF Sound, Core

\* Where the operations and the states are as they were.
LEMMA SameShapes ==
  ASSUME NEW s, NEW t, NEW a, Sound(s, a), t.ops = s.ops, t.states = s.states, t.nextOp = s.nextOp,
         t.serial = s.serial
  PROVE /\ OpsShape(t) /\ StatesShape(t) /\ Kept(t)
        /\ \A i \in Opers : t.ops[i].id = s.ops[i].id /\ (t.ops[i].active => s.ops[i].active)
BY DEF Sound, Core, OpsShape, OpShape, StatesShape, Kept

LEMMA AlikeItself ==
  ASSUME NEW s \in Stores, NEW a, Sound(s, a), NEW j \in Queue
  PROVE /\ Alike(s.queue[j], s.queue[j]) /\ s.queue[j] \in Recs
        /\ Full(s.queue[j])
BY DEF Alike, Sound, Core, Unspent, Stores

LEMMA DropExpiredSound ==
  ASSUME NEW s \in Stores, NEW a, Sound(s, a)
  PROVE DropExpired(s) \in Stores /\ Sound(DropExpired(s), a)
<1> DEFINE f == [i \in Queue |-> IF Valid(s.queue[i]) /\ ~StartupPending(s, s.queue[i]) /\ s.queue[i].age >= TTL
                                 THEN NoRec ELSE s.queue[i]]
           t == [s EXCEPT !.queue = f]
<1>1. DropExpired(s) = t
  BY DEF DropExpired, Queue
<1>2. s.queue \in [Queue -> Recs] /\ f \in [Queue -> Recs]
  BY NoRecIs DEF Stores
<1>3. /\ \A j \in Queue : f[j] \in {NoRec, s.queue[j]}
      /\ \A j \in Queue : StartupPending(s, s.queue[j]) => f[j] = s.queue[j]
  BY <1>2
<1> HIDE DEF f
<1>4. /\ t \in Stores /\ t.queue = f /\ t.ops = s.ops /\ t.states = s.states /\ t.nextOp = s.nextOp
      /\ t.serial = s.serial /\ t.startup = s.startup /\ t.nonce = s.nonce /\ t.selected = s.selected
  BY <1>2 DEF Stores
<1> HIDE DEF t
<1>5. \A i \in Ends, j \in Queue :
         s.startup.pending[i] /\ s.startup.tok[i] # 0 /\ s.queue[j].tok = s.startup.tok[i]
            => StartupPending(s, s.queue[j])
  BY DEF StartupPending, Valid, Ends
<1>6. Lessened(s, t)
  BY <1>3, <1>4, <1>5, SameShapes, AlikeItself DEF Lessened
<1> QED
  BY <1>1, <1>6, LessenedSound

LEMMA RetractSound ==
  ASSUME NEW s \in Stores, NEW a, Sound(s, a)
  PROVE /\ RetractWarnings(s) \in Stores /\ Sound(RetractWarnings(s), a)
        /\ RetractWarnings(s).serial = s.serial /\ RetractWarnings(s).nextOp = s.nextOp
        /\ RetractWarnings(s).startup = s.startup
<1> DEFINE f == [i \in Queue |-> IF s.queue[i].ev = "WILL_WOM" THEN NoRec ELSE s.queue[i]]
           t == [s EXCEPT !.queue = f]
<1>1. RetractWarnings(s) = t
  BY DEF RetractWarnings, Queue
<1>2. s.queue \in [Queue -> Recs] /\ f \in [Queue -> Recs]
  BY NoRecIs DEF Stores
<1>3. /\ \A j \in Queue : f[j] \in {NoRec, s.queue[j]}
      /\ \A j \in Queue, i \in Ends : s.queue[j].ev = BootOf(i) => f[j] = s.queue[j]
  BY <1>2 DEF BootOf
<1> HIDE DEF f
<1>4. /\ t \in Stores /\ t.queue = f /\ t.ops = s.ops /\ t.states = s.states /\ t.nextOp = s.nextOp
      /\ t.serial = s.serial /\ t.startup = s.startup /\ t.nonce = s.nonce /\ t.selected = s.selected
  BY <1>2 DEF Stores
<1> HIDE DEF t
<1>6. Lessened(s, t)
  BY <1>3, <1>4, SameShapes, AlikeItself DEF Lessened
<1> QED
  BY <1>1, <1>4, <1>6, LessenedSound

-----------------------------------------------------------------------------
(* Notices and boots *)

\* Another air: an intent may be the next record to come.
LEMMA AirSound ==
  ASSUME NEW s \in Stores, NEW a, NEW b, Sound(s, a), b.boots = a.boots, b.ended = a.ended,
         \/ b.intent = a.intent
         \/ /\ b.intent = s.serial + 1 /\ s.startup.retired
            /\ \A i \in Ends : ~s.startup.pending[i]
  PROVE Sound(s, b)
<1>1. s.serial \in Nat /\ s.selected.tok \in Nat /\ \A j \in Queue : s.queue[j].tok \in Nat
  BY DEF Stores, Recs
<1>2. Closed(s, b)
  BY DEF Sound, Core, Closed, Closers
<1>3. Heard(s, b)
  <2>1. ASSUME NEW r, Announces(s, a, r), r.tok \in Nat, r.tok <= s.serial PROVE Announces(s, b, r)
    <3>1. b.intent # 0 => r.tok < b.intent \/ b.intent = a.intent
      BY <2>1, <1>1
    <3> QED
      BY <2>1, <3>1 DEF Announces
  <2>2. \A j \in Queue : Announces(s, b, s.queue[j])
    BY <2>1, <1>1 DEF Sound, Core, Heard, Tokens
  <2>3. Announces(s, b, s.selected)
    BY <2>1, <1>1 DEF Sound, Core, Heard, Tokens
  <2>4. b.intent # 0 => s.startup.retired /\ \A i \in Ends : ~s.startup.pending[i]
    BY DEF Sound, Core, Heard
  <2> QED
    BY <2>2, <2>3, <2>4 DEF Sound, Core, Heard
<1> QED
  BY <1>2, <1>3 DEF Sound, Core

\* A store in which no boot observation is pending any more.
Retire(s) == [s EXCEPT !.startup.retired = TRUE, !.startup.pending = [i \in {0, 1} |-> FALSE]]

LEMMA RetireSound ==
  ASSUME NEW s \in Stores, NEW a, Sound(s, a)
  PROVE /\ Retire(s) \in Stores /\ Sound(Retire(s), a)
        /\ Retire(s).startup.retired /\ \A i \in Ends : ~Retire(s).startup.pending[i]
        /\ Retire(s).serial = s.serial
<1> DEFINE b == [s.startup EXCEPT !.retired = TRUE, !.pending = [i \in Ends |-> FALSE]]
           t == [s EXCEPT !.startup = b]
<1>1. s.startup \in Startups /\ s.startup = s.startup
  BY DEF Stores
<1>2. /\ b \in Startups /\ b.retired /\ b.tok = s.startup.tok /\ b.scheduled = s.startup.scheduled
      /\ \A i \in Ends : ~b.pending[i]
  BY <1>1 DEF Startups, Ends
<1>3. Retire(s) = t
  BY <1>1 DEF Retire, Ends, Stores, Startups
<1> HIDE DEF b
<1>4. /\ t \in Stores /\ t.queue = s.queue /\ t.ops = s.ops /\ t.states = s.states /\ t.nextOp = s.nextOp
      /\ t.serial = s.serial /\ t.startup = b /\ t.nonce = s.nonce /\ t.selected = s.selected
  BY <1>2 DEF Stores
<1> HIDE DEF t
<1>6. Lessened(s, t)
  BY <1>2, <1>4, SameShapes, AlikeItself DEF Lessened
<1> QED
  BY <1>2, <1>3, <1>4, <1>6, LessenedSound

LEMMA NoticeTaken ==
  ASSUME NEW s \in Stores, NEW a, Sound(s, a),
         NEW ev \in (PowerEvents \ {"BOOT", "WATCHDOG"}) \cup {"BUTTON"}
  PROVE LET t == Record(s, Materialize(s, 0, ev, NoValue, NoticeCopies))
        IN  t \in Stores /\ Sound(t, a)
<1> DEFINE r == Materialize(s, 0, ev, NoValue, NoticeCopies)
<1>1. /\ r \in Recs /\ r.tok = s.serial + 1 /\ r.op = 0 /\ r.ev = ev
      /\ r.limit = NoticeCopies /\ r.copies = 0
  <2>1. ev \in Kinds /\ 0 \in Nat /\ NoticeCopies \in Nat /\ NoValue \in Values
    BY NoRecIs, Sizes DEF Kinds
  <2> QED
    BY <2>1, MaterializeIs
<1>2. s.nextOp \in Nat /\ \A e \in Closers(s, a) : e[1] # 0
  BY DEF Stores, Sound, Core, Closed, Closes
<1>3. ev \notin {"BOOT", "WATCHDOG", "END"} /\ ev \notin Rests
  BY DEF PowerEvents, Rests
<1> HIDE DEF r
<1>4. Telemetry(s, a, r)
  BY <1>1, <1>2, <1>3, Sizes DEF Telemetry, Youngest, Rests
<1> QED
  BY <1>4, TakenSound DEF r

LEMMA PostedSound ==
  ASSUME NEW s \in Stores, NEW a, NEW b, Sound(s, a),
         NEW ev \in (PowerEvents \ {"BOOT", "WATCHDOG"}) \cup {"BUTTON"},
         b.boots = a.boots, b.ended = a.ended,
         b.intent = IF ev \in Urgent /\ a.intent = 0 THEN s.serial + 1 ELSE a.intent
  PROVE Posted(s, ev) \in Stores /\ Sound(Posted(s, ev), b)
<1> DEFINE u == IF ev \in Urgent THEN Retire(s) ELSE s
           v == IF ev = "WOM_CANCELLED" THEN RetractWarnings(u) ELSE u
<1>1. u \in Stores /\ Sound(u, a) /\ u.serial = s.serial
      /\ (ev \in Urgent => u.startup.retired /\ \A i \in Ends : ~u.startup.pending[i])
  BY RetireSound
<1>2. Sound(u, b)
  BY <1>1, AirSound
<1>3. Posted(s, ev) = Record(v, Materialize(v, 0, ev, NoValue, NoticeCopies))
  BY DEF Posted, Retire
<1> HIDE DEF u
<1>4. v \in Stores /\ Sound(v, b)
  BY <1>1, <1>2, RetractSound
<1> HIDE DEF v
<1> QED
  BY <1>3, <1>4, NoticeTaken

LEMMA ScheduleSound ==
  ASSUME NEW s \in Stores, NEW a, Sound(s, a), ~s.startup.scheduled, ~s.startup.retired,
         NEW watchdog \in BOOLEAN
  PROVE LET t == [s EXCEPT !.startup = [scheduled |-> TRUE, retired |-> FALSE, in |-> BootDelay,
                                        pending |-> [i \in {0, 1} |-> i = 0 \/ watchdog],
                                        tok |-> @.tok],
                           !.notify = TRUE]
        IN  t \in Stores /\ Sound(t, a) /\ Keeping(s, t)
<1> DEFINE b == [scheduled |-> TRUE, retired |-> FALSE, in |-> BootDelay,
                 pending |-> [i \in {0, 1} |-> i = 0 \/ watchdog], tok |-> s.startup.tok]
           t == [s EXCEPT !.startup = b, !.notify = TRUE]
<1>1. s.startup \in Startups /\ BootDelay \in Nat
  BY SizesAssumption DEF Stores
<1>2. b \in Startups /\ b.scheduled /\ ~b.retired /\ b.tok = s.startup.tok
  BY <1>1 DEF Startups, Ends
<1> HIDE DEF b
<1>3. /\ t \in Stores /\ t.queue = s.queue /\ t.ops = s.ops /\ t.states = s.states /\ t.nextOp = s.nextOp
      /\ t.serial = s.serial /\ t.startup = b /\ t.nonce = s.nonce /\ t.selected = s.selected
  BY <1>2 DEF Stores
<1> HIDE DEF t
<1>4. Tokens(t) /\ Unspent(t) /\ OpsShape(t) /\ StatesShape(t) /\ Kept(t) /\ Closed(t, a)
  BY <1>3 DEF Sound, Core, Tokens, Unspent, OpsShape, OpShape, StatesShape, Kept, Closed, Closes, Closers
<1>5. /\ \A i \in Ends : ~s.startup.pending[i] /\ s.startup.tok[i] = 0
      /\ \A i \in Ends : a.boots[i] = {} /\ a.intent = 0
  BY DEF Sound, Core, Boots, Heard
<1>6. Boots(t)
  BY <1>2, <1>3, <1>5 DEF Boots
<1>7. Heard(t, a)
  <2>1. ASSUME NEW r, Announces(s, a, r) PROVE Announces(t, a, r)
    BY <2>1, <1>2, <1>3 DEF Announces
  <2> QED
    BY <2>1, <1>3, <1>5 DEF Sound, Core, Heard
<1>8. Sound(t, a)
  BY <1>4, <1>6, <1>7 DEF Sound, Core
<1>9. t \in Stores /\ Keeping(s, t)
  BY <1>3, SameKeeping
<1> QED
  BY <1>8, <1>9 DEF t, b

-----------------------------------------------------------------------------
(* The states *)

\* x may stand for the state i.
SlotFits(s, i, x) ==
    /\ x \in Slots
    /\ Valid(x.published) => /\ x.published.limit = NoticeCopies /\ x.published.op = 0
                             /\ x.published.ev = RestOf(i) /\ x.published.tok <= s.serial
WithSlot(s, i, x, notify) == [s EXCEPT !.states = [s.states EXCEPT ![i] = x], !.notify = notify]

\* t differs from s in its states and its flag only.
StatesOnly(s, t) ==
    /\ t \in Stores
    /\ t.queue = s.queue /\ t.ops = s.ops /\ t.selected = s.selected /\ t.startup = s.startup
    /\ t.nonce = s.nonce /\ t.serial = s.serial /\ t.nextOp = s.nextOp /\ t.gate = s.gate

\* t is s with x for the state i, and as sound.
Slotted(s, t, i, x, a) ==
    /\ Sound(t, a) /\ SlotFits(s, i, x) /\ StatesOnly(s, t)
    /\ t.states = [s.states EXCEPT ![i] = x] /\ t.states[i] = x
    /\ \A j \in Ends \ {i} : t.states[j] = s.states[j]

LEMMA WithSlotIs ==
  ASSUME NEW s \in Stores, NEW i \in Ends, NEW x \in Slots, NEW b \in BOOLEAN
  PROVE LET t == WithSlot(s, i, x, b)
        IN  /\ StatesOnly(s, t) /\ t.notify = b
            /\ t.states = [s.states EXCEPT ![i] = x] /\ t.states[i] = x
            /\ \A j \in Ends \ {i} : t.states[j] = s.states[j]
<1>1. s.states \in [Ends -> Slots]
  BY DEF Stores
<1>2. /\ [s.states EXCEPT ![i] = x] \in [Ends -> Slots] /\ [s.states EXCEPT ![i] = x][i] = x
      /\ \A j \in Ends \ {i} : [s.states EXCEPT ![i] = x][j] = s.states[j]
  BY <1>1
<1> DEFINE f == [s.states EXCEPT ![i] = x]
           t == WithSlot(s, i, x, b)
<1>3. t = [s EXCEPT !.states = f, !.notify = b]
  BY DEF WithSlot
<1> HIDE DEF f, t
<1>4. t \in Stores /\ t.states = f /\ t.notify = b
  BY <1>2, <1>3 DEF Stores, f
<1>5. StatesOnly(s, t)
  BY <1>3, <1>4 DEF StatesOnly, Stores
<1> QED
  BY <1>2, <1>4, <1>5 DEF f, t

LEMMA SlotSound ==
  ASSUME NEW s \in Stores, NEW i \in Ends, NEW x, NEW b \in BOOLEAN, NEW a, SlotFits(s, i, x), Sound(s, a)
  PROVE Slotted(s, WithSlot(s, i, x, b), i, x, a) /\ WithSlot(s, i, x, b).notify = b
<1> DEFINE t == WithSlot(s, i, x, b)
<1>1. x \in Slots
  BY DEF SlotFits
<1>2. /\ StatesOnly(s, t) /\ t.notify = b
      /\ t.states = [s.states EXCEPT ![i] = x] /\ t.states[i] = x
      /\ \A j \in Ends \ {i} : t.states[j] = s.states[j]
  BY <1>1, WithSlotIs
<1> HIDE DEF t
<1>3. StatesShape(t) /\ \A j \in Ends : t.states[j].published.tok <= t.serial
  <2>0. s.serial \in Nat /\ x.published.tok \in Nat
    BY <1>1 DEF Stores, Slots, Recs
  <2>1. ASSUME NEW j \in Ends
        PROVE LET r == t.states[j].published
              IN  (Valid(r) => r.limit = NoticeCopies /\ r.op = 0 /\ r.ev = RestOf(j)) /\ r.tok <= t.serial
    <3>1. CASE j = i
      BY <3>1, <1>2, <2>0 DEF SlotFits, StatesOnly, Valid
    <3>2. CASE j # i
      BY <3>2, <1>2 DEF Sound, Core, StatesShape, Kept, StatesOnly
    <3> QED
      BY <3>1, <3>2
  <2> QED
    BY <2>1 DEF StatesShape
<1>4. Tokens(t) /\ Unspent(t) /\ OpsShape(t) /\ Boots(t) /\ Heard(t, a) /\ Closed(t, a)
  BY <1>2 DEF Sound, Core, StatesOnly, Tokens, Unspent, OpsShape, OpShape, Boots, Heard, Announces,
              Closed, Closes, Closers
<1>5. Kept(t)
  BY <1>2, <1>3 DEF Sound, Kept, StatesOnly
<1>6. Slotted(s, t, i, x, a)
  BY <1>2, <1>3, <1>4, <1>5 DEF Slotted, Sound, Core
<1> QED
  BY <1>2, <1>6 DEF t

\* A state as it is fits.
LEMMA SlotFitsItself ==
  ASSUME NEW s \in Stores, NEW i \in Ends, NEW a, Sound(s, a)
  PROVE /\ SlotFits(s, i, s.states[i]) /\ s.states[i] \in Slots
        /\ Slotted(s, s, i, s.states[i], a)
<1>1. s.states \in [Ends -> Slots] /\ s.states[i] \in Slots
  BY DEF Stores
<1>2. SlotFits(s, i, s.states[i])
  BY <1>1 DEF Sound, Core, StatesShape, Kept, SlotFits
<1>3. s.states = [s.states EXCEPT ![i] = s.states[i]]
  BY <1>1
<1> QED
  BY <1>1, <1>2, <1>3 DEF Slotted, StatesOnly

\* What SetState makes of the state x.
SlotSet(x, val) ==
    CASE x.candidate /\ x.val = val -> x
      [] ~(x.candidate /\ x.val = val) /\ Valid(x.published) /\ x.published.val = val ->
            [x EXCEPT !.candidate = FALSE, !.val = val]
      [] OTHER -> [x EXCEPT !.val = val, !.candidate = TRUE, !.published.copies = x.published.limit]
\* It gives no notice where nothing new is to be sent.
SlotQuiet(x, val) ==
    \/ x.candidate /\ x.val = val
    \/ Valid(x.published) /\ x.published.val = val

LEMMA SlotSetIs ==
  ASSUME NEW x \in Slots, NEW val \in Values
  PROVE LET y == SlotSet(x, val)
        IN  /\ y \in Slots /\ y.observed = x.observed /\ y.seen = x.seen
            /\ y.publishAge = x.publishAge /\ y.sentAge = x.sentAge
            /\ y.val = val
            /\ y.published.tok = x.published.tok /\ y.published.ev = x.published.ev
            /\ y.published.op = x.published.op /\ y.published.limit = x.published.limit
            /\ y.published.val = x.published.val
            /\ y.candidate <=> (x.candidate /\ x.val = val) \/ ~SlotQuiet(x, val)
            /\ y.published.copies = IF SlotQuiet(x, val) THEN x.published.copies ELSE x.published.limit
<1>1. CASE x.candidate /\ x.val = val
  BY <1>1 DEF SlotSet, SlotQuiet, Slots
<1>2. CASE ~(x.candidate /\ x.val = val) /\ Valid(x.published) /\ x.published.val = val
  BY <1>2 DEF SlotSet, SlotQuiet, Slots, Values
<1>3. CASE ~(x.candidate /\ x.val = val) /\ ~(Valid(x.published) /\ x.published.val = val)
  <2> DEFINE p == [x.published EXCEPT !.copies = x.published.limit]
             y == [x EXCEPT !.val = val, !.candidate = TRUE, !.published = p]
  <2>1. SlotSet(x, val) = y
    BY <1>3 DEF SlotSet, Slots
  <2>2. x.published \in Recs /\ x.published.limit \in Nat
    BY DEF Slots, Recs
  <2>3. /\ p \in Recs /\ p.tok = x.published.tok /\ p.ev = x.published.ev /\ p.op = x.published.op
        /\ p.limit = x.published.limit /\ p.val = x.published.val /\ p.copies = x.published.limit
    BY <2>2 DEF Recs
  <2> HIDE DEF p
  <2>4. /\ y \in Slots /\ y.observed = x.observed /\ y.seen = x.seen
        /\ y.publishAge = x.publishAge /\ y.sentAge = x.sentAge /\ y.val = val /\ y.candidate
        /\ y.published = p
    BY <2>3 DEF Slots
  <2> QED
    BY <2>1, <2>3, <2>4, <1>3 DEF SlotQuiet
<1> QED
  BY <1>1, <1>2, <1>3

LEMMA SetStateIs ==
  ASSUME NEW s \in Stores, NEW i \in Ends, NEW val \in Values
  PROVE SetState(s, i, val)
          = WithSlot(s, i, SlotSet(s.states[i], val), s.notify \/ ~SlotQuiet(s.states[i], val))
<1> DEFINE x == s.states[i]
<1>0. s.states \in [Ends -> Slots] /\ x \in Slots /\ s.notify \in BOOLEAN /\ x.published \in Recs
  BY DEF Stores, Slots
<1>1. CASE x.candidate /\ x.val = val
  <2>1. SlotSet(x, val) = x /\ SlotQuiet(x, val) /\ SetState(s, i, val) = s
    BY <1>1 DEF SlotSet, SlotQuiet, SetState
  <2>2. s.states = [s.states EXCEPT ![i] = x]
    BY <1>0
  <2>3. s = [s EXCEPT !.states = s.states, !.notify = s.notify]
    BY DEF Stores
  <2> QED
    BY <1>0, <2>1, <2>2, <2>3 DEF WithSlot
<1>2. CASE ~(x.candidate /\ x.val = val) /\ Valid(x.published) /\ x.published.val = val
  <2>1. SlotSet(x, val) = [x EXCEPT !.candidate = FALSE, !.val = val] /\ SlotQuiet(x, val)
    BY <1>2 DEF SlotSet, SlotQuiet
  <2>2. SetState(s, i, val) = [s EXCEPT !.states[i].candidate = FALSE, !.states[i].val = val]
    BY <1>2 DEF SetState
  <2> DEFINE y == [x EXCEPT !.candidate = FALSE, !.val = val]
  <2>3. [s EXCEPT !.states[i].candidate = FALSE, !.states[i].val = val]
          = [s EXCEPT !.states = [s.states EXCEPT ![i] = y]]
    BY <1>0 DEF Stores, Slots
  <2>4. (s.notify \/ ~SlotQuiet(x, val)) = s.notify
    BY <1>0, <2>1
  <2> HIDE DEF y
  <2>5. [s EXCEPT !.states = [s.states EXCEPT ![i] = y]]
          = [s EXCEPT !.states = [s.states EXCEPT ![i] = y], !.notify = s.notify]
    BY DEF Stores
  <2>6. SlotSet(x, val) = y
    BY <2>1 DEF y
  <2> QED
    BY <2>2, <2>3, <2>4, <2>5, <2>6 DEF WithSlot
<1>3. CASE ~(x.candidate /\ x.val = val) /\ ~(Valid(x.published) /\ x.published.val = val)
  <2>1. /\ SlotSet(x, val) = [x EXCEPT !.val = val, !.candidate = TRUE,
                                       !.published.copies = x.published.limit]
        /\ ~SlotQuiet(x, val)
    BY <1>3 DEF SlotSet, SlotQuiet
  <2> DEFINE y == [x EXCEPT !.val = val, !.candidate = TRUE, !.published.copies = x.published.limit]
  <2>2. SetState(s, i, val) = [s EXCEPT !.states[i] = y, !.notify = TRUE]
    BY <1>3 DEF SetState
  <2>4. (s.notify \/ ~SlotQuiet(x, val)) = TRUE
    BY <1>0, <2>1
  <2> HIDE DEF y
  <2>6. SlotSet(x, val) = y
    BY <2>1 DEF y
  <2> QED
    BY <2>2, <2>4, <2>6 DEF WithSlot
<1> QED
  BY <1>1, <1>2, <1>3

LEMMA SetFits ==
  ASSUME NEW s, NEW i \in Ends, NEW x, NEW val \in Values, SlotFits(s, i, x)
  PROVE SlotFits(s, i, SlotSet(x, val))
<1>1. x \in Slots
  BY DEF SlotFits
<1> QED
  BY <1>1, SlotSetIs DEF SlotFits, Valid

\* t differs from s in nothing an invariant speaks of.
LEMMA SameSound ==
  ASSUME NEW s, NEW t, NEW a, Sound(s, a), t.queue = s.queue, t.ops = s.ops, t.states = s.states,
         t.startup = s.startup, t.nonce = s.nonce, t.serial = s.serial, t.nextOp = s.nextOp,
         t.selected = s.selected
  PROVE Sound(t, a)
BY DEF Sound, Core, Tokens, Unspent, OpsShape, OpShape, StatesShape, Kept, Boots, Heard, Announces,
       Closed, Closes, Closers

LEMMA SetSound ==
  ASSUME NEW s \in Stores, NEW a, Sound(s, a), NEW i \in Ends, NEW val \in Values
  PROVE LET t == SetState(s, i, val)
        IN  /\ Slotted(s, t, i, SlotSet(s.states[i], val), a)
            /\ t.notify = (s.notify \/ ~SlotQuiet(s.states[i], val))
<1> DEFINE x == s.states[i]
           y == SlotSet(x, val)
           b == s.notify \/ ~SlotQuiet(x, val)
<1>1. SlotFits(s, i, y)
  BY SlotFitsItself, SetFits
<1>2. b \in BOOLEAN
  BY DEF Stores
<1>3. SetState(s, i, val) = WithSlot(s, i, y, b)
  BY SetStateIs
<1> HIDE DEF y, b
<1>4. Slotted(s, WithSlot(s, i, y, b), i, y, a) /\ WithSlot(s, i, y, b).notify = b
  BY <1>1, <1>2, SlotSound
<1> QED
  BY <1>3, <1>4 DEF y, b

LEMMA SlottedTwice ==
  ASSUME NEW s \in Stores, NEW u, NEW t, NEW i \in Ends, NEW x, NEW y, NEW a,
         Slotted(s, u, i, x, a), Slotted(u, t, i, y, a)
  PROVE Slotted(s, t, i, y, a)
<1>1. s.states \in [Ends -> Slots]
  BY DEF Stores
<1>2. t.states = [s.states EXCEPT ![i] = y]
  BY <1>1 DEF Slotted
<1>3. SlotFits(s, i, y)
  BY DEF Slotted, SlotFits, StatesOnly
<1> QED
  BY <1>2, <1>3 DEF Slotted, StatesOnly

LEMMA SlottedKeeping ==
  ASSUME NEW s \in Stores, NEW t, NEW i, NEW x, NEW a, Slotted(s, t, i, x, a)
  PROVE t \in Stores /\ Sound(t, a) /\ Keeping(s, t)
BY SameKeeping DEF Slotted, StatesOnly

\* A state is changed, then set.
Reset(x, observed, seen, published, candidate) ==
    [x EXCEPT !.observed = observed, !.seen = seen, !.published = published, !.candidate = candidate]

LEMMA ResetIs ==
  ASSUME NEW s, NEW i, NEW x \in Slots, SlotFits(s, i, x), NEW o \in BOOLEAN, NEW n \in Nat,
         NEW p \in {x.published, NoRec}, NEW c \in BOOLEAN
  PROVE LET y == Reset(x, o, n, p, c)
        IN  /\ SlotFits(s, i, y) /\ y.observed = o /\ y.seen = n /\ y.published = p /\ y.candidate = c
            /\ y.val = x.val /\ y.publishAge = x.publishAge /\ y.sentAge = x.sentAge
<1>1. p \in Recs
  BY NoRecIs DEF Slots
<1>2. LET y == Reset(x, o, n, p, c)
      IN  /\ y \in Slots /\ y.observed = o /\ y.seen = n /\ y.published = p /\ y.candidate = c
          /\ y.val = x.val /\ y.publishAge = x.publishAge /\ y.sentAge = x.sentAge
  BY <1>1 DEF Slots, Reset
<1> QED
  BY <1>2, NoRecIs DEF SlotFits

LEMMA ResetSet ==
  ASSUME NEW s \in Stores, NEW a, Sound(s, a), NEW i \in Ends, NEW val \in Values, NEW y, SlotFits(s, i, y)
  PROVE LET u == WithSlot(s, i, y, s.notify)
            t == SetState(u, i, val)
        IN  /\ Slotted(s, u, i, y, a) /\ u.notify = s.notify
            /\ Slotted(s, t, i, SlotSet(y, val), a) /\ t.notify = (s.notify \/ ~SlotQuiet(y, val))
<1> DEFINE u == WithSlot(s, i, y, s.notify)
           t == SetState(u, i, val)
<1>1. s.notify \in BOOLEAN
  BY DEF Stores
<1>2. Slotted(s, u, i, y, a) /\ u.notify = s.notify
  BY <1>1, SlotSound
<1> HIDE DEF u
<1>3. u \in Stores /\ Sound(u, a) /\ u.states[i] = y
  BY <1>2 DEF Slotted, StatesOnly
<1>4. Slotted(u, t, i, SlotSet(y, val), a) /\ t.notify = (u.notify \/ ~SlotQuiet(y, val))
  BY <1>3, SetSound
<1> HIDE DEF t
<1>5. Slotted(s, t, i, SlotSet(y, val), a)
  BY <1>2, <1>4, SlottedTwice
<1> QED
  BY <1>2, <1>4, <1>5 DEF t, u

Watched(x) == Reset(x, TRUE, 0, x.published, x.candidate)
Unwatched(x) == Reset(x, FALSE, x.seen, x.published, x.candidate)
Emptied(x) == Reset(x, FALSE, x.seen, NoRec, FALSE)

LEMMA SeenSound ==
  ASSUME NEW s \in Stores, NEW a, Sound(s, a), NEW i \in Ends, NEW val \in Values
  PROVE LET y == Watched(s.states[i])
            t == Seen(s, i, val)
        IN  /\ SlotFits(s, i, y)
            /\ Slotted(s, t, i, SlotSet(y, val), a) /\ t.notify = (s.notify \/ ~SlotQuiet(y, val))
<1> DEFINE x == s.states[i]
           y == Watched(x)
<1>1. SlotFits(s, i, x) /\ x \in Slots /\ s.states \in [Ends -> Slots] /\ x.candidate \in BOOLEAN
  BY SlotFitsItself DEF Stores, Slots
<1>2. SlotFits(s, i, y)
  BY <1>1, ResetIs DEF Watched
<1>3. [s EXCEPT !.states[i].observed = TRUE, !.states[i].seen = 0] = WithSlot(s, i, y, s.notify)
  BY <1>1 DEF Stores, Slots, WithSlot, Watched, Reset
<1> HIDE DEF y
<1>4. LET t == SetState(WithSlot(s, i, y, s.notify), i, val)
      IN  Slotted(s, t, i, SlotSet(y, val), a) /\ t.notify = (s.notify \/ ~SlotQuiet(y, val))
  BY <1>2, ResetSet
<1> QED
  BY <1>2, <1>3, <1>4 DEF Seen, y

LEMMA UnwatchedIs ==
  ASSUME NEW s \in Stores, NEW a, Sound(s, a), NEW i \in Ends
  PROVE LET y == Unwatched(s.states[i])
        IN  /\ SlotFits(s, i, y)
            /\ [s EXCEPT !.states[i].observed = FALSE] = WithSlot(s, i, y, s.notify)
<1> DEFINE x == s.states[i]
           y == Unwatched(x)
<1>1. SlotFits(s, i, x) /\ x \in Slots /\ s.states \in [Ends -> Slots] /\ x.candidate \in BOOLEAN
      /\ x.seen \in Nat
  BY SlotFitsItself DEF Stores, Slots
<1>2. SlotFits(s, i, y)
  BY <1>1, ResetIs DEF Unwatched
<1>3. [s EXCEPT !.states[i].observed = FALSE] = WithSlot(s, i, y, s.notify)
  BY <1>1 DEF Stores, Slots, WithSlot, Unwatched, Reset
<1> QED
  BY <1>2, <1>3

LEMMA InvalidatedSound ==
  ASSUME NEW s \in Stores, NEW a, Sound(s, a), NEW i \in Ends
  PROVE LET t == Invalidated(s, i)
            y == Emptied(s.states[i])
        IN  /\ SlotFits(s, i, y)
            /\ \/ Slotted(s, t, i, y, a) /\ s.nonce = 0
               \/ /\ s.nonce # 0 /\ t.notify
                  /\ \E val \in Values : val[1] = 2 /\ Slotted(s, t, i, SlotSet(y, val), a)
<1> DEFINE x == s.states[i]
           y == Emptied(x)
           u == WithSlot(s, i, y, s.notify)
           val == <<2, IF i = 1 THEN s.states[1].val[2] ELSE 1>>
<1>1. SlotFits(s, i, x) /\ x \in Slots /\ s.states \in [Ends -> Slots] /\ x.seen \in Nat
      /\ s.states[1].val \in Values
  BY SlotFitsItself DEF Stores, Slots, Ends
<1>2. SlotFits(s, i, y) /\ y.published = NoRec /\ ~y.candidate
  <2>2. y \in Slots /\ y.published = NoRec /\ ~y.candidate
    BY <1>1, NoRecIs DEF Emptied, Reset, Slots
  <2> QED
    BY <2>2, NoRecIs DEF SlotFits
<1>3. [s EXCEPT !.states[i].observed = FALSE, !.states[i].published = NoRec,
                !.states[i].candidate = FALSE] = u
  BY <1>1 DEF Stores, Slots, WithSlot, Emptied, Reset
<1>4. val \in Values /\ val[1] = 2
  BY <1>1 DEF Values
<1>5. Invalidated(s, i) = IF s.nonce = 0 THEN u ELSE SetState(u, i, val)
  BY <1>3 DEF Invalidated
<1> HIDE DEF y, val
<1>6. /\ Slotted(s, u, i, y, a)
      /\ Slotted(s, SetState(u, i, val), i, SlotSet(y, val), a)
      /\ SetState(u, i, val).notify = (s.notify \/ ~SlotQuiet(y, val))
  BY <1>2, <1>4, ResetSet
<1>7. ~SlotQuiet(y, val)
  BY <1>2, NoRecIs DEF SlotQuiet
<1> QED
  BY <1>2, <1>4, <1>5, <1>6, <1>7 DEF y

LEMMA ObservedSound ==
  ASSUME NEW s \in Stores, NEW a, Sound(s, a), NEW o
  PROVE Observed(s, o) \in Stores /\ Sound(Observed(s, o), a) /\ Keeping(s, Observed(s, o))
<1> DEFINE t == IF o.tracker = "none" THEN s ELSE Seen(s, 0, <<IF o.tracker = "rest" THEN 1 ELSE 0, 0>>)
<1>1. t \in Stores /\ Sound(t, a) /\ Keeping(s, t)
  <2>1. <<IF o.tracker = "rest" THEN 1 ELSE 0, 0>> \in Values /\ 0 \in Ends
    BY DEF Values, Ends
  <2> QED
    BY <2>1, SeenSound, SlottedKeeping, SameKeeping
<1>2. Observed(s, o) =
        CASE o.fusion = "unsupported" -> SetState([t EXCEPT !.states[1].observed = FALSE], 1, <<3, 0>>)
          [] o.fusion = "none" -> t
          [] OTHER -> Seen(t, 1, <<IF o.fusion = "rest" THEN 1 ELSE 0, 1>>)
  BY DEF Observed
<1> HIDE DEF t
<1>3. <<IF o.fusion = "rest" THEN 1 ELSE 0, 1>> \in Values /\ <<3, 0>> \in Values /\ 1 \in Ends
  BY DEF Values, Ends
<1>4. CASE o.fusion = "unsupported"
  <2> DEFINE u == SetState([t EXCEPT !.states[1].observed = FALSE], 1, <<3, 0>>)
  <2>0. /\ SlotFits(t, 1, Unwatched(t.states[1]))
        /\ [t EXCEPT !.states[1].observed = FALSE] = WithSlot(t, 1, Unwatched(t.states[1]), t.notify)
    BY <1>1, <1>3, UnwatchedIs
  <2>1. u \in Stores /\ Sound(u, a) /\ Keeping(s, u)
    <3> DEFINE y == Unwatched(t.states[1])
               n == <<3, 0>>
               w == SetState(WithSlot(t, 1, y, t.notify), 1, n)
    <3> HIDE DEF y, n
    <3>1. SlotFits(t, 1, y) /\ n \in Values /\ u = w
      BY <1>3, <2>0 DEF y, n
    <3>2. Slotted(t, w, 1, SlotSet(y, n), a)
      BY <1>1, <1>3, <3>1, ResetSet
    <3>3. w \in Stores /\ Sound(w, a) /\ Keeping(t, w)
      BY <1>1, <3>2, SlottedKeeping
    <3> QED
      BY <1>1, <3>1, <3>3, KeepingTwice
  <2> QED
    BY <2>1, <1>2, <1>4
<1>5. CASE o.fusion = "none"
  BY <1>1, <1>2, <1>5
<1>6. CASE o.fusion # "unsupported" /\ o.fusion # "none"
  <2> DEFINE w == Seen(t, 1, <<IF o.fusion = "rest" THEN 1 ELSE 0, 1>>)
  <2>1. w \in Stores /\ Sound(w, a) /\ Keeping(t, w)
    BY <1>1, <1>3, SeenSound, SlottedKeeping
  <2>2. Observed(s, o) = w
    BY <1>2, <1>6
  <2> HIDE DEF w
  <2> QED
    BY <1>1, <2>1, <2>2, KeepingTwice
<1> QED
  BY <1>4, <1>5, <1>6

LEMMA InvalidateSound ==
  ASSUME NEW s \in Stores, NEW a, Sound(s, a)
  PROVE LET t == [Invalidated(Invalidated(s, 0), 1) EXCEPT !.epoch = @ + 1]
        IN  t \in Stores /\ Sound(t, a) /\ Keeping(s, t)
<1>0. 0 \in Ends /\ 1 \in Ends
  BY DEF Ends
<1>1. Invalidated(s, 0) \in Stores /\ Sound(Invalidated(s, 0), a) /\ Keeping(s, Invalidated(s, 0))
  BY <1>0, InvalidatedSound, SlottedKeeping
<1> DEFINE u == Invalidated(s, 0)
           v == Invalidated(u, 1)
           t == [v EXCEPT !.epoch = @ + 1]
<1> HIDE DEF u
<1>2. v \in Stores /\ Sound(v, a) /\ Keeping(u, v)
  BY <1>0, <1>1, InvalidatedSound, SlottedKeeping DEF u
<1> HIDE DEF v
<1>3. /\ t \in Stores /\ t.queue = v.queue /\ t.ops = v.ops /\ t.states = v.states
      /\ t.startup = v.startup /\ t.nonce = v.nonce /\ t.serial = v.serial /\ t.nextOp = v.nextOp
      /\ t.selected = v.selected
  BY <1>2 DEF Stores
<1> HIDE DEF t
<1>4. Sound(t, a)
  BY <1>2, <1>3, SameSound
<1>5. Keeping(s, t)
  <2>1. u \in Stores /\ Keeping(s, u)
    BY <1>1 DEF u
  <2>2. Keeping(v, t)
    BY <1>2, <1>3, SameKeeping
  <2>3. Keeping(s, v)
    BY <1>2, <2>1, KeepingTwice
  <2> QED
    BY <1>2, <1>3, <2>2, <2>3, KeepingTwice
<1> QED
  BY <1>3, <1>4, <1>5 DEF t, v, u

-----------------------------------------------------------------------------
(* Maintenance *)

\* t is s in everything that decides what is due at an operation or a state.
StartupOnly(s, t) ==
    /\ t.ops = s.ops /\ t.states = s.states /\ t.selected = s.selected
    /\ t.nonce = s.nonce /\ t.nextOp = s.nextOp /\ t.gate = s.gate
    /\ t.startup.pending = s.startup.pending /\ t.startup.in = s.startup.in
    /\ t.startup.scheduled = s.startup.scheduled /\ t.startup.retired = s.startup.retired

\* The observation r of the boot i has its token.
Announced(s, u, i, r) ==
    /\ s \in Stores /\ u \in Stores /\ i \in Ends /\ r \in Recs /\ StartupDue(s, i)
    /\ u.queue = s.queue /\ StartupOnly(s, u) /\ u.serial = s.serial
    /\ u.startup.tok = [s.startup.tok EXCEPT ![i] = r.tok]
    /\ r.tok = s.serial + 1 /\ r.op = 0 /\ r.ev = BootOf(i) /\ r.limit = NoticeCopies /\ r.copies = 0
    /\ r.nonce = s.nonce

LEMMA AnnouncedIs ==
  ASSUME NEW s \in Stores, NEW i \in Ends, StartupDue(s, i)
  PROVE \E u, r : Announced(s, u, i, r) /\ Announce(s, i) = Record(u, r)
<1> DEFINE r == Materialize(s, 0, BootOf(i), NoValue, NoticeCopies)
           u == [s EXCEPT !.startup.tok[i] = r.tok]
           b == [s.startup EXCEPT !.tok = [s.startup.tok EXCEPT ![i] = r.tok]]
<1>1. Announce(s, i) = Record(u, r)
  BY DEF Announce, BootOf
<1>2. /\ r \in Recs /\ r.tok = s.serial + 1 /\ r.op = 0 /\ r.ev = BootOf(i)
      /\ r.limit = NoticeCopies /\ r.copies = 0 /\ r.nonce = s.nonce
  <2>1. BootOf(i) \in Kinds /\ 0 \in Nat /\ NoticeCopies \in Nat /\ NoValue \in Values
    BY NoRecIs, Sizes DEF Kinds, BootOf, PowerEvents
  <2> QED
    BY <2>1, MaterializeIs
<1>3. s.startup \in Startups /\ s.startup.tok \in [Ends -> Nat] /\ r.tok \in Nat
  BY <1>2 DEF Stores, Startups, Recs
<1> HIDE DEF r
<1>4. u = [s EXCEPT !.startup = b]
  BY <1>3 DEF Stores, Startups
<1>5. /\ b \in Startups /\ b.pending = s.startup.pending /\ b.in = s.startup.in
      /\ b.scheduled = s.startup.scheduled /\ b.retired = s.startup.retired
      /\ b.tok = [s.startup.tok EXCEPT ![i] = r.tok]
  BY <1>3 DEF Startups
<1> HIDE DEF b, u
<1>6. u \in Stores /\ u.queue = s.queue /\ u.serial = s.serial /\ u.startup = b /\ StartupOnly(s, u)
  BY <1>4, <1>5 DEF Stores, StartupOnly
<1>7. Announced(s, u, i, r)
  BY <1>2, <1>5, <1>6 DEF Announced
<1> QED
  BY <1>1, <1>7

LEMMA AnnouncedTakes ==
  ASSUME NEW s, NEW u, NEW i, NEW r, NEW a, Announced(s, u, i, r), Sound(s, a)
  PROVE LET t == Record(u, r)
        IN  /\ Took(u, t, r) /\ Tokens(t) /\ Unspent(t) /\ Closed(t, a)
            /\ \E j \in Queue : t.queue[j] = r
            /\ \A j \in Queue : t.queue[j] \in {r, s.queue[j]}
            /\ \A k \in Ends \ {i}, j \in Queue :
                  s.startup.pending[k] /\ s.startup.tok[k] # 0 /\ s.queue[j].tok = s.startup.tok[k]
                     => t.queue[j] = s.queue[j]
<1> DEFINE t == Record(u, r)
<1>0. /\ s \in Stores /\ u \in Stores /\ i \in Ends /\ r \in Recs /\ s.serial \in Nat
      /\ u.queue = s.queue /\ u.serial = s.serial /\ u.selected = s.selected /\ u.nextOp = s.nextOp
      /\ u.ops = s.ops /\ u.startup.pending = s.startup.pending
      /\ \A k \in Ends \ {i} : u.startup.tok[k] = s.startup.tok[k]
  BY DEF Announced, StartupOnly, Stores, Startups
<1>1. Tokens(u) /\ Closed(u, a)
  BY <1>0 DEF Sound, Core, Tokens, Closed, Closes, Closers
<1>2. Took(u, t, r)
  BY <1>0, <1>1, RecordTakes
<1> HIDE DEF t
<1>3. Tokens(t)
  BY <1>0, <1>1, <1>2, TokensTaken DEF Announced
<1>5. r.ev \in {"BOOT", "WATCHDOG"} /\ Power(r)
  BY DEF Announced, BootOf, Power, PowerEvents
<1>4. Unspent(t)
  <2>1. Full(r)
    BY <1>0, <1>5, Sizes DEF Announced, Full, Valid, Rests
  <2> QED
    BY <2>1, <1>0, <1>2, TookIs DEF Sound, Core, Unspent
<1>6. Closed(t, a)
  <2>1. \A e \in Closers(u, a) : e[1] # 0
    BY <1>1, <1>0 DEF Closed, Closes, Stores
  <2>2. r.op <= u.nextOp /\ r.copies < r.limit
    BY <1>0, Sizes DEF Announced, Stores
  <2>3. Youngest(u, a, r)
    BY <2>1, <2>2, <1>0, <1>5 DEF Youngest, Announced, Rests
  <2> QED
    BY <2>3, <1>0, <1>1, <1>2, ClosedTaken
<1>7. \E j \in Queue : t.queue[j] = r
  <2>1. s.queue \in [Queue -> Recs]
    BY <1>0 DEF Stores
  <2>2. PICK k \in Queue : t.queue = [u.queue EXCEPT ![k] = r]
    BY <1>2, <1>5 DEF Took
  <2> QED
    BY <2>1, <2>2, <1>0
<1>8. \A j \in Queue : t.queue[j] \in {r, s.queue[j]}
  BY <1>0, <1>2, TookIs
<1>9. ASSUME NEW k \in Ends \ {i}, NEW j \in Queue,
             s.startup.pending[k], s.startup.tok[k] # 0, s.queue[j].tok = s.startup.tok[k]
      PROVE t.queue[j] = s.queue[j]
  <2>1. StartupPending(u, u.queue[j])
    BY <1>0, <1>9 DEF StartupPending, Valid, Ends
  <2> QED
    BY <2>1, <1>0, <1>2, TookIs
<1> QED
  BY <1>2, <1>3, <1>4, <1>6, <1>7, <1>8, <1>9 DEF t

\* Announce leaves s as it is, or gives the observation a token.
AnnouncedOnce(s, t, i) ==
    /\ t \in Stores /\ StartupOnly(s, t)
    /\ \A k \in Ends : s.startup.tok[k] # 0 => t.startup.tok[k] # 0
    /\ StartupDue(s, i) => t.startup.tok[i] # 0

LEMMA AnnounceSound ==
  ASSUME NEW s \in Stores, NEW a, Sound(s, a), NEW i \in Ends
  PROVE Sound(Announce(s, i), a) /\ AnnouncedOnce(s, Announce(s, i), i) /\ Keeping(s, Announce(s, i))
<1>1. CASE ~StartupDue(s, i)
  <2>1. Announce(s, i) = s
    BY <1>1 DEF Announce
  <2> QED
    BY <1>1, <2>1, SameKeeping DEF AnnouncedOnce, StartupOnly
<1>2. CASE StartupDue(s, i)
  <2>1. PICK u, r : Announced(s, u, i, r) /\ Announce(s, i) = Record(u, r)
    BY <1>2, AnnouncedIs
  <2> DEFINE t == Record(u, r)
  <2>2. /\ Took(u, t, r) /\ Tokens(t) /\ Unspent(t) /\ Closed(t, a)
        /\ \E j \in Queue : t.queue[j] = r
        /\ \A j \in Queue : t.queue[j] \in {r, s.queue[j]}
        /\ \A k \in Ends \ {i}, j \in Queue :
              s.startup.pending[k] /\ s.startup.tok[k] # 0 /\ s.queue[j].tok = s.startup.tok[k]
                 => t.queue[j] = s.queue[j]
    BY <2>1, AnnouncedTakes
  <2> HIDE DEF t
  <2>3. /\ t \in Stores /\ StartupOnly(s, t) /\ t.serial = s.serial + 1
        /\ t.startup.tok = [s.startup.tok EXCEPT ![i] = r.tok]
    BY <2>1, <2>2, TookIs DEF Announced, StartupOnly
  <2>4. /\ s.serial \in Nat /\ r.tok = s.serial + 1 /\ r.tok # 0 /\ s.startup.tok \in [Ends -> Nat]
        /\ t.startup.tok[i] = r.tok /\ \A k \in Ends \ {i} : t.startup.tok[k] = s.startup.tok[k]
    BY <2>1, <2>3 DEF Stores, Startups, Announced
  <2>5. OpsShape(t) /\ StatesShape(t)
    BY <2>3 DEF Sound, Core, OpsShape, OpShape, StatesShape, StartupOnly
  <2>6. Kept(t)
    <3>1. (\A j \in Opers : s.ops[j].latest.tok \in Nat) /\ \A j \in Ends : s.states[j].published.tok \in Nat
      BY DEF Stores, Ops, Slots, Recs
    <3> QED
      BY <3>1, <2>3, <2>4 DEF Sound, Kept, StartupOnly
  <2>7. s.nonce # 0 /\ s.startup.scheduled /\ s.startup.pending[i] /\ s.startup.tok[i] = 0
    BY <1>2 DEF StartupDue
  <2>8. Boots(t)
    <3>1. \A k \in Ends : t.startup.scheduled
      BY <2>3, <2>7 DEF StartupOnly
    <3>2. ASSUME NEW k \in Ends, t.startup.pending[k], t.startup.tok[k] # 0
          PROVE \E j \in Queue : t.queue[j].tok = t.startup.tok[k] /\ t.queue[j].ev = BootOf(k)
      <4>1. CASE k = i
        BY <4>1, <2>2, <2>4, <2>1 DEF Announced
      <4>2. CASE k # i
        <5>1. s.startup.pending[k] /\ s.startup.tok[k] # 0 /\ t.startup.tok[k] = s.startup.tok[k]
          BY <3>2, <4>2, <2>3, <2>4 DEF StartupOnly
        <5>2. PICK j \in Queue : s.queue[j].tok = s.startup.tok[k] /\ s.queue[j].ev = BootOf(k)
          BY <5>1 DEF Sound, Core, Boots
        <5>3. t.queue[j] = s.queue[j]
          BY <5>1, <5>2, <4>2, <2>2
        <5> QED
          BY <5>1, <5>2, <5>3
      <4> QED
        BY <4>1, <4>2
    <3> QED
      BY <3>1, <3>2 DEF Boots
  <2>9. Heard(t, a)
    <3>1. a.boots[i] = {} /\ a.intent = 0
      BY <2>7 DEF Sound, Core, Heard
    <3>2. Announces(t, a, r)
      <4>1. ASSUME NEW k \in Ends, r.ev = BootOf(k) PROVE k = i
        BY <4>1, <2>1 DEF Announced, BootOf, Ends
      <4> QED
        BY <4>1, <3>1, <2>1, <2>3, <2>4, <2>7 DEF Announces, Announced, StartupOnly
    <3>3. ASSUME NEW q, Announces(s, a, q) PROVE Announces(t, a, q)
      BY <3>3, <2>3, <2>4, <2>7 DEF Announces, StartupOnly
    <3> QED
      BY <3>2, <3>3, <2>2, <2>3 DEF Sound, Core, Heard, StartupOnly
  <2>10. AnnouncedOnce(s, t, i)
    BY <2>3, <2>4 DEF AnnouncedOnce
  <2>11. Sound(t, a)
    BY <2>2, <2>5, <2>6, <2>8, <2>9 DEF Sound, Core
  <2>12. Keeping(s, t)
    <3>1. /\ u \in Stores /\ r \in Recs /\ u.queue = s.queue /\ u.serial = s.serial /\ u.selected = s.selected
          /\ r.tok = u.serial + 1 /\ r.ev # "WILL_WOM"
      BY <2>1 DEF Announced, StartupOnly, BootOf
    <3>2. Unspent(u)
      BY <3>1 DEF Sound, Core, Unspent
    <3>3. Keeping(u, t)
      BY <2>2, <3>1, <3>2, TookKeeping
    <3>4. Keeping(s, u)
      BY <3>1, SameKeeping
    <3> QED
      BY <2>3, <3>1, <3>3, <3>4, KeepingTwice
  <2> QED
    BY <2>1, <2>10, <2>11, <2>12 DEF t
<1> QED
  BY <1>1, <1>2

LEMMA RevealSound ==
  ASSUME NEW s \in Stores, NEW a, Sound(s, a), NEW i \in Opers
  PROVE LET t == Reveal(s, i)
        IN  /\ t \in Stores /\ Sound(t, a) /\ t.states = s.states /\ t.selected = s.selected
            /\ t.nonce = s.nonce /\ t.gate = s.gate /\ t.startup = s.startup
            /\ ~(t.ops[i].active /\ Hidden(t.ops[i]) /\ t.ops[i].born >= Fresh)
            /\ \A j \in Opers \ {i} : t.ops[j] = s.ops[j]
            /\ Keeping(s, t)
<1>1. CASE ~(s.ops[i].active /\ Hidden(s.ops[i]) /\ s.ops[i].born >= Fresh)
  <2>1. Reveal(s, i) = s
    BY <1>1 DEF Reveal
  <2> QED
    BY <1>1, <2>1, SameKeeping
<1>2. CASE s.ops[i].active /\ Hidden(s.ops[i]) /\ s.ops[i].born >= Fresh
  <2> DEFINE val == s.ops[i].phase
             r == Published(s, i, "BEGIN", val, 1)
             o == [s.ops[i] EXCEPT !.latest = IF s.ops[i].active THEN r ELSE @, !.visible = TRUE]
             u == Shown(s, i, r)
             v == PublishOp(s, i, "BEGIN", val, 1)
             p == [o EXCEPT !.candidate = FALSE]
             t == WithOp(v, i, p, v.notify)
  <2>1. s.ops[i].id # 0 /\ val \in Values /\ s.ops \in [Opers -> Ops] /\ 1 \in Nat \ {0} /\ 1 \in Nat
    BY <1>2, OpenOp DEF Stores, Ops
  <2>2. MayPublish(s, a, i, "BEGIN")
    BY <1>2, OpenOp DEF MayPublish
  <2>3. v \in Stores /\ Sound(v, a) /\ Took(u, v, r) /\ "BEGIN" \in Kinds /\ Keeping(s, v)
    BY <2>1, <2>2, PublishIs, PublishKept DEF Sound
  <2>4. Publishing(s, i, "BEGIN", val, 1, r, u, o)
    BY <2>1, <2>3 DEF Publishing
  <2> HIDE DEF val, r, o, u, v
  <2>5. IsShown(s, i, "BEGIN", val, 1, r, u, o)
    BY <2>4, ShownIs
  <2>6. /\ o \in Ops /\ v.ops = [s.ops EXCEPT ![i] = o] /\ o.visible
        /\ v.states = s.states /\ v.selected = s.selected
        /\ v.nonce = s.nonce /\ v.gate = s.gate /\ v.startup = s.startup
    BY <2>3, <2>5, TookIs DEF IsShown
  <2>7. v.ops[i] = o /\ \A j \in Opers \ {i} : v.ops[j] = s.ops[j]
    BY <2>1, <2>6
  <2>8. p \in Ops /\ p.id = o.id /\ p.active = o.active /\ ~p.candidate /\ p.latest = o.latest
        /\ p.visible /\ p.auto = o.auto
    BY <2>6 DEF Ops
  <2>9. [v EXCEPT !.ops[i].candidate = FALSE] = t
    BY <2>3, <2>7 DEF WithOp, Stores
  <2>10. Reveal(s, i) = t
    BY <1>2, <2>9 DEF Reveal, v, val
  <2> HIDE DEF p
  <2>11. Fits(v, i, p)
    <3>1. Fits(v, i, o)
      BY <2>3, <2>7, FitsItself
    <3> QED
      BY <3>1, <2>7, <2>8 DEF Fits, Hidden
  <2>12. Replaced(v, t, i, p, a)
    <3>1. v.notify \in BOOLEAN
      BY <2>3 DEF Stores
    <3> QED
      BY <3>1, <2>3, <2>11, FitsSound
  <2>13. t.states = v.states /\ t.selected = v.selected /\ t.gate = v.gate /\ t.startup = v.startup
    BY <2>3 DEF WithOp, Stores
  <2> HIDE DEF t
  <2>14. v.ops \in [Opers -> Ops]
    BY <2>3 DEF Stores
  <2>15. \A j \in Opers \ {i} : t.ops[j] = v.ops[j]
    BY <2>12, <2>14 DEF Replaced
  <2>16. ~Hidden(t.ops[i])
    BY <2>8, <2>12 DEF Replaced, Hidden
  <2>17. Keeping(s, t)
    BY <2>3, <2>12, KeepingTwice DEF Replaced
  <2> QED
    BY <2>6, <2>7, <2>10, <2>12, <2>13, <2>15, <2>16, <2>17 DEF Replaced
<1> QED
  BY <1>1, <1>2

\* The pass over the operations, as far as it has come.
Pass(b, g, k) == g = [i \in 0..k |-> IF i = 0 THEN b ELSE Reveal(g[i - 1], i)]

LEMMA PassExists ==
  ASSUME NEW b
  PROVE \E g : Pass(b, g, OpSize)
<1> DEFINE T == {k \in 0..OpSize : \E g : Pass(b, g, k)}
<1>0. OpSize \in Nat
  BY Sizes
<1>1. 0 \in T
  <2> DEFINE g == [i \in 0..0 |-> b]
  <2>1. g = [i \in 0..0 |-> IF i = 0 THEN b ELSE Reveal(g[i - 1], i)]
    OBVIOUS
  <2>2. Pass(b, g, 0) /\ 0 \in 0..OpSize
    BY <2>1, <1>0 DEF Pass
  <2> HIDE DEF g
  <2> QED
    BY <2>2
<1>2. ASSUME NEW k \in 0..(OpSize - 1), k \in T PROVE k + 1 \in T
  <2>1. PICK g : Pass(b, g, k)
    BY <1>2
  <2> DEFINE h == [i \in 0..(k+1) |-> IF i = k+1 THEN Reveal(g[k], k+1) ELSE g[i]]
             f == [i \in 0..(k+1) |-> IF i = 0 THEN b ELSE Reveal(h[i - 1], i)]
  <2>2. ASSUME NEW i \in 0..(k+1) PROVE h[i] = f[i]
    <3>1. CASE i = 0
      <4>1. 0 # k+1 /\ 0 \in 0..k
        BY <1>2
      <4> QED
        BY <3>1, <4>1, <2>1 DEF Pass
    <3>2. CASE i = k+1
      <4>1. k # k+1 /\ k \in 0..(k+1) /\ k + 1 # 0 /\ (k + 1) - 1 = k
        BY <1>2
      <4> QED
        BY <3>2, <4>1
    <3>3. CASE i \in 1..k
      <4>1. g[i] = Reveal(g[i - 1], i)
        BY <2>1, <3>3 DEF Pass
      <4>2. h[i-1] = g[i-1] /\ h[i] = g[i] /\ i # 0
        BY <3>3
      <4> QED
        BY <4>1, <4>2
    <3> QED
      BY <3>1, <3>2, <3>3
  <2>3. h = f
    BY <2>2
  <2>4. Pass(b, h, k + 1)
    BY <2>3 DEF Pass
  <2> QED
    BY <2>4, <1>2, <1>0
<1>3. 0..OpSize \subseteq T
  <2> HIDE DEF T
  <2> QED
    BY <1>0, <1>1, <1>2, Induction
<1> QED
  BY <1>3, <1>0

Begun(s) == Announce(Announce(DropExpired(s), 0), 1)

LEMMA MaintainPasses ==
  ASSUME NEW s
  PROVE \E g : Pass(Begun(s), g, OpSize) /\ Maintain(s) = AgeState(AgeState(g[OpSize], 0), 1)
<1> DEFINE g == CHOOSE g : g = [i \in 0..OpSize |-> IF i = 0 THEN Begun(s) ELSE Reveal(g[i - 1], i)]
<1>1. g = [i \in 0..OpSize |-> IF i = 0 THEN Begun(s) ELSE Reveal(g[i - 1], i)]
  BY PassExists DEF Pass
<1>2. Maintain(s) = AgeState(AgeState(g[OpSize], 0), 1)
  BY DEF Maintain, Begun
<1> HIDE DEF g
<1> QED
  BY <1>1, <1>2 DEF Pass

DueHidden(o) == o.active /\ Hidden(o) /\ o.born >= Fresh
Stale(t) == t.observed /\ t.seen >= Fresh

\* Maintenance has come as far as the operation k.
Came(s, t, k, a) ==
    /\ t \in Stores /\ Sound(t, a) /\ t.states = s.states /\ t.selected = s.selected
    /\ t.nonce = s.nonce /\ t.gate = s.gate /\ t.startup = s.startup
    /\ \A j \in 1..k : ~DueHidden(t.ops[j])
    /\ Keeping(s, t)

LEMMA PassComes ==
  ASSUME NEW b \in Stores, NEW a, Sound(b, a), NEW g, Pass(b, g, OpSize)
  PROVE Came(b, g[OpSize], OpSize, a)
<1> DEFINE T == {k \in 0..OpSize : Came(b, g[k], k, a)}
<1>0. OpSize \in Nat
  BY Sizes
<1>1. 0 \in T
  <2>1. g[0] = b /\ 0 \in 0..OpSize
    BY <1>0 DEF Pass
  <2> QED
    BY <2>1, SameKeeping DEF Came
<1>2. ASSUME NEW k \in 0..(OpSize - 1), k \in T PROVE k + 1 \in T
  <2>1. k + 1 \in 0..OpSize /\ k + 1 \in Opers /\ (k + 1) - 1 = k /\ k + 1 # 0
    BY <1>0 DEF Opers
  <2>2. g[k+1] = Reveal(g[k], k+1)
    BY <2>1 DEF Pass
  <2> DEFINE u == g[k]
             t == g[k+1]
  <2>3. Came(b, u, k, a)
    BY <1>2
  <2>4. t = Reveal(u, k+1)
    BY <2>2
  <2> HIDE DEF u, t
  <2>5. /\ t \in Stores /\ Sound(t, a) /\ t.states = u.states /\ t.selected = u.selected
        /\ t.nonce = u.nonce /\ t.gate = u.gate /\ t.startup = u.startup
        /\ ~DueHidden(t.ops[k+1])
        /\ \A j \in Opers \ {k+1} : t.ops[j] = u.ops[j]
        /\ Keeping(u, t)
    BY <2>1, <2>3, <2>4, RevealSound DEF Came, DueHidden
  <2>6. \A j \in 1..(k+1) : j = k+1 \/ (j \in 1..k /\ j \in Opers \ {k+1})
    BY <1>0 DEF Opers
  <2>7. Keeping(b, t)
    BY <2>3, <2>5, KeepingTwice DEF Came
  <2>8. Came(b, t, k+1, a)
    BY <2>3, <2>5, <2>6, <2>7 DEF Came
  <2> QED
    BY <2>1, <2>8 DEF t
<1>3. 0..OpSize \subseteq T
  <2> HIDE DEF T
  <2> QED
    BY <1>0, <1>1, <1>2, Induction
<1> QED
  BY <1>3, <1>0

\* A state whose observation is old.
Lapsed(s, i) ==
    LET t == s.states[i]
    IN  IF Stale(t)
        THEN SetState([s EXCEPT !.states[i].observed = FALSE], i, <<2, IF i = 1 THEN t.val[2] ELSE 0>>)
        ELSE s
\* A published state that has waited too long for its repetitions.
Expired(p) == Valid(p) /\ p.copies < p.limit /\ p.age >= TTL

LEMMA LapsedSound ==
  ASSUME NEW s \in Stores, NEW a, Sound(s, a), NEW i \in Ends
  PROVE \E y : /\ Slotted(s, Lapsed(s, i), i, y, a) /\ ~Stale(y)
               /\ \/ Lapsed(s, i) = s
                  \/ /\ Stale(s.states[i])
                     /\ \E val \in Values :
                          /\ val[1] = 2 /\ y = SlotSet(Unwatched(s.states[i]), val)
                          /\ Lapsed(s, i).notify = (s.notify \/ ~SlotQuiet(Unwatched(s.states[i]), val))
<1> DEFINE x == s.states[i]
           val == <<2, IF i = 1 THEN x.val[2] ELSE 0>>
           z == Unwatched(x)
           y == SlotSet(z, val)
<1>1. CASE ~Stale(x)
  <2>1. Lapsed(s, i) = s
    BY <1>1 DEF Lapsed
  <2> QED
    BY <1>1, <2>1, SlotFitsItself
<1>2. CASE Stale(x)
  <2>1. SlotFits(s, i, z) /\ [s EXCEPT !.states[i].observed = FALSE] = WithSlot(s, i, z, s.notify)
    BY UnwatchedIs
  <2>2. x \in Slots /\ x.candidate \in BOOLEAN /\ x.seen \in Nat /\ x.val \in Values
    BY DEF Stores, Slots
  <2>3. val \in Values /\ val[1] = 2
    BY <2>2 DEF Values
  <2>4. z \in Slots /\ ~z.observed
    BY <2>2 DEF Unwatched, Reset, Slots
  <2>5. Lapsed(s, i) = SetState(WithSlot(s, i, z, s.notify), i, val)
    BY <1>2, <2>1 DEF Lapsed
  <2> HIDE DEF z, val
  <2>6. /\ Slotted(s, Lapsed(s, i), i, y, a)
        /\ Lapsed(s, i).notify = (s.notify \/ ~SlotQuiet(z, val))
    BY <2>1, <2>3, <2>5, ResetSet
  <2>7. ~Stale(y)
    BY <2>3, <2>4, SlotSetIs DEF Stale
  <2> QED
    BY <1>2, <2>3, <2>6, <2>7 DEF z
<1> QED
  BY <1>1, <1>2

LEMMA AgeStateSound ==
  ASSUME NEW s \in Stores, NEW a, Sound(s, a), NEW i \in Ends
  PROVE LET t == AgeState(s, i)
        IN  /\ Sound(t, a) /\ StatesOnly(s, t) /\ ~Stale(t.states[i])
            /\ \A j \in Ends \ {i} : t.states[j] = s.states[j]
<1> DEFINE u == Lapsed(s, i)
           p == u.states[i].published
           t == AgeState(s, i)
<1>1. PICK y : Slotted(s, u, i, y, a) /\ ~Stale(y)
  BY LapsedSound
<1>0. t = AgeState(s, i)
  OBVIOUS
<1>2. t = IF Expired(p) THEN [u EXCEPT !.states[i].published.copies = p.limit] ELSE u
  BY DEF AgeState, Lapsed, Expired, Stale
<1> HIDE DEF u, t
<1>3. CASE ~Expired(p)
  BY <1>0, <1>1, <1>2, <1>3 DEF Slotted
<1>4. CASE Expired(p)
  <2> DEFINE z == [y EXCEPT !.published.copies = p.limit]
             v == WithSlot(u, i, z, u.notify)
  <2>1. u \in Stores /\ Sound(u, a) /\ u.states[i] = y /\ u.states \in [Ends -> Slots] /\ u.notify \in BOOLEAN
    BY <1>1 DEF Slotted, StatesOnly, Stores
  <2>2. y \in Slots /\ SlotFits(u, i, y) /\ p = y.published /\ p \in Recs /\ p.limit \in Nat
    BY <2>1, SlotFitsItself DEF Slots, Recs
  <2>3. [u EXCEPT !.states[i].published.copies = p.limit] = v
    BY <2>1, <2>2 DEF WithSlot, Stores
  <2>4. /\ z \in Slots /\ z.observed = y.observed /\ z.seen = y.seen
        /\ z.published.tok = p.tok /\ z.published.op = p.op /\ z.published.ev = p.ev
        /\ z.published.limit = p.limit
    BY <2>2 DEF Slots, Recs
  <2> HIDE DEF z, p
  <2>5. SlotFits(u, i, z)
    BY <2>2, <2>4 DEF SlotFits, Valid
  <2>6. Slotted(u, v, i, z, a)
    BY <2>1, <2>5, SlotSound
  <2> HIDE DEF v
  <2>7. ~Stale(z)
    BY <1>1, <2>4 DEF Stale
  <2> QED
    <3>1. t = v
      BY <1>2, <1>4, <2>3 DEF v, p
    <3>2. Slotted(s, v, i, z, a)
      BY <1>1, <2>6, SlottedTwice
    <3> QED
      BY <1>0, <2>7, <3>1, <3>2 DEF Slotted
<1> QED
  BY <1>3, <1>4

\* Nothing is left to maintain.
Current(s) ==
    /\ \A i \in Ends : s.nonce # 0 /\ s.startup.pending[i] /\ s.startup.in = 0 => s.startup.tok[i] # 0
    /\ \A i \in Opers : ~DueHidden(s.ops[i])
    /\ \A i \in Ends : ~Stale(s.states[i])

LEMMA MaintainSound ==
  ASSUME NEW s \in Stores, NEW a, Sound(s, a)
  PROVE LET t == Maintain(s)
        IN  /\ t \in Stores /\ Sound(t, a) /\ Current(t)
            /\ t.nonce = s.nonce /\ t.gate = s.gate /\ t.selected = s.selected
            /\ t.startup.pending = s.startup.pending
            /\ Keeping(DropExpired(s), t)
<1>0. 0 \in Ends /\ 1 \in Ends /\ Ends = {0, 1}
  BY DEF Ends
<1> DEFINE c == DropExpired(s)
           d == Announce(c, 0)
           b == Begun(s)
<1>1. c \in Stores /\ Sound(c, a)
  BY DropExpiredSound
<1>2. c.nonce = s.nonce /\ c.gate = s.gate /\ c.selected = s.selected /\ c.startup = s.startup
  BY DEF DropExpired, Stores
<1>3. b = Announce(d, 1)
  BY DEF Begun
<1> HIDE DEF c, b
<1>4. Sound(d, a) /\ AnnouncedOnce(c, d, 0) /\ Keeping(c, d)
  BY <1>0, <1>1, AnnounceSound
<1> HIDE DEF d
<1>5. Sound(b, a) /\ AnnouncedOnce(d, b, 1) /\ Keeping(d, b)
  BY <1>0, <1>3, <1>4, AnnounceSound DEF AnnouncedOnce
<1>6. /\ b \in Stores /\ b.nonce = s.nonce /\ b.gate = s.gate /\ b.selected = s.selected
      /\ b.startup.pending = s.startup.pending /\ b.startup.in = s.startup.in
      /\ b.startup.scheduled = s.startup.scheduled
  BY <1>2, <1>4, <1>5 DEF AnnouncedOnce, StartupOnly
<1>7. \A i \in Ends : b.nonce # 0 /\ b.startup.pending[i] /\ b.startup.in = 0 => b.startup.tok[i] # 0
  <2>1. \A i \in Ends : s.startup.pending[i] => s.startup.scheduled
    BY DEF Sound, Core, Boots
  <2>2. ASSUME b.nonce # 0, b.startup.pending[0], b.startup.in = 0 PROVE b.startup.tok[0] # 0
    BY <1>0, <1>2, <1>4, <1>5, <1>6, <2>1, <2>2 DEF AnnouncedOnce, StartupDue
  <2>3. ASSUME b.nonce # 0, b.startup.pending[1], b.startup.in = 0 PROVE b.startup.tok[1] # 0
    BY <1>0, <1>2, <1>4, <1>5, <1>6, <2>1, <2>3 DEF AnnouncedOnce, StartupDue, StartupOnly
  <2> QED
    BY <1>0, <2>2, <2>3
<1>8. PICK g : Pass(b, g, OpSize) /\ Maintain(s) = AgeState(AgeState(g[OpSize], 0), 1)
  BY MaintainPasses DEF b
<1> DEFINE e == g[OpSize]
           f == AgeState(e, 0)
           t == AgeState(f, 1)
<1>9. Came(b, e, OpSize, a)
  BY <1>5, <1>6, <1>8, PassComes
<1>10. t = Maintain(s)
  BY <1>8
<1> HIDE DEF e
<1>11. Sound(f, a) /\ StatesOnly(e, f) /\ ~Stale(f.states[0])
  BY <1>0, <1>9, AgeStateSound DEF Came
<1> HIDE DEF f
<1>12. /\ Sound(t, a) /\ StatesOnly(f, t) /\ ~Stale(t.states[1])
       /\ \A j \in Ends \ {1} : t.states[j] = f.states[j]
  BY <1>0, <1>11, AgeStateSound DEF StatesOnly
<1> HIDE DEF t
<1>13. /\ t \in Stores /\ t.ops = e.ops /\ t.startup = b.startup /\ t.nonce = b.nonce
       /\ t.gate = b.gate /\ t.selected = b.selected
  BY <1>9, <1>11, <1>12 DEF StatesOnly, Came
<1>14. \A i \in Ends : ~Stale(t.states[i])
  BY <1>0, <1>11, <1>12
<1>15. Current(t)
  BY <1>7, <1>9, <1>13, <1>14 DEF Current, Came, Opers
<1>16. Keeping(c, t)
  <2>1. d \in Stores /\ e \in Stores /\ f \in Stores /\ Keeping(b, e)
    BY <1>4, <1>9, <1>11 DEF AnnouncedOnce, Came, StatesOnly
  <2>2. Keeping(c, b)
    BY <1>1, <1>4, <1>5, <1>6, <2>1, KeepingTwice
  <2>3. Keeping(c, e)
    BY <1>1, <1>6, <2>1, <2>2, KeepingTwice
  <2>4. Keeping(e, t)
    BY <1>11, <1>12, <1>13, <2>1, SameKeeping DEF StatesOnly
  <2> QED
    BY <1>1, <1>13, <2>1, <2>3, <2>4, KeepingTwice
<1> QED
  BY <1>6, <1>10, <1>12, <1>13, <1>15, <1>16 DEF c

-----------------------------------------------------------------------------
(* The deadline and the choice *)

LEMMA DeadlinesIs ==
  ASSUME NEW s, NEW d
  PROVE d \in Deadlines(s) <=>
          \/ d = s.startup.in /\ \E i \in Ends : s.startup.pending[i] /\ s.startup.tok[i] = 0
          \/ d = 0 /\ \E j \in Queue : Valid(s.queue[j])
          \/ \E i \in Opers : s.ops[i].id # 0 /\ d \in OpDeadlines(s.ops[i])
          \/ \E i \in Ends : d \in SlotDeadlines(s.states[i])
<1> DEFINE A == {s.startup.in : i \in {j \in {0, 1} : s.startup.pending[j] /\ s.startup.tok[j] = 0}}
           B == {0 : r \in Queued(s)}
           C == UNION {OpDeadlines(s.ops[i]) : i \in {j \in 1..OpSize : s.ops[j].id # 0}}
           D == UNION {SlotDeadlines(s.states[i]) : i \in {0, 1}}
<1>1. Deadlines(s) = A \cup B \cup C \cup D
  BY DEF Deadlines
<1>2. d \in A <=> d = s.startup.in /\ \E i \in Ends : s.startup.pending[i] /\ s.startup.tok[i] = 0
  BY DEF Ends
<1>3. d \in B <=> d = 0 /\ \E j \in Queue : Valid(s.queue[j])
  BY DEF Queued, Queue
<1>4. d \in C <=> \E i \in Opers : s.ops[i].id # 0 /\ d \in OpDeadlines(s.ops[i])
  BY DEF Opers
<1>5. d \in D <=> \E i \in Ends : d \in SlotDeadlines(s.states[i])
  BY DEF Ends
<1> QED
  BY <1>1, <1>2, <1>3, <1>4, <1>5

LEMMA LeftIs ==
  ASSUME NEW n \in Nat, NEW most \in Nat
  PROVE Left(n, most) \in Nat /\ (Left(n, most) = 0 <=> n >= most)
BY DEF Left

LEMMA IntervalsAre == {Spacing, Refused, Settle, Pace, Fresh, OpBeat, StateBeat, BootDelay, TTL, Fallback} \subseteq Nat \ {0}
BY SizesAssumption

LEMMA OpDeadlinesAre ==
  ASSUME NEW o \in Ops
  PROVE OpDeadlines(o) \subseteq Nat
<1>1. /\ o.born \in Nat /\ o.progress \in Nat /\ o.changed \in Nat /\ o.beat \in Nat
      /\ Pace \in Nat /\ Fresh \in Nat /\ Settle \in Nat
  BY IntervalsAre DEF Ops
<1>2. Left(o.born, Fresh) \in Nat /\ Left(o.progress, Pace) \in Nat /\ Left(o.changed, Settle) \in Nat
  BY <1>1, LeftIs
<1> QED
  BY <1>1, <1>2 DEF OpDeadlines, Longest

LEMMA SlotDeadlinesAre ==
  ASSUME NEW t \in Slots
  PROVE SlotDeadlines(t) \subseteq Nat
<1>1. /\ t.seen \in Nat /\ t.publishAge \in Nat /\ t.sentAge \in Nat
      /\ Pace \in Nat /\ Fresh \in Nat /\ StateBeat \in Nat
  BY IntervalsAre DEF Slots
<1>2. Left(t.seen, Fresh) \in Nat /\ Left(t.publishAge, Pace) \in Nat /\ Left(t.sentAge, StateBeat) \in Nat
  BY <1>1, LeftIs
<1> QED
  BY <1>2 DEF SlotDeadlines

LEMMA DeadlinesAre ==
  ASSUME NEW s \in Stores
  PROVE Deadlines(s) \subseteq Nat
<1>1. SUFFICES ASSUME NEW d \in Deadlines(s) PROVE d \in Nat
  OBVIOUS
<1>2. s.startup.in \in Nat /\ (\A i \in Opers : s.ops[i] \in Ops) /\ \A i \in Ends : s.states[i] \in Slots
  BY DEF Stores, Startups
<1>3. CASE \E i \in Opers : d \in OpDeadlines(s.ops[i])
  BY <1>2, <1>3, OpDeadlinesAre
<1>4. CASE \E i \in Ends : d \in SlotDeadlines(s.states[i])
  BY <1>2, <1>4, SlotDeadlinesAre
<1> QED
  BY <1>2, <1>3, <1>4, DeadlinesIs

LEMMA WorkIs ==
  ASSUME NEW s
  PROVE Picks(s) # {} <=>
          \/ \E j \in Queue : Valid(s.queue[j]) /\ Power(s.queue[j])
          \/ \E j \in Queue : Valid(s.queue[j]) /\ s.queue[j].copies = 0
          \/ OpBeats(s) # {} \/ StateBeats(s) # {} \/ Repeats(s) # {} \/ NewStates(s) # {}
          \/ Steps(s) # {} \/ OldStates(s) # {}
<1>1. PowerFirst(s) # {} <=> \E j \in Queue : Valid(s.queue[j]) /\ Power(s.queue[j])
  <2> DEFINE rs == {r \in Queued(s) : Power(r)}
  <2>1. rs # {} <=> \E j \in Queue : Valid(s.queue[j]) /\ Power(s.queue[j])
    BY DEF Queued, Queue
  <2>2. PowerFirst(s) # {} <=> rs # {}
    BY DEF PowerFirst
  <2> QED
    BY <2>1, <2>2
<1>2. FirstCopies(s) # {} <=> \E j \in Queue : Valid(s.queue[j]) /\ s.queue[j].copies = 0
  <2> DEFINE rs == {r \in Queued(s) : r.copies = 0}
  <2>1. rs # {} <=> \E j \in Queue : Valid(s.queue[j]) /\ s.queue[j].copies = 0
    BY DEF Queued, Queue
  <2>2. FirstCopies(s) # {} <=> rs # {}
    BY DEF FirstCopies
  <2> QED
    BY <2>1, <2>2
<1>3. Beats(s) # {} <=> OpBeats(s) # {} \/ StateBeats(s) # {}
  BY DEF Beats
<1>4. Picks(s) # {} <=>
        \/ PowerFirst(s) # {} \/ FirstCopies(s) # {} \/ Beats(s) # {} \/ Repeats(s) # {}
        \/ NewStates(s) # {} \/ Steps(s) # {} \/ OldStates(s) # {}
  BY DEF Picks
<1> QED
  BY <1>1, <1>2, <1>3, <1>4

\* The operation i is chosen for a heartbeat or for progress.
OpWorks(o) ==
    \/ o.active /\ o.visible /\ (Valid(o.latest) \/ o.candidate) /\ o.beat = 0 /\ MayProgress(o)
    \/ Settled(o) \/ UnsentStep(o)
SlotWorks(t) ==
    \/ t.observed /\ ~t.candidate /\ Valid(t.published) /\ t.published.copies > 0 /\ t.sentAge >= StateBeat
    \/ t.candidate /\ t.publishAge >= Pace
    \/ ~t.candidate /\ Valid(t.published) /\ t.published.copies < t.published.limit

LEMMA OpDueWorks ==
  ASSUME NEW s \in Stores, NEW a, Sound(s, a), NEW i \in Opers, ~DueHidden(s.ops[i])
  PROVE s.ops[i].id # 0 /\ 0 \in OpDeadlines(s.ops[i]) <=> OpWorks(s.ops[i])
<1> DEFINE o == s.ops[i]
<1>1. /\ o \in Ops /\ OpShape(s, i)
      /\ o.born \in Nat /\ o.progress \in Nat /\ o.changed \in Nat /\ o.beat \in Nat
      /\ Pace \in Nat /\ Fresh \in Nat /\ Settle \in Nat
  BY IntervalsAre DEF Stores, Ops, Sound, Core, OpsShape
<1>2. /\ o.active => o.id # 0
      /\ o.candidate => o.active
      /\ Valid(o.latest) => o.active /\ ~Hidden(o)
  BY <1>1 DEF OpShape
<1>3. o.active /\ Hidden(o) => Left(o.born, Fresh) # 0
  BY <1>1, LeftIs DEF DueHidden
<1>4. Left(o.progress, Pace) \in Nat /\ (Left(o.progress, Pace) = 0 <=> o.progress >= Pace)
  BY <1>1, LeftIs
<1>5. Left(o.changed, Settle) \in Nat /\ (Left(o.changed, Settle) = 0 <=> o.changed >= Settle)
  BY <1>1, LeftIs
<1> HIDE DEF o
<1>6. ASSUME o.active, Hidden(o) PROVE o.id # 0 /\ 0 \in OpDeadlines(o) <=> OpWorks(o)
  <2>1. ~(0 \in OpDeadlines(o))
    BY <1>3, <1>6 DEF OpDeadlines
  <2>2. ~OpWorks(o)
    BY <1>2, <1>6 DEF OpWorks, Hidden, Settled, UnsentStep
  <2> QED
    BY <2>1, <2>2
<1>7. ASSUME ~(o.active /\ Hidden(o)) PROVE o.id # 0 /\ 0 \in OpDeadlines(o) <=> OpWorks(o)
  <2>1. ASSUME NEW m \in Nat, NEW n \in Nat PROVE Longest(m, n) = 0 <=> m = 0 /\ n = 0
    BY DEF Longest
  <2>2. Longest(o.beat, Left(o.progress, Pace)) = 0 <=> o.beat = 0 /\ o.progress >= Pace
    BY <1>1, <1>4, <2>1
  <2>3. Longest(Left(o.changed, Settle), Left(o.progress, Pace)) = 0 <=> o.changed >= Settle /\ o.progress >= Pace
    BY <1>4, <1>5, <2>1
  <2>4. 0 \in OpDeadlines(o) <=>
          \/ /\ o.active /\ o.visible /\ (Valid(o.latest) \/ o.candidate)
             /\ o.beat = 0 /\ (o.candidate => o.progress >= Pace)
          \/ o.candidate /\ o.changed >= Settle /\ o.progress >= Pace
          \/ UnsentStep(o)
    BY <1>7, <2>2, <2>3 DEF OpDeadlines
  <2>5. UnsentStep(o) => o.active
    BY <1>2 DEF UnsentStep
  <2> QED
    BY <1>2, <1>7, <2>4, <2>5 DEF OpWorks, MayProgress, Settled
<1> QED
  BY <1>6, <1>7 DEF o

LEMMA SlotDueWorks ==
  ASSUME NEW s \in Stores, NEW a, Sound(s, a), NEW i \in Ends, ~Stale(s.states[i])
  PROVE 0 \in SlotDeadlines(s.states[i]) <=> SlotWorks(s.states[i])
<1> DEFINE t == s.states[i]
<1>1. /\ t \in Slots /\ t.seen \in Nat /\ t.publishAge \in Nat /\ t.sentAge \in Nat
      /\ Pace \in Nat /\ Fresh \in Nat /\ StateBeat \in Nat
      /\ t.published.copies \in Nat
  BY IntervalsAre DEF Stores, Slots, Recs
<1>2. Valid(t.published) => t.published.limit = NoticeCopies
  BY DEF Sound, Core, StatesShape
<1>3. /\ t.observed => Left(t.seen, Fresh) # 0
      /\ Left(t.publishAge, Pace) = 0 <=> t.publishAge >= Pace
      /\ Left(t.sentAge, StateBeat) = 0 <=> t.sentAge >= StateBeat
  BY <1>1, LeftIs DEF Stale
<1>4. Valid(t.published) /\ ~(t.published.copies < t.published.limit) => t.published.copies > 0
  BY <1>1, <1>2, Sizes
<1> HIDE DEF t
<1> QED
  BY <1>3, <1>4 DEF SlotDeadlines, SlotWorks, t

LEMMA DueIsWork ==
  ASSUME NEW s \in Stores, NEW a, Sound(s, a), Current(s), s.nonce # 0
  PROVE 0 \in Deadlines(s) <=> Picks(s) # {}
<1>1. ~(0 = s.startup.in /\ \E i \in Ends : s.startup.pending[i] /\ s.startup.tok[i] = 0)
  BY DEF Current
<1>2. (\E j \in Queue : Valid(s.queue[j])) <=>
        \/ \E j \in Queue : Valid(s.queue[j]) /\ Power(s.queue[j])
        \/ \E j \in Queue : Valid(s.queue[j]) /\ s.queue[j].copies = 0
        \/ Repeats(s) # {}
  <2>1. ASSUME NEW j \in Queue
        PROVE Valid(s.queue[j]) <=> \/ Valid(s.queue[j]) /\ s.queue[j].copies = 0
                                    \/ s.queue[j].copies > 0 /\ s.queue[j].copies < s.queue[j].limit
    <3>1. s.queue[j].copies \in Nat /\ Full(s.queue[j])
      BY DEF Stores, Recs, Sound, Core, Unspent
    <3> QED
      BY <3>1 DEF Full, NoRec
  <2>2. Repeats(s) # {} <=> \E j \in Queue : s.queue[j].copies > 0 /\ s.queue[j].copies < s.queue[j].limit
    BY DEF Repeats, Queue
  <2> QED
    BY <2>1, <2>2
<1>3. (\E i \in Opers : s.ops[i].id # 0 /\ 0 \in OpDeadlines(s.ops[i])) <=> OpBeats(s) # {} \/ Steps(s) # {}
  <2>1. (\E i \in Opers : OpWorks(s.ops[i])) <=> OpBeats(s) # {} \/ Steps(s) # {}
    BY DEF OpWorks, OpBeats, Steps, Opers
  <2>2. \A i \in Opers : s.ops[i].id # 0 /\ 0 \in OpDeadlines(s.ops[i]) <=> OpWorks(s.ops[i])
    BY OpDueWorks DEF Current
  <2> QED
    BY <2>1, <2>2
<1>4. (\E i \in Ends : 0 \in SlotDeadlines(s.states[i])) <=>
        StateBeats(s) # {} \/ NewStates(s) # {} \/ OldStates(s) # {}
  <2>1. (\E i \in Ends : SlotWorks(s.states[i])) <=> StateBeats(s) # {} \/ NewStates(s) # {} \/ OldStates(s) # {}
    BY DEF SlotWorks, StateBeats, NewStates, OldStates, Ends
  <2>2. \A i \in Ends : 0 \in SlotDeadlines(s.states[i]) <=> SlotWorks(s.states[i])
    BY SlotDueWorks DEF Current
  <2> QED
    BY <2>1, <2>2
<1>5. 0 \in Deadlines(s) <=>
        \/ \E j \in Queue : Valid(s.queue[j])
        \/ \E i \in Opers : s.ops[i].id # 0 /\ 0 \in OpDeadlines(s.ops[i])
        \/ \E i \in Ends : 0 \in SlotDeadlines(s.states[i])
  BY <1>1, DeadlinesIs
<1> QED
  BY <1>2, <1>3, <1>4, <1>5, WorkIs

-----------------------------------------------------------------------------
(* Selection *)

\* u is s but for whose turn it is.
Turned(s, u) ==
    /\ u \in Stores
    /\ u.queue = s.queue /\ u.ops = s.ops /\ u.states = s.states /\ u.startup = s.startup
    /\ u.nonce = s.nonce /\ u.serial = s.serial /\ u.nextOp = s.nextOp /\ u.gate = s.gate
    /\ u.selected = s.selected /\ u.notify = s.notify

\* The record r may be selected.
Selectable(s, a, r) ==
    /\ r \in Recs /\ Valid(r) /\ r.tok <= s.serial /\ r.op <= s.nextOp
    /\ Announces(s, a, r)
    /\ r.ev = "END" => <<r.op, r.tok>> \in Closers(s, a)
    /\ \A e \in Closers(s, a) : r.op = e[1] /\ r.ev # "STORAGE" => r.tok <= e[2]

LEMMA SelectedSound ==
  ASSUME NEW s \in Stores, NEW a, Sound(s, a), NEW r, Selectable(s, a, r)
  PROVE LET t == [s EXCEPT !.selected = r]
        IN t \in Stores /\ Sound(t, a) /\ t.selected = r /\ t.states = s.states
<1> DEFINE t == [s EXCEPT !.selected = r]
<1>0. r \in Recs
  BY DEF Selectable
<1>1. /\ t \in Stores /\ t.selected = r
      /\ t.queue = s.queue /\ t.ops = s.ops /\ t.states = s.states /\ t.startup = s.startup
      /\ t.nonce = s.nonce /\ t.serial = s.serial /\ t.nextOp = s.nextOp
  BY <1>0 DEF Stores
<1> HIDE DEF t
<1>2. OpsShape(t) /\ StatesShape(t) /\ Kept(t) /\ Unspent(t) /\ Boots(t)
  BY <1>1 DEF Sound, Core, OpsShape, OpShape, StatesShape, Kept, Unspent, Boots
<1>3. Tokens(t)
  BY <1>1 DEF Sound, Core, Tokens, Selectable
<1>4. Heard(t, a)
  <2>1. ASSUME NEW q, Announces(s, a, q) PROVE Announces(t, a, q)
    BY <2>1, <1>1 DEF Announces
  <2> QED
    BY <2>1, <1>1 DEF Sound, Core, Heard, Selectable
<1>5. Closed(t, a)
  <2>1. ASSUME NEW e \in Closers(t, a) PROVE Closes(t, e)
    <3>1. e \in Closers(s, a)
      BY <1>1, ClosersIs DEF Selectable
    <3> QED
      BY <3>1, <1>1 DEF Sound, Core, Closed, Closes, Selectable
  <2> QED
    BY <2>1, <1>1 DEF Sound, Core, Closed, Selectable
<1>6. Sound(t, a)
  BY <1>2, <1>3, <1>4, <1>5 DEF Sound, Core
<1> QED
  BY <1>1, <1>6 DEF t

\* A record that is kept.
KeptRecord(s, r) ==
    \/ \E j \in Queue : r = s.queue[j]
    \/ \E i \in Opers : r = s.ops[i].latest
    \/ \E i \in Ends : r = s.states[i].published

LEMMA KeptSelectable ==
  ASSUME NEW s \in Stores, NEW a, Sound(s, a), NEW r, Valid(r), KeptRecord(s, r)
  PROVE Selectable(s, a, r)
<1>0. s.nextOp \in Nat /\ \A e \in Closers(s, a) : e[1] # 0 /\ e[1] \in 1..s.nextOp
  BY DEF Stores, Sound, Core, Closed, Closes
<1>1. CASE \E j \in Queue : r = s.queue[j]
  <2>1. PICK j \in Queue : r = s.queue[j]
    BY <1>1
  <2>2. r \in Recs
    BY <2>1 DEF Stores
  <2>3. r.ev = "END" => <<r.op, r.tok>> \in Closers(s, a)
    BY <2>1, ClosersIs
  <2>4. \A e \in Closers(s, a) : r.op = e[1] /\ r.ev # "STORAGE" => r.tok <= e[2]
    BY <2>1 DEF Sound, Core, Closed, Closes
  <2>5. r.tok <= s.serial /\ r.op <= s.nextOp /\ Announces(s, a, r)
    BY <2>1 DEF Sound, Core, Tokens, Closed, Heard
  <2> QED
    BY <2>2, <2>3, <2>4, <2>5 DEF Selectable
<1>2. CASE \E i \in Opers : r = s.ops[i].latest
  <2>1. PICK i \in Opers : r = s.ops[i].latest
    BY <1>2
  <2>2. r \in Recs /\ OpShape(s, i) /\ r.tok <= s.serial
    BY <2>1 DEF Stores, Ops, Sound, Core, OpsShape, Kept
  <2>3. /\ s.ops[i].active /\ r.op = s.ops[i].id /\ r.ev \in {"ACCEPTED", "BEGIN", "STEP"}
        /\ r.op <= s.nextOp
    BY <2>1, <2>2 DEF OpShape
  <2>4. Announces(s, a, r)
    BY <2>3 DEF Announces, BootOf
  <2>5. \A e \in Closers(s, a) : r.op # e[1]
    BY <2>1, <2>3 DEF Sound, Core, Closed, Closes
  <2> QED
    BY <2>2, <2>3, <2>4, <2>5 DEF Selectable
<1>3. CASE \E i \in Ends : r = s.states[i].published
  <2>1. PICK i \in Ends : r = s.states[i].published
    BY <1>3
  <2>2. r \in Recs /\ r.op = 0 /\ r.ev = RestOf(i) /\ r.tok <= s.serial
    BY <2>1 DEF Stores, Slots, Sound, Core, StatesShape, Kept
  <2>3. r.ev \notin {"END", "BOOT", "WATCHDOG"}
    BY <2>2 DEF RestOf
  <2>4. Announces(s, a, r)
    BY <2>3 DEF Announces, BootOf
  <2> QED
    BY <1>0, <2>2, <2>3, <2>4 DEF Selectable
<1> QED
  BY <1>1, <1>2, <1>3 DEF KeptRecord

LEMMA TurnedSound ==
  ASSUME NEW s, NEW u, NEW a, Turned(s, u), Sound(s, a)
  PROVE u \in Stores /\ Sound(u, a)
BY SameSound DEF Turned

\* A later serial number.
LEMMA BumpSound ==
  ASSUME NEW s \in Stores, NEW a, Sound(s, a)
  PROVE LET t == [s EXCEPT !.serial = @ + 1]
        IN  /\ t \in Stores /\ Sound(t, a) /\ t.serial = s.serial + 1
            /\ t.ops = s.ops /\ t.states = s.states /\ t.nonce = s.nonce /\ t.nextOp = s.nextOp
<1> DEFINE t == [s EXCEPT !.serial = @ + 1]
<1>0. s.serial \in Nat /\ s.serial + 1 \in Nat
  BY DEF Stores
<1>1. /\ t \in Stores /\ t.serial = s.serial + 1
      /\ t.queue = s.queue /\ t.ops = s.ops /\ t.states = s.states /\ t.startup = s.startup
      /\ t.nonce = s.nonce /\ t.nextOp = s.nextOp /\ t.selected = s.selected
  BY <1>0 DEF Stores
<1> HIDE DEF t
<1>2. /\ s.selected.tok \in Nat /\ \A j \in Queue : s.queue[j].tok \in Nat
      /\ \A j \in Opers : s.ops[j].latest.tok \in Nat
      /\ \A j \in Ends : s.states[j].published.tok \in Nat
  BY DEF Stores, Recs, Ops, Slots
<1>3. Tokens(t) /\ Kept(t)
  BY <1>0, <1>1, <1>2 DEF Sound, Core, Tokens, Kept
<1>4. OpsShape(t) /\ StatesShape(t) /\ Unspent(t) /\ Boots(t) /\ Heard(t, a) /\ Closed(t, a)
  BY <1>1 DEF Sound, Core, OpsShape, OpShape, StatesShape, Unspent, Boots, Heard, Announces,
              Closed, Closes, Closers
<1> QED
  BY <1>1, <1>3, <1>4 DEF Sound, Core, t

\* Progress of an open operation is sent.
LEMMA ProgressSound ==
  ASSUME NEW s \in Stores, NEW a, Sound(s, a), NEW i \in Opers,
         s.ops[i].active, ~Hidden(s.ops[i])
  PROVE LET c == SendProgress(s, i)
        IN  /\ c.s \in Stores /\ Sound(c.s, a) /\ Selectable(c.s, a, c.r)
            /\ c.s.states = s.states /\ c.r.ev = "STEP"
<1> DEFINE r == Materialize(s, s.ops[i].id, "STEP", s.ops[i].phase, 1)
           o == s.ops[i]
           p == [o EXCEPT !.latest = r, !.candidate = FALSE]
           u == [s EXCEPT !.serial = @ + 1]
           t == WithOp(u, i, p, u.notify)
<1>1. o \in Ops /\ o.id \in Nat /\ s.ops \in [Opers -> Ops]
  BY DEF Stores, Ops
<1>2. /\ r \in Recs /\ r.tok = s.serial + 1 /\ r.op = o.id /\ r.ev = "STEP" /\ r.copies = 0
  <2>1. "STEP" \in Kinds /\ o.phase \in Values /\ 1 \in Nat
    BY <1>1 DEF Kinds, Ops
  <2> QED
    BY <1>1, <2>1, MaterializeIs
<1>3. /\ u \in Stores /\ Sound(u, a) /\ u.serial = s.serial + 1
      /\ u.ops = s.ops /\ u.states = s.states
  BY BumpSound
<1>4. SendProgress(s, i) = Pick(t, r)
  <2>1. [s EXCEPT !.serial = r.tok, !.ops[i].latest = r, !.ops[i].candidate = FALSE] = t
    <3> HIDE DEF r
    <3> QED
      BY <1>1, <1>2 DEF WithOp, Stores
  <2> QED
    BY <2>1 DEF SendProgress
<1> HIDE DEF r, o, u
<1>5. p \in Ops /\ p.id = o.id /\ p.active = o.active /\ ~p.candidate /\ p.latest = r
      /\ p.auto = o.auto /\ p.visible = o.visible
  BY <1>1, <1>2 DEF Ops
<1> HIDE DEF p
<1>6. Fits(u, i, p)
  BY <1>1, <1>2, <1>3, <1>5 DEF Fits, Hidden, o, Stores
<1>7. Replaced(u, t, i, p, a)
  <2>1. u.notify \in BOOLEAN
    BY <1>3 DEF Stores
  <2> QED
    BY <1>3, <1>6, <2>1, FitsSound
<1>8. t.states = u.states
  BY <1>3 DEF WithOp, Stores
<1> HIDE DEF t
<1>9. t \in Stores /\ Sound(t, a) /\ t.ops[i].latest = r /\ Valid(r)
  BY <1>2, <1>5, <1>7 DEF Replaced, Valid, Stores
<1>10. Selectable(t, a, r)
  BY <1>9, KeptSelectable DEF KeptRecord
<1>11. Pick(t, r).s = t /\ Pick(t, r).r = r
  BY DEF Pick
<1> QED
  BY <1>2, <1>3, <1>4, <1>8, <1>9, <1>10, <1>11

\* What SendState makes of the state x.
SlotSent(x, r) == [x EXCEPT !.published = r, !.candidate = FALSE, !.sentAge = StateBeat]

LEMMA StateSound ==
  ASSUME NEW s \in Stores, NEW a, Sound(s, a), NEW i \in Ends
  PROVE LET c == SendState(s, i)
        IN  /\ c.s \in Stores /\ Sound(c.s, a) /\ Selectable(c.s, a, c.r)
            /\ c.r \in Recs /\ c.r.ev = RestOf(i) /\ c.r.copies = 0 /\ c.r.val = s.states[i].val
            /\ c.s.states = [s.states EXCEPT ![i] = SlotSent(s.states[i], c.r)]
            /\ c.s.states[i].published = c.r
<1> DEFINE r == Materialize(s, 0, RestOf(i), s.states[i].val, NoticeCopies)
           x == s.states[i]
           y == SlotSent(x, r)
           u == [s EXCEPT !.serial = @ + 1]
           v == WithSlot(u, i, y, u.notify)
           t == [v EXCEPT !.stateTurn = 1 - i]
<1>1. x \in Slots /\ s.states \in [Ends -> Slots] /\ StateBeat \in Nat
  BY IntervalsAre DEF Stores
<1>2. /\ r \in Recs /\ r.tok = s.serial + 1 /\ r.op = 0 /\ r.ev = RestOf(i) /\ r.copies = 0
      /\ r.limit = NoticeCopies /\ r.val = x.val
  <2>1. RestOf(i) \in Kinds /\ x.val \in Values /\ NoticeCopies \in Nat /\ 0 \in Nat
    BY <1>1, Sizes DEF Kinds, Slots, RestOf
  <2> QED
    BY <1>1, <2>1, MaterializeIs
<1>3. /\ u \in Stores /\ Sound(u, a) /\ u.serial = s.serial + 1
      /\ u.ops = s.ops /\ u.states = s.states
  BY BumpSound
<1>4. SendState(s, i) = Pick(t, r)
  <2>1. [s EXCEPT !.serial = r.tok, !.stateTurn = 1 - i,
                  !.states[i] = [@ EXCEPT !.published = r, !.candidate = FALSE, !.sentAge = StateBeat]] = t
    <3> HIDE DEF r
    <3> QED
      BY <1>1, <1>2 DEF WithSlot, Stores, SlotSent
  <2> QED
    BY <2>1 DEF SendState
<1> HIDE DEF r, x, u
<1>5. y \in Slots /\ y.published = r
  BY <1>1, <1>2 DEF Slots, SlotSent
<1> HIDE DEF y
<1>6. SlotFits(u, i, y)
  BY <1>2, <1>3, <1>5 DEF SlotFits, Stores
<1>7. Slotted(u, v, i, y, a)
  <2>1. u.notify \in BOOLEAN
    BY <1>3 DEF Stores
  <2> QED
    BY <1>3, <1>6, <2>1, SlotSound
<1> HIDE DEF v
<1>8. v \in Stores /\ Sound(v, a) /\ v.states = [s.states EXCEPT ![i] = y] /\ v.states[i] = y
  BY <1>3, <1>7 DEF Slotted, StatesOnly
<1>9. Turned(v, t)
  BY <1>8 DEF Turned, Stores, Ends
<1> HIDE DEF t
<1>10. t \in Stores /\ Sound(t, a) /\ t.states = [s.states EXCEPT ![i] = y] /\ t.states[i].published = r
  BY <1>5, <1>8, <1>9, TurnedSound DEF Turned
<1>11. Valid(r)
  BY <1>2 DEF Valid, Stores
<1>12. Selectable(t, a, r)
  BY <1>10, <1>11, KeptSelectable DEF KeptRecord
<1>13. Pick(t, r).s = t /\ Pick(t, r).r = r
  BY DEF Pick
<1> QED
  BY <1>2, <1>4, <1>10, <1>12, <1>13 DEF y, x

LEMMA OldestIs ==
  ASSUME NEW rs, rs \subseteq Recs, rs # {}
  PROVE Oldest(rs) \in rs
<1> DEFINE toks == {r.tok : r \in rs}
<1>1. toks \subseteq Nat /\ toks # {}
  BY DEF Recs
<1>2. PICK n \in toks : \A m \in toks : n <= m
  BY <1>1, Least
<1>3. \E r \in rs : \A q \in rs : r.tok <= q.tok
  BY <1>2
<1> QED
  BY <1>3 DEF Oldest

LEMMA CyclicIs ==
  ASSUME NEW S, S \subseteq Int, S # {}, NEW from \in Int, NEW n \in Nat \ {0}
  PROVE Cyclic(S, from, n) \in S
<1> DEFINE offs == {(i - from) % n : i \in S}
<1>1. ASSUME NEW i \in S PROVE (i - from) % n \in Nat
  <2>1. i - from \in Int /\ n \in Int /\ n > 0
    OBVIOUS
  <2> QED
    BY <2>1
<1>2. offs \subseteq Nat /\ offs # {}
  BY <1>1
<1>3. PICK k \in offs : \A m \in offs : k <= m
  BY <1>2, Least
<1>4. \E i \in S : \A j \in S : (i - from) % n <= (j - from) % n
  BY <1>3
<1> QED
  BY <1>4 DEF Cyclic

\* The choices: a record that is kept, the progress of an operation or a new
\* state.
KeptChoice(s, c) == Turned(s, c.s) /\ Valid(c.r) /\ KeptRecord(s, c.r)
ProgressChoice(s, c) ==
    \E u : \E i \in Opers : /\ Turned(s, u) /\ s.ops[i].active /\ ~Hidden(s.ops[i])
                            /\ c = SendProgress(u, i)
StateChoice(s, c) ==
    \E i \in Ends : s.states[i].candidate /\ s.states[i].publishAge >= Pace /\ c = SendState(s, i)
Choice(s, c) == KeptChoice(s, c) \/ ProgressChoice(s, c) \/ StateChoice(s, c)

LEMMA PicksAre ==
  ASSUME NEW s \in Stores, NEW a, Sound(s, a), NEW c \in Picks(s)
  PROVE Choice(s, c)
<1>0. /\ Turned(s, s) /\ s.queueTurn \in Int /\ s.opTurn \in Int /\ s.stateTurn \in Int
      /\ QueueSize \in Nat \ {0} /\ OpSize \in Nat \ {0} /\ 2 \in Nat \ {0}
  BY SizesAssumption DEF Turned, Stores
<1>1. \A r, u : Pick(u, r).s = u /\ Pick(u, r).r = r
  BY DEF Pick
<1>2. ASSUME NEW rs, rs \subseteq Queued(s), rs # {}, c = Pick(s, Oldest(rs))
      PROVE KeptChoice(s, c)
  <2>1. Queued(s) \subseteq Recs
    BY DEF Queued, Queue, Stores
  <2>2. Oldest(rs) \in Queued(s)
    BY <1>2, <2>1, OldestIs
  <2>3. Valid(Oldest(rs)) /\ KeptRecord(s, Oldest(rs))
    BY <2>2 DEF Queued, KeptRecord, Queue
  <2> QED
    BY <1>0, <1>1, <1>2, <2>3 DEF KeptChoice
<1>3. CASE PowerFirst(s) # {}
  <2> DEFINE rs == {r \in Queued(s) : Power(r)}
             urgent == {r \in rs : r.ev \in Urgent}
  <2>1. PICK r \in PowerFirst(s) : c = Pick(s, r)
    BY <1>3 DEF Picks
  <2>2. (r = Oldest(urgent) /\ urgent # {}) \/ (r = Oldest(rs) /\ rs # {})
    BY <2>1 DEF PowerFirst
  <2>3. urgent \subseteq Queued(s) /\ rs \subseteq Queued(s)
    OBVIOUS
  <2> HIDE DEF rs, urgent
  <2> QED
    BY <1>2, <2>1, <2>2, <2>3 DEF Choice
<1>4. CASE PowerFirst(s) = {} /\ FirstCopies(s) # {}
  <2> DEFINE rs == {r \in Queued(s) : r.copies = 0}
  <2>1. PICK r \in FirstCopies(s) : c = Pick(s, r)
    BY <1>4 DEF Picks
  <2>2. r = Oldest(rs) /\ rs # {}
    BY <2>1 DEF FirstCopies
  <2>3. rs \subseteq Queued(s)
    OBVIOUS
  <2> HIDE DEF rs
  <2> QED
    BY <1>2, <2>1, <2>2, <2>3 DEF Choice
<1>5. CASE PowerFirst(s) = {} /\ FirstCopies(s) = {}
  <2>0. c \in (IF Beats(s) # {} THEN Beats(s)
           ELSE IF Repeats(s) # {} THEN
                LET i == Cyclic(Repeats(s), s.queueTurn, QueueSize)
                IN  {Pick([s EXCEPT !.queueTurn = (i % QueueSize) + 1], s.queue[i])}
           ELSE IF NewStates(s) # {} THEN {SendState(s, Cyclic(NewStates(s), s.stateTurn, 2))}
           ELSE IF Steps(s) # {} THEN
                LET i == Cyclic(Steps(s), s.opTurn, OpSize)
                    u == [s EXCEPT !.opTurn = (i % OpSize) + 1]
                IN  {IF Settled(s.ops[i]) THEN SendProgress(u, i) ELSE Pick(u, s.ops[i].latest)}
           ELSE IF OldStates(s) # {} THEN
                LET i == Cyclic(OldStates(s), s.stateTurn, 2)
                IN  {Pick([s EXCEPT !.stateTurn = 1 - i], s.states[i].published)}
           ELSE {})
    BY <1>5 DEF Picks
  <2>1. CASE Beats(s) # {}
    <3>1. c \in Beats(s)
      BY <2>0, <2>1
    <3>2. CASE \E i \in OpBeats(s) : c = IF s.ops[i].candidate THEN SendProgress(s, i) ELSE Pick(s, s.ops[i].latest)
      <4>1. PICK i \in OpBeats(s) : c = IF s.ops[i].candidate THEN SendProgress(s, i) ELSE Pick(s, s.ops[i].latest)
        BY <3>2
      <4>2. /\ i \in Opers /\ s.ops[i].active /\ ~Hidden(s.ops[i])
            /\ Valid(s.ops[i].latest) \/ s.ops[i].candidate
        BY DEF OpBeats, Opers, Hidden
      <4>3. CASE s.ops[i].candidate
        BY <1>0, <4>1, <4>2, <4>3 DEF Choice, ProgressChoice
      <4>4. CASE ~s.ops[i].candidate
        BY <1>0, <1>1, <4>1, <4>2, <4>4 DEF Choice, KeptChoice, KeptRecord
      <4> QED
        BY <4>3, <4>4
    <3>3. CASE \E i \in StateBeats(s) : c = Pick(s, s.states[i].published)
      <4>1. PICK i \in StateBeats(s) : c = Pick(s, s.states[i].published)
        BY <3>3
      <4>2. i \in Ends /\ Valid(s.states[i].published)
        BY DEF StateBeats, Ends
      <4> QED
        BY <1>0, <1>1, <4>1, <4>2 DEF Choice, KeptChoice, KeptRecord
    <3> QED
      BY <3>1, <3>2, <3>3 DEF Beats
  <2>2. CASE Beats(s) = {} /\ Repeats(s) # {}
    <3> DEFINE i == Cyclic(Repeats(s), s.queueTurn, QueueSize)
               u == [s EXCEPT !.queueTurn = (i % QueueSize) + 1]
    <3>1. c = Pick(u, s.queue[i])
      BY <2>0, <2>2
    <3>2. Repeats(s) \subseteq Int
      BY DEF Repeats
    <3>3. i \in Repeats(s)
      BY <1>0, <2>2, <3>2, CyclicIs
    <3> HIDE DEF i
    <3>4. i \in Queue /\ s.queue[i].copies > 0 /\ i \in Int
      BY <3>3 DEF Repeats, Queue
    <3>5. Valid(s.queue[i])
      <4>1. Full(s.queue[i])
        BY <3>4 DEF Sound, Core, Unspent
      <4> QED
        BY <3>4, <4>1 DEF Full, NoRec
    <3>6. (i % QueueSize) + 1 \in Int
      BY <1>0, <3>4
    <3>7. Turned(s, u)
      BY <3>6 DEF Turned, Stores
    <3> QED
      BY <1>1, <3>1, <3>4, <3>5, <3>7 DEF Choice, KeptChoice, KeptRecord
  <2>3. CASE Beats(s) = {} /\ Repeats(s) = {} /\ NewStates(s) # {}
    <3> DEFINE i == Cyclic(NewStates(s), s.stateTurn, 2)
    <3>1. c = SendState(s, i)
      BY <2>0, <2>3
    <3>2. NewStates(s) \subseteq Int
      BY DEF NewStates
    <3>3. i \in NewStates(s)
      BY <1>0, <2>3, <3>2, CyclicIs
    <3> HIDE DEF i
    <3>4. i \in Ends /\ s.states[i].candidate /\ s.states[i].publishAge >= Pace
      BY <3>3 DEF NewStates, Ends
    <3> QED
      BY <3>1, <3>4 DEF Choice, StateChoice
  <2>4. CASE Beats(s) = {} /\ Repeats(s) = {} /\ NewStates(s) = {} /\ Steps(s) # {}
    <3> DEFINE i == Cyclic(Steps(s), s.opTurn, OpSize)
               u == [s EXCEPT !.opTurn = (i % OpSize) + 1]
    <3>1. c = IF Settled(s.ops[i]) THEN SendProgress(u, i) ELSE Pick(u, s.ops[i].latest)
      BY <2>0, <2>4
    <3>2. Steps(s) \subseteq Int
      BY DEF Steps
    <3>3. i \in Steps(s)
      BY <1>0, <2>4, <3>2, CyclicIs
    <3> HIDE DEF i
    <3>4. i \in Opers /\ (Settled(s.ops[i]) \/ UnsentStep(s.ops[i])) /\ i \in Int
      BY <3>3 DEF Steps, Opers
    <3>5. (i % OpSize) + 1 \in Int
      BY <1>0, <3>4
    <3>6. Turned(s, u)
      BY <3>5 DEF Turned, Stores
    <3> HIDE DEF u
    <3>7. CASE Settled(s.ops[i])
      <4>1. s.ops[i].active /\ ~Hidden(s.ops[i])
        <5>1. OpShape(s, i)
          BY <3>4 DEF Sound, Core, OpsShape
        <5> QED
          BY <3>7, <5>1 DEF Settled, OpShape
      <4> QED
        BY <3>1, <3>4, <3>6, <3>7, <4>1 DEF Choice, ProgressChoice
    <3>8. CASE ~Settled(s.ops[i])
      <4>1. Valid(s.ops[i].latest)
        BY <3>4, <3>8 DEF UnsentStep
      <4> QED
        BY <1>1, <3>1, <3>4, <3>6, <3>8, <4>1 DEF Choice, KeptChoice, KeptRecord
    <3> QED
      BY <3>7, <3>8
  <2>5. CASE Beats(s) = {} /\ Repeats(s) = {} /\ NewStates(s) = {} /\ Steps(s) = {} /\ OldStates(s) # {}
    <3> DEFINE i == Cyclic(OldStates(s), s.stateTurn, 2)
               u == [s EXCEPT !.stateTurn = 1 - i]
    <3>1. c = Pick(u, s.states[i].published)
      BY <2>0, <2>5
    <3>2. OldStates(s) \subseteq Int
      BY DEF OldStates
    <3>3. i \in OldStates(s)
      BY <1>0, <2>5, <3>2, CyclicIs
    <3> HIDE DEF i
    <3>4. i \in Ends /\ Valid(s.states[i].published) /\ 1 - i \in Int
      BY <3>3 DEF OldStates, Ends
    <3>5. Turned(s, u)
      BY <3>4 DEF Turned, Stores
    <3> QED
      BY <1>1, <3>1, <3>4, <3>5 DEF Choice, KeptChoice, KeptRecord
  <2>6. CASE Beats(s) = {} /\ Repeats(s) = {} /\ NewStates(s) = {} /\ Steps(s) = {} /\ OldStates(s) = {}
    BY <2>0, <2>6
  <2> QED
    BY <2>1, <2>2, <2>3, <2>4, <2>5, <2>6
<1> QED
  BY <1>3, <1>4, <1>5

\* A rest state that is offered is the one that is published, if any is.
Offered(s) ==
    \A i \in Ends : s.selected.ev = RestOf(i) /\ Valid(s.states[i].published)
                       => s.states[i].published.tok = s.selected.tok

LEMMA ChoiceSound ==
  ASSUME NEW s \in Stores, NEW a, Sound(s, a), NEW c, Choice(s, c)
  PROVE LET t == [c.s EXCEPT !.selected = c.r]
        IN  t \in Stores /\ Sound(t, a) /\ Offered(t) /\ t.selected = c.r /\ t.states = c.s.states
<1> DEFINE u == c.s
           r == c.r
           t == [u EXCEPT !.selected = r]
<1>1. CASE KeptChoice(s, c)
  <2>1. Turned(s, u) /\ Valid(r) /\ KeptRecord(s, r)
    BY <1>1 DEF KeptChoice
  <2> HIDE DEF u, r
  <2>2. u \in Stores /\ Sound(u, a) /\ KeptRecord(u, r)
    BY <2>1, TurnedSound DEF Turned, KeptRecord
  <2>3. t \in Stores /\ Sound(t, a) /\ t.selected = r /\ t.states = u.states
    BY <2>1, <2>2, KeptSelectable, SelectedSound
  <2>4. ASSUME NEW i \in Ends, r.ev = RestOf(i) PROVE r = u.states[i].published
    <3>1. \A j \in Queue : r # u.queue[j]
      <4>1. \A j \in Queue : Full(u.queue[j])
        BY <2>2 DEF Sound, Core, Unspent
      <4> QED
        BY <2>1, <2>4, <4>1 DEF Full, Rests, RestOf
    <3>2. \A j \in Opers : r # u.ops[j].latest
      <4>1. \A j \in Opers : OpShape(u, j)
        BY <2>2 DEF Sound, Core, OpsShape
      <4> QED
        BY <2>1, <2>4, <4>1 DEF OpShape, RestOf
    <3>3. PICK j \in Ends : r = u.states[j].published
      BY <2>2, <3>1, <3>2 DEF KeptRecord
    <3>4. r.ev = RestOf(j)
      BY <2>1, <2>2, <3>3 DEF Sound, Core, StatesShape
    <3>5. i = j
      BY <2>4, <3>4 DEF RestOf, Ends
    <3> QED
      BY <3>3, <3>5
  <2> HIDE DEF t
  <2>5. Offered(t)
    BY <2>3, <2>4 DEF Offered
  <2> QED
    BY <2>3, <2>5 DEF t, u, r
<1>2. CASE ProgressChoice(s, c)
  <2>1. PICK v, i : /\ i \in Opers /\ Turned(s, v) /\ s.ops[i].active /\ ~Hidden(s.ops[i])
                    /\ c = SendProgress(v, i)
    BY <1>2 DEF ProgressChoice
  <2>2. v \in Stores /\ Sound(v, a) /\ v.ops = s.ops
    BY <2>1, TurnedSound DEF Turned
  <2>3. u \in Stores /\ Sound(u, a) /\ Selectable(u, a, r) /\ r.ev = "STEP"
    BY <2>1, <2>2, ProgressSound
  <2> HIDE DEF u, r
  <2>4. t \in Stores /\ Sound(t, a) /\ t.selected = r /\ t.states = u.states
    BY <2>3, SelectedSound
  <2> HIDE DEF t
  <2>5. Offered(t)
    BY <2>3, <2>4 DEF Offered, RestOf
  <2> QED
    BY <2>4, <2>5 DEF t, u, r
<1>3. CASE StateChoice(s, c)
  <2>1. PICK i \in Ends : c = SendState(s, i)
    BY <1>3 DEF StateChoice
  <2>2. /\ u \in Stores /\ Sound(u, a) /\ Selectable(u, a, r) /\ r.ev = RestOf(i)
        /\ u.states[i].published = r
    BY <2>1, StateSound
  <2> HIDE DEF u, r
  <2>3. t \in Stores /\ Sound(t, a) /\ t.selected = r /\ t.states = u.states
    BY <2>2, SelectedSound
  <2> HIDE DEF t
  <2>4. \A j \in Ends : r.ev = RestOf(j) => j = i
    BY <2>2 DEF RestOf, Ends
  <2>5. Offered(t)
    BY <2>2, <2>3, <2>4 DEF Offered
  <2> QED
    BY <2>3, <2>5 DEF t, u, r
<1> QED
  BY <1>1, <1>2, <1>3 DEF Choice

-----------------------------------------------------------------------------
(* Admission *)

OpAlike(p, o) ==
    /\ p.id = o.id /\ p.active = o.active /\ p.auto = o.auto /\ p.visible = o.visible
    /\ p.candidate = o.candidate
    /\ p.latest.tok = o.latest.tok /\ p.latest.op = o.latest.op /\ p.latest.ev = o.latest.ev
SlotAlike(y, x) ==
    /\ y.published.tok = x.published.tok /\ y.published.op = x.published.op
    /\ y.published.ev = x.published.ev /\ y.published.limit = x.published.limit

LEMMA AlikeShapes ==
  ASSUME NEW s, NEW t, NEW a, Sound(s, a), t.nextOp = s.nextOp, t.serial = s.serial,
         \A i \in Opers : OpAlike(t.ops[i], s.ops[i]), \A i \in Ends : SlotAlike(t.states[i], s.states[i])
  PROVE /\ OpsShape(t) /\ StatesShape(t) /\ Kept(t)
        /\ \A i \in Opers : t.ops[i].id = s.ops[i].id /\ (t.ops[i].active => s.ops[i].active)
<1>1. OpsShape(t)
  BY DEF Sound, Core, OpsShape, OpShape, OpAlike, Valid, Hidden
<1>2. StatesShape(t)
  BY DEF Sound, Core, StatesShape, SlotAlike, Valid
<1>3. Kept(t)
  BY DEF Sound, Kept, OpAlike, SlotAlike
<1> QED
  BY <1>1, <1>2, <1>3 DEF OpAlike

LEMMA CountedIs ==
  ASSUME NEW r \in Recs
  PROVE LET n == Counted(r)
        IN  /\ n \in Recs /\ Alike(n, r) /\ n.val = r.val /\ n.age = r.age
            /\ n.copies = IF r.copies < NoticeCopies + 1 THEN r.copies + 1 ELSE r.copies
<1>1. NoticeCopies \in Nat /\ r.copies \in Nat
  BY Sizes DEF Recs
<1>2. Older(r.copies, NoticeCopies + 1) \in Nat
  BY <1>1 DEF Older
<1> QED
  BY <1>1, <1>2 DEF Counted, Alike, Recs, Older

LEMMA QueueReceiptIs ==
  ASSUME NEW s \in Stores, NEW r \in Recs, NEW r0 \in Recs, Full(r)
  PROVE LET q == QueueReceipt(s, r, r0)
        IN  /\ q \in Recs /\ (q = NoRec \/ (Alike(q, r) /\ Full(q)))
            /\ r.tok # r0.tok => q = r
<1> DEFINE n == Counted(r)
<1>1. /\ n \in Recs /\ Alike(n, r)
      /\ n.copies = IF r.copies < NoticeCopies + 1 THEN r.copies + 1 ELSE r.copies
  BY CountedIs
<1>2. CASE r.tok # r0.tok
  BY <1>2 DEF QueueReceipt, Alike
<1>3. CASE r.tok = r0.tok
  <2>0. 0 \in Nat
    OBVIOUS
  <2>1. CASE n.copies >= n.limit
    BY <1>3, <2>1, NoRecIs DEF QueueReceipt, Spent
  <2>2. CASE ~(n.copies >= n.limit)
    <3> DEFINE m == [n EXCEPT !.age = 0]
    <3>1. QueueReceipt(s, r, r0) \in {m, n}
      BY <1>3, <2>2 DEF QueueReceipt, Spent
    <3> HIDE DEF n
    <3>2. m \in Recs /\ Alike(m, n) /\ m.copies = n.copies
      BY <1>1 DEF Recs, Alike
    <3> HIDE DEF m
    <3>3. ASSUME NEW q \in {m, n} PROVE q \in Recs /\ Alike(q, r) /\ Full(q)
      <4>1. q \in Recs /\ Alike(q, r) /\ q.copies = n.copies /\ q.limit = n.limit
        BY <1>1, <3>2 DEF Alike
      <4>2. q.copies \in Nat /\ q.limit \in Nat
        BY <4>1 DEF Recs
      <4>3. Valid(r) => Valid(q) /\ q.ev = r.ev
        BY <4>1 DEF Alike, Valid
      <4>4. CASE Valid(r)
        BY <2>2, <4>1, <4>2, <4>3, <4>4 DEF Full
      <4>5. CASE ~Valid(r)
        <5>1. r = NoRec
          BY <4>5 DEF Full
        <5>2. n.limit = 0 /\ n.copies \in Nat
          BY <1>1, <5>1 DEF NoRec, Alike, Recs
        <5> QED
          BY <2>2, <5>2
      <4> QED
        BY <4>1, <4>4, <4>5
    <3> QED
      BY <1>3, <3>1, <3>3
  <2> QED
    BY <2>1, <2>2
<1> QED
  BY <1>2, <1>3

LEMMA OpReceiptIs ==
  ASSUME NEW o \in Ops, NEW r0 \in Recs
  PROVE OpReceipt(o, r0) \in Ops /\ OpAlike(OpReceipt(o, r0), o)
<1> DEFINE mine == Valid(o.latest) /\ o.latest.tok = r0.tok
           n == IF mine THEN Counted(o.latest) ELSE o.latest
           m == IF r0.ev = "STEP" THEN 0 ELSE o.progress
           p == [o EXCEPT !.latest = n, !.beat = OpBeat, !.progress = m]
<1>1. OpReceipt(o, r0) \in {p, o}
  BY DEF OpReceipt, Ops
<1>2. o.latest \in Recs /\ o.progress \in Nat /\ OpBeat \in Nat
  BY IntervalsAre DEF Ops
<1>3. n \in Recs /\ Alike(n, o.latest)
  BY <1>2, CountedIs DEF Alike
<1>4. m \in Nat
  BY <1>2
<1> HIDE DEF n, m
<1>5. p \in Ops /\ OpAlike(p, o)
  BY <1>2, <1>3, <1>4 DEF Ops, OpAlike, Alike
<1>6. OpAlike(o, o)
  BY DEF OpAlike
<1> QED
  BY <1>1, <1>5, <1>6

\* The state x after the admission of r0.
LEMMA StateReceiptIs ==
  ASSUME NEW x \in Slots, NEW i \in Ends, NEW r0 \in Recs
  PROVE LET mine == Valid(x.published) /\ x.published.tok = r0.tok
            first == (r0.ev = RestOf(i) /\ r0.copies = 0) \/ (mine /\ x.published.copies = 0)
            y == StateReceipt(x, i, r0)
        IN  /\ y \in Slots /\ SlotAlike(y, x)
            /\ y.val = x.val /\ y.candidate = x.candidate /\ y.observed = x.observed /\ y.seen = x.seen
            /\ y.published.val = x.published.val
            /\ y.published = IF mine THEN Counted(x.published) ELSE x.published
            /\ y.sentAge = IF mine THEN 0 ELSE x.sentAge
            /\ y.publishAge = IF first THEN 0 ELSE x.publishAge
<1> DEFINE mine == Valid(x.published) /\ x.published.tok = r0.tok
           first == (r0.ev = RestOf(i) /\ r0.copies = 0) \/ (mine /\ x.published.copies = 0)
           p == IF mine THEN Counted(x.published) ELSE x.published
           m == IF mine THEN 0 ELSE x.sentAge
           n == IF first THEN 0 ELSE x.publishAge
           y == [x EXCEPT !.published = p, !.sentAge = m, !.publishAge = n]
<1>1. StateReceipt(x, i, r0) = y
  BY DEF StateReceipt, Slots
<1>2. x.published \in Recs /\ x.sentAge \in Nat /\ x.publishAge \in Nat
  BY DEF Slots
<1>3. p \in Recs /\ Alike(p, x.published) /\ p.val = x.published.val
  BY <1>2, CountedIs DEF Alike
<1>4. m \in Nat /\ n \in Nat
  BY <1>2
<1> HIDE DEF p, m, n
<1>5. /\ y \in Slots /\ y.published = p /\ y.sentAge = m /\ y.publishAge = n
      /\ y.val = x.val /\ y.candidate = x.candidate /\ y.observed = x.observed /\ y.seen = x.seen
  BY <1>3, <1>4 DEF Slots
<1> HIDE DEF y
<1>6. SlotAlike(y, x)
  BY <1>3, <1>5 DEF SlotAlike, Alike
<1> QED
  BY <1>1, <1>3, <1>5, <1>6 DEF p, m, n

LEMMA AdmittedIs ==
  ASSUME NEW s \in Stores, NEW a, Sound(s, a), NEW r0 \in Recs
  PROVE LET t == Admitted(s, r0)
        IN  /\ t \in Stores /\ Lessened(s, t) /\ t.nonce = s.nonce /\ t.selected = NoRec
            /\ \A i \in Ends : t.startup.pending[i] => s.startup.tok[i] # r0.tok
            /\ \A i \in Ends : t.states[i] = StateReceipt(s.states[i], i, r0)
<1> DEFINE q == [i \in Queue |-> QueueReceipt(s, s.queue[i], r0)]
           o == [i \in Opers |-> OpReceipt(s.ops[i], r0)]
           x == [i \in Ends |-> StateReceipt(s.states[i], i, r0)]
           b == [s.startup EXCEPT !.pending = PendingAfter(s, r0)]
           t == [s EXCEPT !.gate = Spacing, !.selected = NoRec, !.startup = b, !.queue = q, !.ops = o, !.states = x]
<1>0. /\ s.queue \in [Queue -> Recs] /\ s.ops \in [Opers -> Ops] /\ s.states \in [Ends -> Slots]
      /\ s.startup \in Startups /\ Spacing \in Nat
  BY IntervalsAre DEF Stores
<1>1. Admitted(s, r0) = t
  BY DEF Admitted, Queue, Opers, Ends, Stores, Startups
<1>2. \A i \in Queue : Full(s.queue[i])
  BY DEF Sound, Core, Unspent
<1>3. /\ q \in [Queue -> Recs]
      /\ \A i \in Queue : q[i] = NoRec \/ (Alike(q[i], s.queue[i]) /\ Full(q[i]))
      /\ \A i \in Queue : s.queue[i].tok # r0.tok => q[i] = s.queue[i]
  BY <1>0, <1>2, QueueReceiptIs
<1>4. o \in [Opers -> Ops] /\ \A i \in Opers : OpAlike(o[i], s.ops[i])
  BY <1>0, OpReceiptIs
<1>5. x \in [Ends -> Slots] /\ \A i \in Ends : SlotAlike(x[i], s.states[i]) /\ x[i] = StateReceipt(s.states[i], i, r0)
  BY <1>0, StateReceiptIs
<1>6. /\ b \in Startups /\ b.tok = s.startup.tok /\ b.scheduled = s.startup.scheduled
      /\ b.retired = s.startup.retired
      /\ \A i \in Ends : b.pending[i] => s.startup.pending[i] /\ s.startup.tok[i] # r0.tok
  BY <1>0 DEF Startups, PendingAfter, Ends
<1> HIDE DEF q, o, x, b
<1>7. /\ t \in Stores /\ t.queue = q /\ t.ops = o /\ t.states = x /\ t.startup = b
      /\ t.nonce = s.nonce /\ t.selected = NoRec /\ t.nextOp = s.nextOp /\ t.serial = s.serial
  BY <1>0, <1>3, <1>4, <1>5, <1>6, NoRecIs DEF Stores
<1> HIDE DEF t
<1>8. /\ OpsShape(t) /\ StatesShape(t) /\ Kept(t)
      /\ \A i \in Opers : t.ops[i].id = s.ops[i].id /\ (t.ops[i].active => s.ops[i].active)
  BY <1>4, <1>5, <1>7, AlikeShapes
<1>9. ASSUME NEW i \in Ends, NEW j \in Queue, t.startup.pending[i], s.startup.tok[i] # 0,
             s.queue[j].tok = s.startup.tok[i], s.queue[j].ev = BootOf(i)
      PROVE Alike(t.queue[j], s.queue[j])
  <2>1. s.startup.tok[i] # r0.tok
    BY <1>6, <1>7, <1>9
  <2>2. s.queue[j].tok # r0.tok
    BY <2>1, <1>9
  <2>3. t.queue[j] = s.queue[j]
    BY <2>2, <1>3, <1>7
  <2> QED
    BY <2>3, AlikeItself
<1>10. \A j \in Queue : t.queue[j] = NoRec \/ (Alike(t.queue[j], s.queue[j]) /\ Full(t.queue[j]))
  BY <1>3, <1>7
<1>11. /\ \A i \in Ends : t.startup.pending[i] => s.startup.pending[i]
       /\ t.startup.tok = s.startup.tok /\ t.startup.scheduled = s.startup.scheduled
       /\ s.startup.retired => t.startup.retired
       /\ \A i \in Ends : t.startup.pending[i] => s.startup.tok[i] # r0.tok
  BY <1>6, <1>7
<1>12. Lessened(s, t)
  BY <1>7, <1>8, <1>9, <1>10, <1>11 DEF Lessened
<1> HIDE DEF t
<1> QED
  BY <1>1, <1>5, <1>7, <1>11, <1>12

\* The air after the admission of r.
Aired(a, r) ==
    [a EXCEPT
       !.ended = IF r.ev = "END" THEN @ \cup {<<r.op, r.tok>>} ELSE @,
       !.boots = [i \in {0, 1} |-> IF r.ev = (IF i = 0 THEN "BOOT" ELSE "WATCHDOG")
                                   THEN @[i] \cup {r.nonce} ELSE @[i]]]

LEMMA AiredIs ==
  ASSUME NEW a \in Airs, NEW r \in Recs
  PROVE LET b == Aired(a, r)
        IN  /\ b \in Airs /\ b.cancel = a.cancel /\ b.intent = a.intent
            /\ b.ended = IF r.ev = "END" THEN a.ended \cup {<<r.op, r.tok>>} ELSE a.ended
            /\ \A i \in Ends : b.boots[i] = IF r.ev = BootOf(i) THEN a.boots[i] \cup {r.nonce} ELSE a.boots[i]
<1> DEFINE e == IF r.ev = "END" THEN a.ended \cup {<<r.op, r.tok>>} ELSE a.ended
           f == [i \in Ends |-> IF r.ev = BootOf(i) THEN a.boots[i] \cup {r.nonce} ELSE a.boots[i]]
           b == [a EXCEPT !.ended = e, !.boots = f]
<1>1. Aired(a, r) = b
  BY DEF Aired, BootOf, Ends, Airs
<1>2. r.op \in Nat /\ r.tok \in Nat /\ r.nonce \in Nat /\ a.boots \in [Ends -> SUBSET Nat]
      /\ a.ended \in SUBSET (Nat \X Nat)
  BY DEF Recs, Airs
<1>3. e \in SUBSET (Nat \X Nat)
  BY <1>2
<1>4. f \in [Ends -> SUBSET Nat]
  BY <1>2
<1>5. \A i \in Ends : f[i] = IF r.ev = BootOf(i) THEN a.boots[i] \cup {r.nonce} ELSE a.boots[i]
  OBVIOUS
<1> HIDE DEF e, f
<1>6. b \in Airs /\ b.cancel = a.cancel /\ b.intent = a.intent /\ b.ended = e /\ b.boots = f
  BY <1>3, <1>4 DEF Airs
<1> QED
  BY <1>1, <1>5, <1>6 DEF e

LEMMA AdmitSound ==
  ASSUME NEW s \in Stores, NEW a \in Airs, Sound(s, a), NEW r, r = s.selected,
         Valid(r), r.nonce = s.nonce
  PROVE Admitted(s, r) \in Stores /\ Sound(Admitted(s, r), Aired(a, r)) /\ Aired(a, r) \in Airs
<1> DEFINE t == Admitted(s, r)
           b == Aired(a, r)
           c == [a EXCEPT !.ended = b.ended]
<1>0. r \in Recs
  BY DEF Stores
<1>1. /\ b \in Airs /\ b.intent = a.intent
      /\ b.ended = IF r.ev = "END" THEN a.ended \cup {<<r.op, r.tok>>} ELSE a.ended
      /\ \A i \in Ends : b.boots[i] = IF r.ev = BootOf(i) THEN a.boots[i] \cup {r.nonce} ELSE a.boots[i]
  BY <1>0, AiredIs
<1>2. /\ t \in Stores /\ Lessened(s, t) /\ t.nonce = s.nonce /\ t.selected = NoRec
      /\ \A i \in Ends : t.startup.pending[i] => s.startup.tok[i] # r.tok
  BY <1>0, AdmittedIs
<1> HIDE DEF t, b
<1>3. c.boots = a.boots /\ c.intent = a.intent /\ c.ended = b.ended
  BY DEF Airs
<1> HIDE DEF c
<1>4. Sound(s, c)
  <2>1. \A e : e \in Closers(s, c) <=> e \in Closers(s, a)
    BY <1>1, <1>3, ClosersIs
  <2>2. Closed(s, c)
    BY <2>1 DEF Sound, Core, Closed
  <2>3. Heard(s, c)
    BY <1>3 DEF Sound, Core, Heard, Announces
  <2> QED
    BY <2>2, <2>3 DEF Sound, Core
<1>5. Sound(t, c)
  BY <1>2, <1>4, LessenedSound
<1>6. Closed(t, b)
  BY <1>3, <1>5 DEF Sound, Core, Closed, Closers
<1>7. Heard(t, b)
  <2>1. Announces(s, a, r)
    BY DEF Sound, Core, Heard
  <2>2. ASSUME NEW i \in Ends, r.ev = BootOf(i)
        PROVE /\ ~t.startup.pending[i] /\ t.startup.scheduled
              /\ t.nonce # 0 /\ b.boots[i] \subseteq {t.nonce}
    <3>1. /\ r.tok = s.startup.tok[i] /\ r.nonce # 0 /\ s.startup.scheduled
          /\ a.boots[i] \subseteq {s.nonce}
      BY <2>1, <2>2 DEF Announces
    <3> QED
      BY <3>1, <2>2, <1>1, <1>2 DEF Lessened
  <2>3. ASSUME NEW i \in Ends, r.ev # BootOf(i) PROVE b.boots[i] = c.boots[i]
    BY <2>3, <1>1, <1>3
  <2>4. ASSUME NEW q, Announces(t, c, q) PROVE Announces(t, b, q)
    BY <2>2, <2>3, <2>4, <1>1, <1>3 DEF Announces
  <2>5. \A j \in Queue : Announces(t, b, t.queue[j])
    BY <2>4, <1>5 DEF Sound, Core, Heard
  <2>6. Announces(t, b, t.selected)
    BY <2>4, <1>5 DEF Sound, Core, Heard
  <2>7. \A i \in Ends : t.startup.pending[i] \/ ~t.startup.scheduled => b.boots[i] = {}
    BY <2>2, <2>3, <1>5 DEF Sound, Core, Heard
  <2>8. \A i \in Ends : \A m, n \in b.boots[i] : m = n
    BY <2>2, <2>3, <1>5 DEF Sound, Core, Heard
  <2>9. b.intent # 0 => t.startup.retired /\ \A i \in Ends : ~t.startup.pending[i]
    BY <1>1, <1>3, <1>5 DEF Sound, Core, Heard
  <2> QED
    BY <2>5, <2>6, <2>7, <2>8, <2>9 DEF Heard
<1>8. Sound(t, b)
  BY <1>5, <1>6, <1>7 DEF Sound, Core
<1> QED
  BY <1>1, <1>2, <1>8 DEF t, b

-----------------------------------------------------------------------------
(* Refusal, time and a change of identity *)

LEMMA RefuseSound ==
  ASSUME NEW s \in Stores, NEW a, Sound(s, a)
  PROVE LET t == [s EXCEPT !.gate = Refused, !.selected = NoRec] IN t \in Stores /\ Sound(t, a)
<1> DEFINE t == [s EXCEPT !.gate = Refused, !.selected = NoRec]
<1>1. NoRec \in Recs /\ Refused \in Nat
  BY NoRecIs, IntervalsAre
<1>2. /\ t \in Stores /\ t.queue = s.queue /\ t.ops = s.ops /\ t.states = s.states
      /\ t.startup = s.startup /\ t.nonce = s.nonce /\ t.selected = NoRec
      /\ t.nextOp = s.nextOp /\ t.serial = s.serial
  BY <1>1 DEF Stores
<1> HIDE DEF t
<1>3. Lessened(s, t)
  BY <1>2, SameShapes, AlikeItself DEF Lessened
<1>4. t \in Stores /\ Sound(t, a)
  BY <1>3, LessenedSound
<1> QED
  BY <1>4 DEF t

LEMMA SessionChangeSound ==
  ASSUME NEW s \in Stores, NEW a, Sound(s, a)
  PROVE LET t == [s EXCEPT !.nonce = 0] IN t \in Stores /\ Sound(t, a)
<1> DEFINE t == [s EXCEPT !.nonce = 0]
<1>1. 0 \in Nat
  OBVIOUS
<1>2. /\ t \in Stores /\ t.queue = s.queue /\ t.ops = s.ops /\ t.states = s.states
      /\ t.startup = s.startup /\ t.nonce = 0 /\ t.selected = s.selected
      /\ t.nextOp = s.nextOp /\ t.serial = s.serial
  BY <1>1 DEF Stores
<1> HIDE DEF t
<1>3. Lessened(s, t)
  BY <1>2, SameShapes, AlikeItself DEF Lessened
<1>4. t \in Stores /\ Sound(t, a)
  BY <1>3, LessenedSound
<1> QED
  BY <1>4 DEF t

LEMMA BlankIs ==
  /\ NoSession.queue \in [Queue -> Recs] /\ NoSession.ops \in [Opers -> Ops]
  /\ NoSession.states \in [Ends -> Slots]
  /\ \A j \in Queue : NoSession.queue[j] = NoRec
  /\ \A i \in Opers : /\ NoSession.ops[i].id = 0 /\ ~NoSession.ops[i].active
                      /\ ~NoSession.ops[i].candidate /\ NoSession.ops[i].latest = NoRec
  /\ \A i \in Ends : NoSession.states[i].published = NoRec
  /\ ~Valid(NoRec) /\ NoRec.tok = 0 /\ NoRec.op = 0 /\ NoRec.ev = "none"
<1>1. NoRec \in Recs /\ ~Valid(NoRec) /\ NoValue \in Values
  BY NoRecIs
<1>2. NoRec.tok = 0 /\ NoRec.op = 0 /\ NoRec.ev = "none"
  BY DEF NoRec
<1>3. NoOp \in Ops /\ NoOp.id = 0 /\ ~NoOp.active /\ ~NoOp.candidate /\ NoOp.latest = NoRec
  BY <1>1, IntervalsAre DEF NoOp, Ops
<1>4. NoSlot \in Slots /\ NoSlot.published = NoRec
  BY <1>1, IntervalsAre DEF NoSlot, Slots
<1> QED
  BY <1>1, <1>2, <1>3, <1>4 DEF NoSession, Queue, Opers, Ends

\* A store without a record, an operation or a state.
Blank(s) ==
    /\ s.queue = NoSession.queue /\ s.ops = NoSession.ops /\ s.states = NoSession.states
    /\ s.selected = NoRec /\ \A i \in Ends : s.startup.tok[i] = 0

LEMMA BlankSound ==
  ASSUME NEW s \in Stores, NEW a, Blank(s),
         \A i \in Ends : s.startup.pending[i] => s.startup.scheduled,
         \A i \in Ends : s.startup.pending[i] \/ ~s.startup.scheduled => a.boots[i] = {},
         \A i \in Ends : \A m, n \in a.boots[i] : m = n,
         a.intent # 0 => s.startup.retired /\ \A i \in Ends : ~s.startup.pending[i],
         \A e \in a.ended : e[1] \in 1..s.nextOp /\ e[2] \in Nat
  PROVE Sound(s, a)
<1>1. s.serial \in Nat /\ s.nextOp \in Nat
  BY DEF Stores
<1>2. /\ \A j \in Queue : s.queue[j] = NoRec
      /\ \A i \in Opers : s.ops[i].id = 0 /\ ~s.ops[i].active /\ ~s.ops[i].candidate /\ s.ops[i].latest = NoRec
      /\ \A i \in Ends : s.states[i].published = NoRec
      /\ s.selected = NoRec
  BY BlankIs DEF Blank
<1>3. Tokens(s) /\ Unspent(s) /\ Kept(s)
  BY <1>1, <1>2, BlankIs DEF Tokens, Unspent, Full, Kept
<1>4. OpsShape(s)
  BY <1>1, <1>2, BlankIs DEF OpsShape, OpShape
<1>5. StatesShape(s)
  BY <1>2, BlankIs DEF StatesShape
<1>6. Boots(s)
  BY DEF Boots, Blank
<1>7. Heard(s, a)
  <2>1. Announces(s, a, NoRec)
    BY BlankIs DEF Announces, BootOf
  <2> QED
    BY <1>2, <2>1 DEF Heard
<1>8. Closed(s, a)
  <2>1. ASSUME NEW e \in Closers(s, a) PROVE Closes(s, e)
    <3>1. e \in a.ended
      BY <1>2, BlankIs, ClosersIs
    <3>2. e[1] \in 1..s.nextOp /\ e[2] \in Nat
      BY <3>1
    <3> QED
      BY <3>2, <1>1, <1>2, BlankIs DEF Closes
  <2> QED
    BY <2>1, <1>1, <1>2, BlankIs DEF Closed
<1> QED
  BY <1>3, <1>4, <1>5, <1>6, <1>7, <1>8 DEF Sound, Core

\* The store of a new identity, or of none when there was no entropy.
Renewed(s, ok) ==
    [s EXCEPT !.queue = NoSession.queue, !.ops = NoSession.ops,
              !.states = NoSession.states, !.gate = 0,
              !.startup.tok = [i \in {0, 1} |-> 0],
              !.notify = \E i \in {0, 1} : s.startup.pending[i],
              !.selected = NoRec, !.epoch = @ + 1,
              !.nonce = IF ok THEN s.epoch + 1 ELSE 0,
              !.entropyFailed = ~ok]

LEMMA RenewedSound ==
  ASSUME NEW s \in Stores, NEW a \in Airs, Sound(s, a), NEW ok \in BOOLEAN
  PROVE Renewed(s, ok) \in Stores /\ Sound(Renewed(s, ok), a)
<1> DEFINE b == [s.startup EXCEPT !.tok = [i \in Ends |-> 0]]
           m == \E i \in {0, 1} : s.startup.pending[i]
           n == IF ok THEN s.epoch + 1 ELSE 0
           t == [s EXCEPT !.queue = NoSession.queue, !.ops = NoSession.ops,
                          !.states = NoSession.states, !.gate = 0, !.startup = b, !.notify = m,
                          !.selected = NoRec, !.epoch = s.epoch + 1, !.nonce = n, !.entropyFailed = ~ok]
<1>1. s.startup \in Startups /\ s.epoch \in Nat /\ s.epoch + 1 \in Nat /\ 0 \in Nat
  BY DEF Stores
<1>2. /\ b \in Startups /\ \A i \in Ends : b.tok[i] = 0
      /\ b.pending = s.startup.pending /\ b.scheduled = s.startup.scheduled /\ b.retired = s.startup.retired
  BY <1>1 DEF Startups
<1>3. n \in Nat /\ m \in BOOLEAN /\ (~ok) \in BOOLEAN
  BY <1>1
<1>4. Renewed(s, ok) = t
  BY DEF Renewed, Ends, Stores, Startups
<1> HIDE DEF b, m, n
<1>5. /\ t \in Stores /\ t.queue = NoSession.queue /\ t.ops = NoSession.ops /\ t.states = NoSession.states
      /\ t.startup = b /\ t.selected = NoRec /\ t.nextOp = s.nextOp
  BY <1>1, <1>2, <1>3, BlankIs, NoRecIs DEF Stores
<1> HIDE DEF t
<1>6. Blank(t)
  BY <1>2, <1>5 DEF Blank
<1>7. \A e \in a.ended : e[1] \in 1..t.nextOp /\ e[2] \in Nat
  BY <1>5, ClosersIs DEF Sound, Core, Closed, Closes, Airs
<1>8. Sound(t, a)
  BY <1>2, <1>5, <1>6, <1>7, BlankSound DEF Sound, Core, Boots, Heard
<1> QED
  BY <1>4, <1>5, <1>8

LEMMA AgesAre ==
  ASSUME NEW x \in Nat, NEW most \in Nat
  PROVE Older(x, most) \in Nat /\ Sooner(x) \in Nat
BY DEF Older, Sooner

LEMMA AgedOpIs ==
  ASSUME NEW o \in Ops
  PROVE AgedOp(o) \in Ops /\ OpAlike(AgedOp(o), o)
<1>1. OpAlike(o, o)
  BY DEF OpAlike
<1> DEFINE m == IF o.active /\ Hidden(o) THEN Older(o.born, Fresh) ELSE 0
           n == IF o.candidate THEN Older(o.changed, Settle) ELSE 0
           b == Sooner(o.beat)
           g == Older(o.progress, Pace)
           r == Older(o.retry, Fresh)
           p == [o EXCEPT !.born = m, !.changed = n, !.beat = b, !.progress = g, !.retry = r]
<1>2. AgedOp(o) \in {o, p}
  BY DEF AgedOp, Ops
<1>3. /\ o.born \in Nat /\ o.changed \in Nat /\ o.beat \in Nat /\ o.progress \in Nat /\ o.retry \in Nat
      /\ Fresh \in Nat /\ Settle \in Nat /\ Pace \in Nat
  BY IntervalsAre DEF Ops
<1>4. m \in Nat /\ n \in Nat /\ b \in Nat /\ g \in Nat /\ r \in Nat
  BY <1>3, AgesAre
<1> HIDE DEF m, n, b, g, r
<1>5. p \in Ops /\ OpAlike(p, o)
  BY <1>4 DEF Ops, OpAlike
<1> QED
  BY <1>1, <1>2, <1>5

LEMMA AgedSlotIs ==
  ASSUME NEW x \in Slots
  PROVE /\ AgedSlot(x) \in Slots /\ SlotAlike(AgedSlot(x), x)
        /\ AgedSlot(x).val = x.val /\ AgedSlot(x).candidate = x.candidate
        /\ AgedSlot(x).observed = x.observed
        /\ AgedSlot(x).published.val = x.published.val
        /\ AgedSlot(x).published.copies = x.published.copies
        /\ AgedSlot(x).publishAge = Older(x.publishAge, Pace)
        /\ AgedSlot(x).sentAge = Older(x.sentAge, StateBeat)
        /\ x.observed => AgedSlot(x).seen = Older(x.seen, Fresh)
<1> DEFINE m == IF x.observed THEN Older(x.seen, Fresh) ELSE 0
           n == Older(x.publishAge, Pace)
           g == Older(x.sentAge, StateBeat)
           h == IF x.published.copies < x.published.limit THEN Older(x.published.age, TTL) ELSE x.published.age
           p == [x.published EXCEPT !.age = h]
           y == [x EXCEPT !.seen = m, !.publishAge = n, !.sentAge = g, !.published = p]
<1>1. /\ x.published \in Recs /\ x.published.age \in Nat /\ x.seen \in Nat /\ x.publishAge \in Nat
      /\ x.sentAge \in Nat /\ Fresh \in Nat /\ Pace \in Nat /\ StateBeat \in Nat /\ TTL \in Nat
  BY IntervalsAre DEF Slots, Recs
<1>2. m \in Nat /\ n \in Nat /\ g \in Nat /\ h \in Nat
  BY <1>1, AgesAre
<1>3. AgedSlot(x) = y
  BY <1>1 DEF AgedSlot, Slots, Recs
<1> HIDE DEF m, n, g, h
<1>4. /\ p \in Recs /\ p.tok = x.published.tok /\ p.op = x.published.op /\ p.ev = x.published.ev
      /\ p.limit = x.published.limit /\ p.val = x.published.val /\ p.copies = x.published.copies
  BY <1>1, <1>2 DEF Recs
<1> HIDE DEF p
<1>5. /\ y \in Slots /\ y.published = p /\ y.val = x.val /\ y.candidate = x.candidate
      /\ y.observed = x.observed /\ y.publishAge = n /\ y.sentAge = g /\ y.seen = m
  BY <1>2, <1>4 DEF Slots
<1> HIDE DEF y
<1> QED
  BY <1>3, <1>4, <1>5 DEF SlotAlike, m, n, g

LEMMA AgedSound ==
  ASSUME NEW s \in Stores, NEW a, Sound(s, a)
  PROVE Aged(s) \in Stores /\ Sound(Aged(s), a)
<1> DEFINE q == [j \in Queue |-> AgedRecord(s.queue[j])]
           o == [i \in Opers |-> AgedOp(s.ops[i])]
           x == [i \in Ends |-> AgedSlot(s.states[i])]
           b == [s.startup EXCEPT !.in = Sooner(s.startup.in)]
           g == Sooner(s.gate)
           t == [s EXCEPT !.gate = g, !.startup = b, !.queue = q, !.ops = o, !.states = x]
<1>0. /\ s.queue \in [Queue -> Recs] /\ s.ops \in [Opers -> Ops] /\ s.states \in [Ends -> Slots]
      /\ s.startup \in Startups /\ s.startup.in \in Nat /\ s.gate \in Nat /\ TTL \in Nat
  BY IntervalsAre DEF Stores, Startups
<1>1. Aged(s) = t
  BY DEF Aged, Queue, Opers, Ends, Stores, Startups
<1>2. ASSUME NEW j \in Queue
      PROVE q[j] \in Recs /\ Alike(q[j], s.queue[j]) /\ Full(q[j])
  <2> DEFINE r == s.queue[j]
             n == Older(r.age, TTL)
             m == [r EXCEPT !.age = n]
  <2>1. r \in Recs /\ Full(r) /\ Alike(r, r) /\ r.age \in Nat
    BY AlikeItself DEF Recs
  <2>2. q[j] = IF Valid(r) THEN m ELSE r
    BY DEF AgedRecord
  <2>3. n \in Nat
    BY <2>1, <1>0, AgesAre
  <2> HIDE DEF n, r
  <2>4. m \in Recs /\ Alike(m, r) /\ m.copies = r.copies
    BY <2>1, <2>3 DEF Recs, Alike
  <2> HIDE DEF m, q
  <2>5. CASE Valid(r)
    <3>1. q[j] = m /\ Valid(m) /\ m.limit = r.limit /\ m.ev = r.ev
      BY <2>2, <2>4, <2>5 DEF Alike, Valid
    <3>2. Full(m)
      BY <2>1, <2>4, <2>5, <3>1 DEF Full
    <3> QED
      BY <3>1, <3>2, <2>4 DEF r
  <2>6. CASE ~Valid(r)
    BY <2>1, <2>2, <2>6 DEF r
  <2> QED
    BY <2>5, <2>6
<1>3. q \in [Queue -> Recs]
  BY <1>2
<1>4. o \in [Opers -> Ops] /\ \A i \in Opers : OpAlike(o[i], s.ops[i])
  BY <1>0, AgedOpIs
<1>5. x \in [Ends -> Slots] /\ \A i \in Ends : SlotAlike(x[i], s.states[i])
  BY <1>0, AgedSlotIs
<1>6. /\ b \in Startups /\ b.tok = s.startup.tok /\ b.scheduled = s.startup.scheduled
      /\ b.retired = s.startup.retired /\ b.pending = s.startup.pending /\ g \in Nat
  BY <1>0, AgesAre DEF Startups, Sooner
<1> HIDE DEF q, o, x, b, g
<1>7. /\ t \in Stores /\ t.queue = q /\ t.ops = o /\ t.states = x /\ t.startup = b
      /\ t.nonce = s.nonce /\ t.selected = s.selected /\ t.nextOp = s.nextOp /\ t.serial = s.serial
  BY <1>0, <1>3, <1>4, <1>5, <1>6 DEF Stores
<1> HIDE DEF t
<1>8. /\ OpsShape(t) /\ StatesShape(t) /\ Kept(t)
      /\ \A i \in Opers : t.ops[i].id = s.ops[i].id /\ (t.ops[i].active => s.ops[i].active)
  BY <1>4, <1>5, <1>7, AlikeShapes
<1>9. Lessened(s, t)
  BY <1>2, <1>6, <1>7, <1>8 DEF Lessened
<1> QED
  BY <1>1, <1>9, LessenedSound

-----------------------------------------------------------------------------
(* The inductive invariant *)

Inv == store \in Stores /\ air \in Airs /\ Sound(store, air)

LEMMA InitInv == Init => Inv
<1> SUFFICES ASSUME Init PROVE Inv
  OBVIOUS
<1>0. 0 \in Nat /\ 1 \in Nat /\ 0 \in Int /\ 1 \in Int /\ NoRec \in Recs
  BY NoRecIs
<1>1. /\ NoStartup \in Startups /\ \A i \in Ends : NoStartup.tok[i] = 0 /\ ~NoStartup.pending[i]
      /\ ~NoStartup.scheduled
  BY DEF NoStartup, Startups, Ends
<1>2. /\ store \in Stores /\ store.queue = NoSession.queue /\ store.ops = NoSession.ops
      /\ store.states = NoSession.states /\ store.startup = NoStartup /\ store.selected = NoRec
  BY <1>0, <1>1, BlankIs DEF Init, Stores
<1>3. /\ air \in Airs /\ air.intent = 0 /\ air.ended = {} /\ \A i \in Ends : air.boots[i] = {}
  BY <1>0 DEF Init, Airs, Ends
<1>4. Blank(store)
  BY <1>1, <1>2 DEF Blank
<1>5. Sound(store, air)
  BY <1>1, <1>2, <1>3, <1>4, BlankSound
<1> QED
  BY <1>2, <1>3, <1>5 DEF Inv

\* A step that only adds to what is known.
Steady == Inv' /\ Keeping(store, store') /\ air' = air

LEMMA ProducerSteady ==
  ASSUME Inv, NEW name, NEW new, new \in Stores /\ Sound(new, air) /\ Keeping(store, new), Producer(name, new)
  PROVE Steady
<1>1. store' = new /\ air' = air
  BY DEF Producer
<1> QED
  BY <1>1 DEF Inv, Steady

LEMMA NoticeInv ==
  ASSUME Inv, NEW ev \in (PowerEvents \ {"BOOT", "WATCHDOG"}) \cup {"BUTTON"}, Notice(ev)
  PROVE Inv'
<1> DEFINE n == IF ev = "WOM_CANCELLED" /\ store.nonce # 0 THEN store.serial + 1 ELSE air.cancel
           m == IF ev \in Urgent /\ store.nonce # 0 /\ air.intent = 0 THEN store.serial + 1 ELSE air.intent
<1>1. store.serial \in Nat /\ air.cancel \in Nat /\ air.intent \in Nat
  BY DEF Inv, Stores, Airs
<1>2. n \in Nat /\ m \in Nat
  BY <1>1
<1>3. air' = [air EXCEPT !.cancel = n, !.intent = m]
  BY DEF Notice, Inv, Airs
<1>4. m = IF ev \in Urgent /\ store.nonce # 0 /\ air.intent = 0 THEN store.serial + 1 ELSE air.intent
  OBVIOUS
<1> HIDE DEF n, m
<1>5. air' \in Airs /\ air'.boots = air.boots /\ air'.ended = air.ended /\ air'.intent = m
  BY <1>2, <1>3 DEF Inv, Airs
<1>6. CASE store.nonce = 0
  <2>1. store' = store /\ air'.intent = air.intent
    BY <1>4, <1>5, <1>6 DEF Notice
  <2>2. Sound(store, air')
    BY <2>1, <1>5, AirSound DEF Inv
  <2> QED
    BY <2>1, <2>2, <1>5 DEF Inv
<1>7. CASE store.nonce # 0
  <2>1. store' = Posted(store, ev)
    BY <1>7 DEF Notice
  <2>2. air'.intent = IF ev \in Urgent /\ air.intent = 0 THEN store.serial + 1 ELSE air.intent
    BY <1>4, <1>5, <1>7
  <2>3. Posted(store, ev) \in Stores /\ Sound(Posted(store, ev), air')
    BY <2>2, <1>5, PostedSound DEF Inv
  <2> QED
    BY <2>1, <2>3, <1>5 DEF Inv
<1> QED
  BY <1>6, <1>7

\* What a step of an operation leaves: its retry noted, or its phase to send.
LEMMA StepIs ==
  ASSUME Inv, NEW id \in Nat, NEW phase \in Values, Step(id, phase), On(store, id) # {}
  PROVE LET i == CHOOSE j \in On(store, id) : TRUE
            o == store.ops[i]
            n == IF phase = Retry THEN 0 ELSE o.retry
            p == [o EXCEPT !.latest = IF UnsentStep(o) THEN NoRec ELSE @, !.phase = phase,
                           !.changed = 0, !.candidate = TRUE, !.retry = n]
            q == [o EXCEPT !.retry = n]
        IN  store' \in {store, WithOp(store, i, q, store.notify),
                        WithOp(store, i, p, store.notify \/ ~o.candidate)}
<1> DEFINE i == CHOOSE j \in On(store, id) : TRUE
           o == store.ops[i]
           n == IF phase = Retry THEN 0 ELSE o.retry
           l == IF UnsentStep(o) THEN NoRec ELSE o.latest
           b == store.notify \/ ~o.candidate
           r == IF phase = Retry THEN [o EXCEPT !.retry = 0] ELSE o
           p == [o EXCEPT !.latest = l, !.phase = phase, !.changed = 0, !.candidate = TRUE, !.retry = n]
           q == [o EXCEPT !.retry = n]
           u == [store EXCEPT !.ops[i] = r]
           v == [store EXCEPT !.notify = b,
                              !.ops[i] = [r EXCEPT !.latest = IF UnsentStep(o) THEN NoRec ELSE @,
                                                   !.phase = phase, !.changed = 0, !.candidate = TRUE]]
<1>1. i \in Opers
  BY OnIs
<1>2. store \in Stores /\ o \in Ops /\ store.notify \in BOOLEAN
  BY <1>1 DEF Inv, Stores
<1>3. n \in Nat /\ b \in BOOLEAN
  BY <1>2 DEF Ops
<1>4. store' \in {store, u, v}
  BY DEF Step, Producer, On
<1>5. r = q
  <2>1. CASE phase = Retry
    BY <2>1
  <2>2. CASE phase # Retry
    <3>1. n = o.retry /\ r = o
      BY <2>2
    <3> HIDE DEF n, o, r
    <3> QED
      BY <3>1, <1>2 DEF Ops
  <2> QED
    BY <2>1, <2>2
<1>6. [r EXCEPT !.latest = IF UnsentStep(o) THEN NoRec ELSE @,
                !.phase = phase, !.changed = 0, !.candidate = TRUE] = p
  <2> HIDE DEF r, n, o
  <2>1. r \in Ops /\ r.latest = o.latest
    BY <1>2, <1>3, <1>5 DEF Ops
  <2>2. [r EXCEPT !.latest = l, !.phase = phase, !.changed = 0, !.candidate = TRUE] = p
    <3> HIDE DEF l
    <3> QED
      BY <1>2, <1>3, <1>5 DEF Ops
  <2> QED
    BY <2>1, <2>2
<1>7. u = WithOp(store, i, q, store.notify)
  <2>1. u = [store EXCEPT !.ops[i] = q]
    BY <1>5
  <2> HIDE DEF u, q, i
  <2> QED
    BY <2>1, <1>2 DEF WithOp, Stores
<1>8. v = WithOp(store, i, p, b)
  <2>1. v = [store EXCEPT !.notify = b, !.ops[i] = p]
    BY <1>6
  <2> HIDE DEF v, p, i, b
  <2> QED
    BY <2>1, <1>2 DEF WithOp, Stores
<1> QED
  BY <1>4, <1>7, <1>8

LEMMA StepSteady ==
  ASSUME Inv, NEW id \in Nat, NEW phase \in Values, Step(id, phase)
  PROVE Steady
<1> DEFINE i == CHOOSE j \in On(store, id) : TRUE
           o == store.ops[i]
           n == IF phase = Retry THEN 0 ELSE o.retry
           b == store.notify \/ ~o.candidate
           p == [o EXCEPT !.latest = IF UnsentStep(o) THEN NoRec ELSE @, !.phase = phase,
                          !.changed = 0, !.candidate = TRUE, !.retry = n]
           q == [o EXCEPT !.retry = n]
<1>1. CASE On(store, id) = {}
  BY <1>1, ProducerSteady, SameKeeping DEF Step, On, Inv
<1>2. CASE On(store, id) # {}
  <2>1. i \in Opers /\ store.ops[i].active
    BY <1>2, OnIs
  <2>2. store \in Stores /\ Sound(store, air) /\ o \in Ops /\ store.notify \in BOOLEAN
    BY <2>1 DEF Inv, Stores
  <2>3. n \in Nat /\ b \in BOOLEAN
    BY <2>2 DEF Ops
  <2>4. store' \in {store, WithOp(store, i, q, store.notify), WithOp(store, i, p, b)}
    BY <1>2, StepIs
  <2> HIDE DEF i, n, b
  <2>5. /\ Replaced(store, WithOp(store, i, p, b), i, p, air)
        /\ Replaced(store, WithOp(store, i, q, store.notify), i, q, air)
    BY <2>1, <2>2, <2>3, StepSound
  <2>6. store' \in Stores /\ Sound(store', air) /\ Keeping(store, store')
    BY <2>2, <2>4, <2>5, SameKeeping DEF Replaced
  <2>7. air' = air
    BY DEF Step, Producer
  <2> QED
    BY <2>6, <2>7 DEF Inv, Steady
<1> QED
  BY <1>1, <1>2

LEMMA OwnerSteady ==
  ASSUME Inv, NEW id \in Nat
  PROVE /\ Start(id) => Steady
        /\ StorageError(id) => Steady
        /\ SetCompletionReason(id) => Steady
<1> DEFINE i == CHOOSE j \in On(store, id) : TRUE
<1>1. On(store, id) # {} => i \in Opers /\ store.ops[i].active
  BY OnIs
<1>2. store \in Stores /\ Sound(store, air) /\ Keeping(store, store)
  BY SameKeeping DEF Inv
<1>3. Start(id) => Steady
  <2> DEFINE t == PublishOp([store EXCEPT !.ops[i].phase = Began], i, "BEGIN", Began, 1)
             new == IF On(store, id) = {} THEN store ELSE t
  <2>1. Start(id) => Producer("start", new)
    BY DEF Start, On
  <2> HIDE DEF i
  <2>2. On(store, id) # {} => t \in Stores /\ Sound(t, air) /\ Keeping(store, t)
    BY <1>1, <1>2, StartSound
  <2>3. new \in Stores /\ Sound(new, air) /\ Keeping(store, new)
    BY <1>2, <2>2
  <2> HIDE DEF new
  <2> QED
    BY <2>1, <2>3, ProducerSteady
<1>4. StorageError(id) => Steady
  <2> DEFINE t == Record(store, Materialize(store, id, "STORAGE", NoValue, NoticeCopies))
             new == IF OpSlot(store, id) = {} THEN store ELSE t
  <2>1. StorageError(id) => Producer("storage", new)
    BY DEF StorageError
  <2>2. OpSlot(store, id) # {} => t \in Stores /\ Sound(t, air) /\ Keeping(store, t)
    BY <1>2, StorageSound
  <2>3. new \in Stores /\ Sound(new, air) /\ Keeping(store, new)
    BY <1>2, <2>2
  <2> HIDE DEF new
  <2> QED
    BY <2>1, <2>3, ProducerSteady
<1>5. SetCompletionReason(id) => Steady
  <2> DEFINE t == [store EXCEPT !.ops[i].why = 1]
             new == IF On(store, id) = {} THEN store ELSE t
  <2>1. SetCompletionReason(id) => Producer("reason", new)
    BY DEF SetCompletionReason, On
  <2> HIDE DEF i
  <2>2. On(store, id) # {} => t \in Stores /\ Sound(t, air) /\ Keeping(store, t)
    BY <1>1, <1>2, ReasonSound
  <2>3. new \in Stores /\ Sound(new, air) /\ Keeping(store, new)
    BY <1>2, <2>2
  <2> HIDE DEF new
  <2> QED
    BY <2>1, <2>3, ProducerSteady
<1> QED
  BY <1>3, <1>4, <1>5

LEMMA EndSteady ==
  ASSUME Inv, NEW id \in Nat, NEW ok \in BOOLEAN, End(id, ok)
  PROVE Steady
<1> DEFINE i == CHOOSE j \in On(store, id) : TRUE
           o == store.ops[i]
           val == IF ok THEN <<4, o.why>> ELSE <<4, 2>>
           u == Ended(store, i)
           t == PublishOp(u, i, "END", val, NoticeCopies)
           new == IF On(store, id) = {} THEN store
                  ELSE IF Hidden(o) /\ ~ok THEN u ELSE t
<1>1. On(store, id) # {} => i \in Opers /\ store.ops[i].active
  BY OnIs
<1>2. store \in Stores /\ Sound(store, air) /\ Keeping(store, store)
  BY SameKeeping DEF Inv
<1>3. Producer("end", new)
  BY DEF End, On
<1> HIDE DEF i
<1>4. ASSUME On(store, id) # {}
      PROVE /\ u \in Stores /\ Sound(u, air) /\ Keeping(store, u)
            /\ t \in Stores /\ Sound(t, air) /\ Keeping(store, t)
  <2>1. o \in Ops
    BY <1>1, <1>2, <1>4 DEF Stores
  <2>2. val \in Values
    BY <2>1 DEF Ops, Values
  <2> HIDE DEF val
  <2> QED
    BY <1>1, <1>2, <1>4, <2>2, EndSound
<1>5. new \in Stores /\ Sound(new, air) /\ Keeping(store, new)
  BY <1>2, <1>4
<1> HIDE DEF new
<1> QED
  BY <1>3, <1>5, ProducerSteady

LEMMA BootSteady ==
  ASSUME Inv, NEW w \in BOOLEAN, ScheduleBoot(w)
  PROVE Steady
<1> DEFINE t == [store EXCEPT !.startup = [scheduled |-> TRUE, retired |-> FALSE, in |-> BootDelay,
                                           pending |-> [i \in {0, 1} |-> i = 0 \/ w],
                                           tok |-> @.tok],
                              !.notify = TRUE]
           new == IF store.startup.scheduled \/ store.startup.retired \/ store.entropyFailed THEN store ELSE t
<1>1. Producer("boot", new)
  BY DEF ScheduleBoot
<1>2. ~store.startup.scheduled /\ ~store.startup.retired => t \in Stores /\ Sound(t, air) /\ Keeping(store, t)
  BY ScheduleSound DEF Inv
<1>3. new \in Stores /\ Sound(new, air) /\ Keeping(store, new)
  BY <1>2, SameKeeping DEF Inv
<1> HIDE DEF new
<1> QED
  BY <1>1, <1>3, ProducerSteady

LEMMA OpeningSteady ==
  ASSUME Inv
  PROVE /\ Accept => Steady
        /\ Reject => Steady
        /\ \A auto \in BOOLEAN : Begin(auto) => Steady
<1>1. store \in Stores /\ Sound(store, air) /\ Keeping(store, store)
  BY SameKeeping DEF Inv
<1>2. Accept => Steady
  <2> DEFINE t == PublishOp(Allocate(store, FALSE), OpVictim(store), "ACCEPTED", NoValue, NoticeCopies)
             new == IF store.nonce = 0 THEN store ELSE t
  <2>1. Accept => Producer("accept", new)
    BY DEF Accept
  <2>2. t \in Stores /\ Sound(t, air) /\ Keeping(store, t)
    BY <1>1, AcceptSound
  <2>3. new \in Stores /\ Sound(new, air) /\ Keeping(store, new)
    BY <1>1, <2>2
  <2> HIDE DEF new
  <2> QED
    BY <2>1, <2>3, ProducerSteady
<1>3. Reject => Steady
  <2> DEFINE t == PublishOp([Allocate(store, FALSE) EXCEPT !.ops[OpVictim(store)].active = FALSE],
                            OpVictim(store), "REJECTED", NoValue, NoticeCopies)
             new == IF store.nonce = 0 THEN store ELSE t
  <2>1. Reject => Producer("reject", new)
    BY DEF Reject
  <2>2. t \in Stores /\ Sound(t, air) /\ Keeping(store, t)
    BY <1>1, RejectSound
  <2>3. new \in Stores /\ Sound(new, air) /\ Keeping(store, new)
    BY <1>1, <2>2
  <2> HIDE DEF new
  <2> QED
    BY <2>1, <2>3, ProducerSteady
<1>4. ASSUME NEW auto \in BOOLEAN PROVE Begin(auto) => Steady
  <2> DEFINE i == OpVictim(store)
             u == [Allocate(store, auto) EXCEPT !.ops[i].phase = Began, !.ops[i].changed = 0,
                                                !.notify = TRUE]
             t == IF auto THEN u ELSE PublishOp(u, i, "BEGIN", Began, 1)
             new == IF store.nonce = 0 THEN store ELSE t
  <2>1. Begin(auto) => Producer("begin", new)
    BY DEF Begin
  <2>2. t \in Stores /\ Sound(t, air) /\ Keeping(store, t)
    BY <1>1, BeginSound
  <2> HIDE DEF t
  <2>3. new \in Stores /\ Sound(new, air) /\ Keeping(store, new)
    BY <1>1, <2>2
  <2> HIDE DEF new
  <2> QED
    BY <2>1, <2>3, ProducerSteady
<1> QED
  BY <1>2, <1>3, <1>4

LEMMA RestSteady ==
  ASSUME Inv
  PROVE /\ \A o \in Observations : Observe(o) => Steady
        /\ SensorInvalidate => Steady
<1>1. store \in Stores /\ Sound(store, air) /\ Keeping(store, store)
  BY SameKeeping DEF Inv
<1>2. ASSUME NEW o \in Observations PROVE Observe(o) => Steady
  <2> DEFINE t == Observed(store, o)
             new == IF store.nonce = 0 \/ frame # store.epoch THEN store ELSE t
  <2>1. Observe(o) => Producer("observe", new)
    BY DEF Observe
  <2>2. t \in Stores /\ Sound(t, air) /\ Keeping(store, t)
    BY <1>1, ObservedSound
  <2>3. new \in Stores /\ Sound(new, air) /\ Keeping(store, new)
    BY <1>1, <2>2
  <2> HIDE DEF new
  <2> QED
    BY <2>1, <2>3, ProducerSteady
<1>3. SensorInvalidate => Steady
  <2> DEFINE new == [Invalidated(Invalidated(store, 0), 1) EXCEPT !.epoch = @ + 1]
  <2>1. SensorInvalidate => Producer("invalidate", new)
    BY DEF SensorInvalidate
  <2>2. new \in Stores /\ Sound(new, air) /\ Keeping(store, new)
    BY <1>1, InvalidateSound
  <2> HIDE DEF new
  <2> QED
    BY <2>1, <2>2, ProducerSteady
<1> QED
  BY <1>2, <1>3

Notices == (PowerEvents \ {"BOOT", "WATCHDOG"}) \cup {"BUTTON"}

LEMMA ProduceInv ==
  ASSUME Inv, Produce
  PROVE Inv' /\ (Steady \/ \E ev \in Notices : Notice(ev))
<1>0. /\ Ids \subseteq Nat
      /\ <<2, 0>> \in Values /\ Retry \in Values
  BY DEF Inv, Stores, Ids, Retry, Values
<1>1. CASE \E ev \in (PowerEvents \ {"BOOT", "WATCHDOG"}) \cup {"BUTTON"} : Notice(ev)
  BY <1>1, NoticeInv DEF Notices
<1>2. CASE \E w \in BOOLEAN : ScheduleBoot(w)
  BY <1>2, BootSteady DEF Steady
<1>3. CASE Accept \/ Reject \/ \E auto \in BOOLEAN : Begin(auto)
  BY <1>3, OpeningSteady DEF Steady
<1>4. CASE \E id \in Ids : Start(id) \/ StorageError(id) \/ SetCompletionReason(id)
  BY <1>0, <1>4, OwnerSteady DEF Steady
<1>5. CASE \E id \in Ids, phase \in {<<2, 0>>, Retry} : Step(id, phase)
  BY <1>0, <1>5, StepSteady DEF Steady
<1>6. CASE \E id \in Ids, ok \in BOOLEAN : End(id, ok)
  BY <1>0, <1>6, EndSteady DEF Steady
<1>7. CASE (\E o \in Observations : Observe(o)) \/ SensorInvalidate
  BY <1>7, RestSteady DEF Steady
<1> QED
  BY <1>1, <1>2, <1>3, <1>4, <1>5, <1>6, <1>7 DEF Produce

\* A store that differs in what no part of the invariant mentions.
LEMMA NotifiedSound ==
  ASSUME NEW s \in Stores, NEW a, Sound(s, a), NEW b \in BOOLEAN
  PROVE [s EXCEPT !.notify = b] \in Stores /\ Sound([s EXCEPT !.notify = b], a)
<1> DEFINE t == [s EXCEPT !.notify = b]
<1>1. /\ t \in Stores /\ t.queue = s.queue /\ t.ops = s.ops /\ t.states = s.states
      /\ t.startup = s.startup /\ t.nonce = s.nonce /\ t.serial = s.serial /\ t.nextOp = s.nextOp
      /\ t.selected = s.selected
  BY DEF Stores
<1> HIDE DEF t
<1>2. Sound(t, a)
  BY <1>1, SameSound
<1> QED
  BY <1>1, <1>2 DEF t

LEMMA NotifyInv == ASSUME Inv, Notify PROVE Inv'
<1>1. store' = [store EXCEPT !.notify = FALSE] /\ air' = air
  BY DEF Notify
<1> QED
  BY <1>1, NotifiedSound DEF Inv

LEMMA SessionInv ==
  ASSUME Inv
  PROVE /\ SessionChange => Inv'
        /\ \A ok \in BOOLEAN : SessionFresh(ok) => Inv'
<1>1. SessionChange => Inv'
  <2> DEFINE t == [store EXCEPT !.nonce = 0]
  <2>1. SessionChange => store' = t /\ air' = air
    BY DEF SessionChange
  <2>2. t \in Stores /\ Sound(t, air)
    BY SessionChangeSound DEF Inv
  <2> HIDE DEF t
  <2> QED
    BY <2>1, <2>2 DEF Inv
<1>2. ASSUME NEW ok \in BOOLEAN PROVE SessionFresh(ok) => Inv'
  <2>1. SessionFresh(ok) => store' = Renewed(store, ok) /\ air' = air
    BY DEF SessionFresh, Renewed
  <2> QED
    BY <2>1, RenewedSound DEF Inv
<1> QED
  BY <1>1, <1>2

\* What a selection leaves: the maintained store, or a choice made from it.
LEMMA SelectIs ==
  ASSUME Inv, Select
  PROVE LET s == Maintain(store)
        IN  /\ s \in Stores /\ Sound(s, air) /\ Current(s) /\ air' = air
            /\ \/ store' = s /\ pc' = "idle" /\ (s.nonce = 0 \/ s.gate > 0 \/ Picks(s) = {})
               \/ pc' = "offer" /\ s.nonce # 0
                  /\ \E c \in Picks(s) : Choice(s, c) /\ store' = [c.s EXCEPT !.selected = c.r]
<1> DEFINE s == Maintain(store)
<1>1. s \in Stores /\ Sound(s, air) /\ Current(s)
  BY MaintainSound DEF Inv
<1>2. /\ air' = air
      /\ \/ store' = s /\ pc' = "idle" /\ (s.nonce = 0 \/ s.gate > 0 \/ Picks(s) = {})
         \/ pc' = "offer" /\ s.nonce # 0
            /\ \E c \in Picks(s) : store' = [c.s EXCEPT !.selected = c.r]
  BY DEF Select
<1> HIDE DEF s
<1>3. \A c \in Picks(s) : Choice(s, c)
  BY <1>1, PicksAre
<1> QED
  BY <1>1, <1>2, <1>3 DEF s

LEMMA SelectInv == ASSUME Inv, Select PROVE Inv'
<1> DEFINE s == Maintain(store)
<1>1. /\ s \in Stores /\ Sound(s, air) /\ air' = air
      /\ \/ store' = s
         \/ \E c \in Picks(s) : Choice(s, c) /\ store' = [c.s EXCEPT !.selected = c.r]
  BY SelectIs
<1> HIDE DEF s
<1>2. CASE store' = s
  BY <1>1, <1>2 DEF Inv
<1>3. ASSUME NEW c \in Picks(s), Choice(s, c), store' = [c.s EXCEPT !.selected = c.r] PROVE Inv'
  BY <1>1, <1>3, ChoiceSound DEF Inv
<1> QED
  BY <1>1, <1>2, <1>3

LEMMA AdmitInv == ASSUME Inv, Admit PROVE Inv'
<1> DEFINE r == store.selected
           live == Valid(r) /\ r.nonce = store.nonce
<1>1. CASE ~live
  BY <1>1 DEF Admit, Inv
<1>2. CASE live
  <2>1. store' = Admitted(store, r) /\ air' = Aired(air, r)
    BY <1>2 DEF Admit, Aired
  <2>2. Admitted(store, r) \in Stores /\ Sound(Admitted(store, r), Aired(air, r)) /\ Aired(air, r) \in Airs
    BY <1>2, AdmitSound DEF Inv
  <2> QED
    BY <2>1, <2>2 DEF Inv
<1> QED
  BY <1>1, <1>2

LEMMA CompleteInv == ASSUME Inv, Complete PROVE Inv'
<1>1. CASE Refuse
  <2> DEFINE t == [store EXCEPT !.gate = Refused, !.selected = NoRec]
  <2>1. store' \in {t, store} /\ air' = air
    BY <1>1 DEF Refuse
  <2>2. t \in Stores /\ Sound(t, air)
    BY RefuseSound DEF Inv
  <2> HIDE DEF t
  <2> QED
    BY <2>1, <2>2 DEF Inv
<1>2. CASE Abandon
  BY <1>2 DEF Abandon, Inv
<1> QED
  BY <1>1, <1>2, AdmitInv DEF Complete

LEMMA IdleInv == ASSUME Inv, Idle PROVE Inv'
<1>1. store' \in {store, Maintain(store)} /\ air' = air
  BY DEF Idle, AfterMaintain
<1> QED
  BY <1>1, MaintainSound DEF Inv

LEMMA NextInv == Inv /\ [Next]_vars => Inv'
<1> SUFFICES ASSUME Inv, [Next]_vars PROVE Inv'
  OBVIOUS
<1>1. CASE Produce
  BY <1>1, ProduceInv
<1>2. CASE Capture
  BY <1>2 DEF Capture, Inv
<1>3. CASE Notify
  BY <1>3, NotifyInv
<1>4. CASE SessionChange \/ \E ok \in BOOLEAN : SessionFresh(ok)
  BY <1>4, SessionInv
<1>5. CASE Select
  BY <1>5, SelectInv
<1>6. CASE Complete
  BY <1>6, CompleteInv
<1>7. CASE Idle
  BY <1>7, IdleInv
<1>8. CASE Wake
  BY <1>8 DEF Wake, Inv
<1>9. CASE Tick
  BY <1>9, AgedSound DEF Tick, Inv
<1>10. CASE UNCHANGED vars
  BY <1>10 DEF vars, Inv
<1> QED
  BY <1>1, <1>2, <1>3, <1>4, <1>5, <1>6, <1>7, <1>8, <1>9, <1>10 DEF Next, Connection

LEMMA AlwaysInv == Spec => []Inv
BY InitInv, NextInv, PTL DEF Spec

-----------------------------------------------------------------------------
(* Warnings and power notices *)

\* A step's part of WarningRetracted and of PowerNoticesStay.
Retracts ==
    store'.selected # store.selected /\ store'.selected.ev = "WILL_WOM"
          => store'.selected.tok > air.cancel
Stays ==
    \A i \in 1..QueueSize :
          LET r == store.queue[i]
              n == store'.queue[i]
          IN  Valid(r) /\ Power(r) /\ n.tok # r.tok =>
                \/ r.copies + 1 >= r.limit /\ store.selected.tok = r.tok
                \/ r.age >= TTL
                \/ r.ev = "WILL_WOM" /\ air'.cancel # air.cancel
                \/ Power(n)
                \/ rotating

\* A queued warning is younger than the last cancellation.
Warned(s, a) ==
    /\ a.cancel <= s.serial
    /\ \A j \in Queue : s.queue[j].ev = "WILL_WOM" => s.queue[j].tok > a.cancel

WarnInv == Inv /\ Warned(store, air)
Good == Warned(store', air') /\ Retracts /\ Stays

LEMMA InitWarned == Init => Warned(store, air)
BY DEF Init, Warned, NoSession, NoRec, Queue

\* Most steps keep what is queued.
LEMMA SteadyGood ==
  ASSUME WarnInv, Keeping(store, store'), air' = air, store'.serial \in Nat
  PROVE Good
<1>1. store.serial \in Nat /\ air.cancel \in Nat
  BY DEF WarnInv, Inv, Stores, Airs
<1>2. Warned(store', air')
  BY <1>1 DEF WarnInv, Warned, Keeping
<1>3. Retracts
  BY DEF Retracts, Keeping
<1>4. Stays
  BY DEF Stays, Keeping, Queue
<1> QED
  BY <1>2, <1>3, <1>4 DEF Good

\* A step that at most empties the hand of the connection thread.
LEMMA StillGood ==
  ASSUME WarnInv, air'.cancel = air.cancel, store'.serial = store.serial,
         \A j \in Queue : store'.queue[j].tok = store.queue[j].tok /\ store'.queue[j].ev = store.queue[j].ev,
         store'.selected \in {store.selected, NoRec}
  PROVE Good
<1>1. Warned(store', air')
  BY DEF WarnInv, Warned
<1>2. Retracts
  BY DEF Retracts, NoRec
<1>3. Stays
  BY DEF Stays, Queue
<1> QED
  BY <1>1, <1>2, <1>3 DEF Good

\* A notice: an older warning leaves with its cancellation.
LEMMA RetractedIs ==
  ASSUME NEW s \in Stores
  PROVE LET v == RetractWarnings(s)
        IN  /\ v.serial = s.serial /\ v.selected = s.selected
            /\ \A j \in Queue : v.queue[j] = IF s.queue[j].ev = "WILL_WOM" THEN NoRec ELSE s.queue[j]
<1>1. s.queue \in [Queue -> Recs]
  BY DEF Stores
<1> QED
  BY <1>1 DEF RetractWarnings, Queue, Stores

LEMMA PostedIs ==
  ASSUME NEW s \in Stores, NEW a, Sound(s, a), NEW ev \in Notices
  PROVE LET t == Posted(s, ev)
        IN  /\ t.serial = s.serial + 1 /\ t.selected = s.selected
            /\ \A j \in Queue :
                  \/ t.queue[j] = s.queue[j] /\ (ev = "WOM_CANCELLED" => s.queue[j].ev # "WILL_WOM")
                  \/ ev = "WOM_CANCELLED" /\ s.queue[j].ev = "WILL_WOM" /\ t.queue[j].ev # "WILL_WOM"
                  \/ /\ t.queue[j].tok = s.serial + 1 /\ t.queue[j].ev = ev
                     /\ Valid(s.queue[j]) /\ Power(s.queue[j]) => Power(t.queue[j])
                                                               \/ ev = "WOM_CANCELLED"
<1> DEFINE u == IF ev \in Urgent THEN Retire(s) ELSE s
           v == IF ev = "WOM_CANCELLED" THEN RetractWarnings(u) ELSE u
           r == Materialize(v, 0, ev, NoValue, NoticeCopies)
           t == Record(v, r)
<1>1. u \in Stores /\ Sound(u, a) /\ u.serial = s.serial /\ u.queue = s.queue /\ u.selected = s.selected
  BY RetireSound DEF Retire, Stores
<1>2. Posted(s, ev) = t
  BY DEF Posted, Retire
<1> HIDE DEF u
<1>3. /\ v \in Stores /\ Sound(v, a) /\ v.serial = s.serial /\ v.selected = s.selected
      /\ \A j \in Queue : v.queue[j] = IF ev = "WOM_CANCELLED" /\ s.queue[j].ev = "WILL_WOM"
                                       THEN NoRec ELSE s.queue[j]
  BY <1>1, RetractSound, RetractedIs
<1> HIDE DEF v
<1>4. r \in Recs /\ r.tok = s.serial + 1 /\ r.ev = ev
  <2>1. ev \in Kinds /\ 0 \in Nat /\ NoticeCopies \in Nat /\ NoValue \in Values
    BY NoRecIs, Sizes DEF Kinds, Notices
  <2> QED
    BY <2>1, <1>3, MaterializeIs
<1> HIDE DEF r
<1>5. Took(v, t, r)
  BY <1>3, <1>4, RecordTakes DEF Sound, Core
<1> HIDE DEF t
<1>6. t.serial = r.tok /\ t.selected = v.selected /\ v.queue \in [Queue -> Recs]
  BY <1>3, <1>4, <1>5, TookIs
<1>7. ASSUME NEW j \in Queue
      PROVE \/ t.queue[j] = v.queue[j]
            \/ t.queue[j] = r /\ (Valid(v.queue[j]) /\ Power(v.queue[j]) => Power(r))
  <2>1. CASE t.queue = v.queue
    BY <2>1
  <2>2. CASE t.queue # v.queue
    <3>1. PICK i \in Queue : /\ t.queue = [v.queue EXCEPT ![i] = r]
                             /\ Valid(v.queue[i]) /\ Power(v.queue[i]) => Power(r)
      BY <2>2, <1>5 DEF Took
    <3> QED
      BY <3>1, <1>6
  <2> QED
    BY <2>1, <2>2
<1>8. NoRec.ev # "WILL_WOM"
  BY DEF NoRec
<1>9. \A j \in Queue :
         \/ t.queue[j] = s.queue[j] /\ (ev = "WOM_CANCELLED" => s.queue[j].ev # "WILL_WOM")
         \/ ev = "WOM_CANCELLED" /\ s.queue[j].ev = "WILL_WOM" /\ t.queue[j].ev # "WILL_WOM"
         \/ /\ t.queue[j].tok = s.serial + 1 /\ t.queue[j].ev = ev
            /\ Valid(s.queue[j]) /\ Power(s.queue[j]) => Power(t.queue[j]) \/ ev = "WOM_CANCELLED"
  BY <1>3, <1>4, <1>7, <1>8
<1> QED
  BY <1>2, <1>3, <1>4, <1>6, <1>9

LEMMA NoticeGood ==
  ASSUME WarnInv, NEW ev \in Notices, Notice(ev)
  PROVE Good
<1>0. /\ store \in Stores /\ Sound(store, air) /\ air \in Airs /\ Warned(store, air)
      /\ store.serial \in Nat /\ air.cancel \in Nat
      /\ \A j \in Queue : store.queue[j].tok \in Nat
  BY DEF WarnInv, Inv, Stores, Airs, Recs
<1>1. air'.cancel = IF ev = "WOM_CANCELLED" /\ store.nonce # 0 THEN store.serial + 1 ELSE air.cancel
  BY <1>0 DEF Notice, Airs
<1>2. CASE store.nonce = 0
  <2>1. store' = store
    BY <1>2 DEF Notice
  <2> QED
    BY <2>1, <1>1, <1>2, StillGood
<1>3. CASE store.nonce # 0
  <2> DEFINE t == Posted(store, ev)
  <2>1. store' = t
    BY <1>3 DEF Notice
  <2>2. /\ t.serial = store.serial + 1 /\ t.selected = store.selected
        /\ \A j \in Queue :
              \/ t.queue[j] = store.queue[j] /\ (ev = "WOM_CANCELLED" => store.queue[j].ev # "WILL_WOM")
              \/ ev = "WOM_CANCELLED" /\ store.queue[j].ev = "WILL_WOM" /\ t.queue[j].ev # "WILL_WOM"
              \/ /\ t.queue[j].tok = store.serial + 1 /\ t.queue[j].ev = ev
                 /\ Valid(store.queue[j]) /\ Power(store.queue[j]) => Power(t.queue[j])
                                                                   \/ ev = "WOM_CANCELLED"
    BY <1>0, PostedIs
  <2> HIDE DEF t
  <2>3. air.cancel <= store.serial /\ air'.cancel = IF ev = "WOM_CANCELLED" THEN store.serial + 1 ELSE air.cancel
    BY <1>0, <1>1, <1>3 DEF Warned
  <2>4. Warned(t, air')
    BY <1>0, <2>2, <2>3 DEF Warned
  <2>5. Stays
    <3> SUFFICES ASSUME NEW j \in Queue, Valid(store.queue[j]), Power(store.queue[j]),
                        t.queue[j].tok # store.queue[j].tok
                 PROVE (store.queue[j].ev = "WILL_WOM" /\ air'.cancel # air.cancel) \/ Power(t.queue[j])
      BY <2>1 DEF Stays, Queue
    <3>1. ev = "WOM_CANCELLED" => air'.cancel # air.cancel
      BY <1>0, <2>3
    <3>2. t.queue[j].ev = "WOM_CANCELLED" => Power(t.queue[j])
      BY DEF Power, PowerEvents
    <3> QED
      BY <2>2, <3>1, <3>2
  <2> QED
    BY <2>1, <2>2, <2>4, <2>5 DEF Good, Retracts
<1> QED
  BY <1>2, <1>3

\* Maintenance: only age takes a record away.
LEMMA DroppedIs ==
  ASSUME NEW s \in Stores
  PROVE LET c == DropExpired(s)
        IN  /\ c.serial = s.serial /\ c.selected = s.selected
            /\ \A j \in Queue : \/ c.queue[j] = s.queue[j]
                                \/ c.queue[j] = NoRec /\ s.queue[j].age >= TTL
<1>1. s.queue \in [Queue -> Recs]
  BY DEF Stores
<1> QED
  BY <1>1 DEF DropExpired, Queue, Stores

Aging(s, t) ==
    \A j \in Queue : Power(s.queue[j]) /\ t.queue[j].tok # s.queue[j].tok
                        => s.queue[j].age >= TTL \/ Power(t.queue[j])

LEMMA MaintainKeeps ==
  ASSUME NEW s \in Stores, NEW a \in Airs, Sound(s, a), Warned(s, a)
  PROVE LET t == Maintain(s)
        IN  t \in Stores /\ Sound(t, a) /\ Warned(t, a) /\ Aging(s, t) /\ t.selected = s.selected
<1> DEFINE c == DropExpired(s)
           t == Maintain(s)
<1>1. t \in Stores /\ Sound(t, a) /\ t.selected = s.selected /\ Keeping(c, t)
  BY MaintainSound
<1>2. /\ c.serial = s.serial
      /\ \A j \in Queue : c.queue[j] = s.queue[j] \/ (c.queue[j] = NoRec /\ s.queue[j].age >= TTL)
  BY DroppedIs
<1>3. a.cancel \in Nat /\ s.serial \in Nat /\ t.serial \in Nat /\ NoRec.ev # "WILL_WOM"
  BY <1>1 DEF Airs, Stores, NoRec
<1> HIDE DEF c, t
<1>4. Warned(t, a)
  BY <1>1, <1>2, <1>3 DEF Warned, Keeping
<1>5. Aging(s, t)
  BY <1>1, <1>2 DEF Aging, Keeping
<1> QED
  BY <1>1, <1>4, <1>5 DEF t

\* A selection leaves the queue as it is; a warning comes out of it.
LEMMA ChoiceKeeps ==
  ASSUME NEW s \in Stores, NEW a, Sound(s, a), NEW c, Choice(s, c)
  PROVE /\ c.s.queue = s.queue /\ s.serial <= c.s.serial /\ c.s \in Stores
        /\ c.r.ev = "WILL_WOM" => \E j \in Queue : c.r = s.queue[j]
<1>0. s.serial \in Nat
  BY DEF Stores
<1>1. CASE KeptChoice(s, c)
  <2>1. /\ c.s \in Stores /\ c.s.queue = s.queue /\ c.s.serial = s.serial
        /\ Valid(c.r) /\ KeptRecord(s, c.r)
    BY <1>1 DEF KeptChoice, Turned
  <2>2. \A i \in Opers : c.r = s.ops[i].latest => c.r.ev # "WILL_WOM"
    BY <2>1 DEF Sound, Core, OpsShape, OpShape
  <2>3. \A i \in Ends : c.r = s.states[i].published => c.r.ev # "WILL_WOM"
    BY <2>1 DEF Sound, Core, StatesShape, RestOf
  <2> QED
    BY <1>0, <2>1, <2>2, <2>3 DEF KeptRecord
<1>2. CASE ProgressChoice(s, c)
  <2>1. PICK u, i : /\ i \in Opers /\ Turned(s, u) /\ s.ops[i].active /\ ~Hidden(s.ops[i])
                    /\ c = SendProgress(u, i)
    BY <1>2 DEF ProgressChoice
  <2>2. u \in Stores /\ Sound(u, a) /\ u.queue = s.queue /\ u.serial = s.serial /\ u.ops = s.ops
    BY <2>1, TurnedSound DEF Turned
  <2>3. c.s \in Stores /\ c.r.ev = "STEP"
    BY <2>1, <2>2, ProgressSound
  <2>4. c.s.queue = s.queue /\ c.s.serial = s.serial + 1
    BY <2>1, <2>2 DEF SendProgress, Pick, Materialize, Stores
  <2> QED
    BY <1>0, <2>3, <2>4
<1>3. CASE StateChoice(s, c)
  <2>1. PICK i \in Ends : c = SendState(s, i)
    BY <1>3 DEF StateChoice
  <2>2. c.s \in Stores /\ c.r.ev = RestOf(i)
    BY <2>1, StateSound
  <2>3. c.s.queue = s.queue /\ c.s.serial = s.serial + 1
    BY <2>1 DEF SendState, Pick, Materialize, Stores
  <2> QED
    BY <1>0, <2>2, <2>3 DEF RestOf
<1> QED
  BY <1>1, <1>2, <1>3 DEF Choice

LEMMA SelectGood == ASSUME WarnInv, Select PROVE Good
<1> DEFINE s == Maintain(store)
<1>1. s \in Stores /\ Sound(s, air) /\ Warned(s, air) /\ Aging(store, s) /\ s.selected = store.selected
  BY MaintainKeeps DEF WarnInv, Inv
<1>2. /\ air' = air
      /\ \/ store' = s
         \/ \E c \in Picks(s) : Choice(s, c) /\ store' = [c.s EXCEPT !.selected = c.r]
  BY SelectIs DEF WarnInv
<1>3. air.cancel \in Nat /\ s.serial \in Nat
  BY <1>1 DEF WarnInv, Inv, Airs, Stores
<1> HIDE DEF s
<1>4. CASE store' = s
  BY <1>1, <1>2, <1>4 DEF Good, Retracts, Stays, Aging, Queue
<1>5. ASSUME NEW c, Choice(s, c), store' = [c.s EXCEPT !.selected = c.r] PROVE Good
  <2>1. /\ c.s.queue = s.queue /\ s.serial <= c.s.serial /\ c.s \in Stores
        /\ c.r.ev = "WILL_WOM" => \E j \in Queue : c.r = s.queue[j]
    BY <1>1, <1>5, ChoiceKeeps
  <2>3. store'.queue = s.queue /\ store'.serial = c.s.serial /\ store'.selected = c.r
    BY <1>5, <2>1 DEF Stores
  <2>4. Warned(store', air')
    BY <1>1, <1>2, <1>3, <2>1, <2>3 DEF Warned, Stores
  <2>5. Retracts
    BY <1>1, <2>1, <2>3 DEF Retracts, Warned
  <2>6. Stays
    BY <1>1, <2>3 DEF Stays, Aging, Queue
  <2> QED
    BY <2>4, <2>5, <2>6 DEF Good
<1> QED
  BY <1>2, <1>4, <1>5

LEMMA IdleGood == ASSUME WarnInv, Idle PROVE Good
<1>1. store' \in {store, Maintain(store)} /\ air' = air
  BY DEF Idle, AfterMaintain
<1> DEFINE s == Maintain(store)
<1>2. s \in Stores /\ Sound(s, air) /\ Warned(s, air) /\ Aging(store, s) /\ s.selected = store.selected
  BY MaintainKeeps DEF WarnInv, Inv
<1> HIDE DEF s
<1>3. CASE store' = store
  BY <1>1, <1>3, StillGood
<1>4. CASE store' = s
  BY <1>1, <1>2, <1>4 DEF Good, Retracts, Stays, Aging, Queue
<1> QED
  BY <1>1, <1>3, <1>4 DEF s

\* An admission: a record goes with the last copy of the selected one.
LEMMA AdmittedKeeps ==
  ASSUME NEW s \in Stores, NEW a, Sound(s, a), NEW r0 \in Recs
  PROVE LET t == Admitted(s, r0)
        IN  /\ t.serial = s.serial /\ t.selected = NoRec
            /\ \A j \in Queue : \/ t.queue[j].tok = s.queue[j].tok /\ t.queue[j].ev = s.queue[j].ev
                                \/ /\ t.queue[j] = NoRec /\ s.queue[j].tok = r0.tok
                                   /\ s.queue[j].copies + 1 >= s.queue[j].limit
<1>1. /\ Admitted(s, r0).serial = s.serial /\ Admitted(s, r0).selected = NoRec
      /\ \A j \in Queue : Admitted(s, r0).queue[j] = QueueReceipt(s, s.queue[j], r0)
  BY DEF Admitted, Queue, Stores
<1>2. ASSUME NEW j \in Queue
      PROVE \/ /\ QueueReceipt(s, s.queue[j], r0).tok = s.queue[j].tok
               /\ QueueReceipt(s, s.queue[j], r0).ev = s.queue[j].ev
            \/ /\ QueueReceipt(s, s.queue[j], r0) = NoRec /\ s.queue[j].tok = r0.tok
               /\ s.queue[j].copies + 1 >= s.queue[j].limit
  <2> DEFINE r == s.queue[j]
             n == Counted(r)
             m == [n EXCEPT !.age = 0]
  <2>1. r \in Recs /\ r.copies \in Nat /\ r.limit \in Nat
    BY DEF Stores, Recs
  <2>2. /\ n \in Recs /\ n.tok = r.tok /\ n.ev = r.ev /\ n.limit = r.limit
        /\ n.copies = IF r.copies < NoticeCopies + 1 THEN r.copies + 1 ELSE r.copies
    BY <2>1, CountedIs DEF Alike
  <2>3. /\ QueueReceipt(s, r, r0) \in {r, n, m, NoRec}
        /\ QueueReceipt(s, r, r0) = NoRec => r = NoRec \/ n = NoRec \/ m = NoRec \/ (r.tok = r0.tok /\ n.copies >= n.limit)
    BY DEF QueueReceipt, Spent
  <2> HIDE DEF r, n
  <2>4. m.tok = r.tok /\ m.ev = r.ev
    BY <2>2 DEF Recs
  <2> HIDE DEF m
  <2>5. n.copies >= n.limit => r.copies + 1 >= r.limit
    BY <2>1, <2>2, Sizes
  <2> QED
    BY <2>2, <2>3, <2>4, <2>5 DEF r
<1> QED
  BY <1>1, <1>2

LEMMA AdmitGood == ASSUME WarnInv, Admit PROVE Good
<1> DEFINE r == store.selected
           live == Valid(r) /\ r.nonce = store.nonce
<1>0. air'.cancel = air.cancel /\ r \in Recs /\ Warned(store, air)
  BY DEF Admit, WarnInv, Inv, Airs, Stores
<1>1. CASE ~live
  <2>1. store' = store
    BY <1>1 DEF Admit
  <2> QED
    BY <2>1, <1>0, StillGood
<1>2. CASE live
  <2>1. store' = Admitted(store, r)
    BY <1>2 DEF Admit
  <2>2. /\ store'.serial = store.serial /\ store'.selected = NoRec
        /\ \A j \in Queue : \/ store'.queue[j].tok = store.queue[j].tok /\ store'.queue[j].ev = store.queue[j].ev
                            \/ /\ store'.queue[j] = NoRec /\ store.queue[j].tok = r.tok
                               /\ store.queue[j].copies + 1 >= store.queue[j].limit
    BY <2>1, <1>0, AdmittedKeeps DEF WarnInv, Inv
  <2>3. NoRec.ev # "WILL_WOM"
    BY DEF NoRec
  <2>4. Warned(store', air')
    BY <1>0, <2>2, <2>3 DEF Warned
  <2> QED
    BY <2>2, <2>3, <2>4 DEF Good, Retracts, Stays, Queue
<1> QED
  BY <1>1, <1>2

\* A new identity starts with an empty queue; nothing is younger than time.
LEMMA FreshGood ==
  ASSUME WarnInv, NEW ok \in BOOLEAN, SessionFresh(ok)
  PROVE Good
<1>1. /\ rotating /\ air' = air /\ store'.serial = store.serial /\ store'.selected = NoRec
      /\ \A j \in Queue : store'.queue[j] = NoRec
  BY DEF SessionFresh, NoSession, Queue, WarnInv, Inv, Stores
<1>2. NoRec.ev # "WILL_WOM"
  BY DEF NoRec
<1> QED
  BY <1>1, <1>2 DEF Good, Retracts, Stays, Warned, WarnInv

LEMMA TickGood == ASSUME WarnInv, Tick PROVE Good
<1>1. /\ air' = air /\ store'.serial = store.serial /\ store'.selected = store.selected
      /\ \A j \in Queue : store'.queue[j] = AgedRecord(store.queue[j])
  BY DEF Tick, Aged, Queue, WarnInv, Inv, Stores
<1>2. \A j \in Queue : store.queue[j] \in Recs
  BY DEF WarnInv, Inv, Stores
<1>3. \A j \in Queue : AgedRecord(store.queue[j]).tok = store.queue[j].tok
                       /\ AgedRecord(store.queue[j]).ev = store.queue[j].ev
  BY <1>2 DEF AgedRecord, Recs
<1> QED
  BY <1>1, <1>3, StillGood

LEMMA NextGood == WarnInv /\ [Next]_vars => Good
<1> SUFFICES ASSUME WarnInv, [Next]_vars PROVE Good
  OBVIOUS
<1>0. store \in Stores
  BY DEF WarnInv, Inv
<1>1. CASE Produce
  <2>1. Inv' /\ (Steady \/ \E ev \in Notices : Notice(ev))
    BY <1>1, ProduceInv DEF WarnInv
  <2>2. store'.serial \in Nat
    BY <2>1 DEF Inv, Stores
  <2> QED
    BY <2>1, <2>2, SteadyGood, NoticeGood DEF Steady
<1>2. CASE Capture \/ Wake \/ Abandon \/ UNCHANGED vars
  <2>1. store' = store /\ air' = air
    BY <1>2 DEF Capture, Wake, Abandon, vars
  <2> QED
    BY <2>1, StillGood
<1>3. CASE Notify \/ SessionChange \/ Refuse
  <2>1. /\ air' = air /\ store'.serial = store.serial /\ store'.queue = store.queue
        /\ store'.selected \in {store.selected, NoRec}
    BY <1>0, <1>3 DEF Notify, SessionChange, Refuse, Stores
  <2> QED
    BY <2>1, StillGood
<1>4. CASE \E ok \in BOOLEAN : SessionFresh(ok)
  BY <1>4, FreshGood
<1>5. CASE Select \/ Admit \/ Idle \/ Tick
  BY <1>5, SelectGood, AdmitGood, IdleGood, TickGood
<1> QED
  BY <1>1, <1>2, <1>3, <1>4, <1>5 DEF Next, Connection, Complete

LEMMA AlwaysWarned == Spec => []WarnInv /\ [][Retracts /\ Stays]_vars
<1>1. Init => WarnInv
  BY InitInv, InitWarned DEF WarnInv
<1>2. WarnInv /\ [Next]_vars => WarnInv'
  BY NextInv, NextGood DEF WarnInv, Good
<1>3. WarnInv /\ [Next]_vars => Retracts /\ Stays
  BY NextGood DEF Good
<1> QED
  BY <1>1, <1>2, <1>3, PTL DEF Spec

-----------------------------------------------------------------------------
(* Sleep: what the idle wait knows of every stamp of the store *)

\* A rest state: what is to be published anew is not repeated, what is
\* published is the value, a state nobody observes is neither rest nor motion,
\* and its heartbeat is not older than its last publication.
RestCore(x) ==
    /\ x.candidate /\ Valid(x.published) => x.published.copies >= x.published.limit
    /\ Valid(x.published) => x.publishAge >= Pace \/ x.sentAge <= x.publishAge
RestShape(x) ==
    /\ RestCore(x)
    /\ Valid(x.published) /\ ~x.candidate => x.published.val = x.val
    /\ ~x.observed /\ (Valid(x.published) \/ x.candidate) => x.val[1] \notin {0, 1}
Rested(s) == (\A i \in Ends : RestShape(s.states[i])) /\ Offered(s)

\* A wait of w ticks ends before anything can be sent or is to be maintained.
\* What a producer leaves to its notification is not waited for.
BootWaits(s, w) ==
    ~s.notify /\ (\E i \in Ends : s.startup.pending[i] /\ s.startup.tok[i] = 0)
        => w <= Longest(s.startup.in, s.gate)
QueueWaits(s, w) == (\E j \in Queue : Valid(s.queue[j])) => w <= s.gate
OpWaits(o, gate, w) == o.id # 0 => \A d \in OpDeadlines(o) : w <= Longest(d, gate)
SlotWaits(x, gate, w) == \A d \in SlotDeadlines(x) : w <= Longest(d, gate)
Waits(s, w) ==
    /\ BootWaits(s, w) /\ QueueWaits(s, w)
    /\ \A i \in Opers : OpWaits(s.ops[i], s.gate, w)
    /\ \A i \in Ends : SlotWaits(s.states[i], s.gate, w)

\* The thread sleeps, and nobody is about to wake it.
Asleep == pc = "asleep" /\ ~sem /\ ~(owed /\ store.notify) /\ store.nonce # 0
TimeInv ==
    /\ Inv /\ Rested(store) /\ wakeIn \in 0..Fallback
    /\ Asleep => Waits(store, wakeIn)

LEMMA PacesAre == Fallback <= Fresh /\ Pace <= StateBeat
BY PaceAssumption

LEMMA LongestIs ==
  ASSUME NEW m \in Nat, NEW n \in Nat
  PROVE Longest(m, n) \in Nat /\ m <= Longest(m, n) /\ n <= Longest(m, n)
        /\ (Longest(m, n) = m \/ Longest(m, n) = n)
BY DEF Longest

\* A producer that leaves the sleep of the connection thread in order: either
\* it gives notice, or it adds nothing that is due before the wait ends.
Patient(s, t) ==
    /\ s.notify => t.notify
    /\ ~t.notify => \A w \in 0..Fallback : Waits(s, w) => Waits(t, w)
Calm(s, t) == Rested(t) /\ Patient(s, t) /\ t.nonce = s.nonce

LEMMA CalmTwice ==
  ASSUME NEW s, NEW u, NEW t, Calm(s, u), Calm(u, t)
  PROVE Calm(s, t)
BY DEF Calm, Patient

LEMMA CalmItself ==
  ASSUME NEW s, Rested(s)
  PROVE Calm(s, s)
BY DEF Calm, Patient

\* A producer works at the store alone; whatever it owes is called later.
LEMMA CalmTime ==
  ASSUME TimeInv, Inv', Calm(store, store'), pc' = pc, wakeIn' = wakeIn, sem' = sem, owed' = TRUE
  PROVE TimeInv'
<1>1. Asleep' => Asleep /\ ~store'.notify
  BY DEF Asleep, Calm, Patient
<1>2. Asleep' => Waits(store', wakeIn')
  BY <1>1 DEF TimeInv, Calm, Patient
<1> QED
  BY <1>2 DEF TimeInv, Calm

\* From s to t a record was offered to the queue: it was taken and gives
\* notice, or the queue is full and offered at once.
Loud(s, t) ==
    /\ t.states = s.states /\ t.selected = s.selected /\ t.gate = s.gate /\ t.nonce = s.nonce
    /\ s.notify => t.notify
    /\ t.notify \/ (t.queue = s.queue /\ \A j \in Queue : Valid(s.queue[j]))

LEMMA LoudCalm ==
  ASSUME NEW s \in Stores, NEW t \in Stores, Rested(s), Loud(s, t)
  PROVE Calm(s, t)
<1>1. Rested(t)
  BY DEF Rested, Offered, Loud
<1>2. ASSUME NEW w \in 0..Fallback, ~t.notify, Waits(s, w) PROVE Waits(t, w)
  <2>1. t.queue = s.queue /\ 1 \in Queue /\ \A j \in Queue : Valid(s.queue[j])
    BY <1>2, Sizes DEF Loud
  <2>2. w <= s.gate /\ w \in Nat
    BY <1>2, <2>1, IntervalsAre DEF Waits, QueueWaits
  <2>3. /\ s.gate \in Nat /\ t.gate = s.gate /\ t.startup.in \in Nat /\ t.states = s.states
        /\ \A i \in Opers : t.ops[i] \in Ops
    BY DEF Stores, Startups, Loud
  <2>4. ASSUME NEW d \in Nat PROVE w <= Longest(d, t.gate)
    BY <2>2, <2>3 DEF Longest
  <2>5. QueueWaits(t, w)
    BY <2>2, <2>3 DEF QueueWaits
  <2>6. BootWaits(t, w)
    BY <2>3, <2>4 DEF BootWaits
  <2>7. \A i \in Opers : OpWaits(t.ops[i], t.gate, w)
    BY <2>3, <2>4, OpDeadlinesAre DEF OpWaits
  <2>8. \A i \in Ends : SlotWaits(t.states[i], t.gate, w)
    BY <1>2, <2>3 DEF Waits
  <2> QED
    BY <2>5, <2>6, <2>7, <2>8 DEF Waits
<1> QED
  BY <1>1, <1>2 DEF Calm, Patient, Loud

\* A store whose operations were edited.
Edited(s, ops, nextOp, notify) == [s EXCEPT !.ops = ops, !.nextOp = nextOp, !.notify = notify]

LEMMA RecordIs ==
  ASSUME NEW s \in Stores, NEW ops, NEW nextOp, NEW b \in BOOLEAN, s.notify => b, NEW r
  PROVE LET t == Record(Edited(s, ops, nextOp, b), r)
        IN  Loud(s, t) /\ (Power(r) => t.notify)
<1> DEFINE u == [Edited(s, ops, nextOp, b) EXCEPT !.serial = r.tok]
           slot == IF FreeSlots(u) # {} THEN CHOOSE i \in FreeSlots(u) : \A j \in FreeSlots(u) : i <= j
                   ELSE Victim(u)
           stays == FreeSlots(u) = {} /\ ~MayDisplace(u.queue[slot], r)
           v == [u EXCEPT !.queue[slot] = r, !.notify = TRUE]
           t == Record(Edited(s, ops, nextOp, b), r)
<1>1. t = IF stays THEN u ELSE v
  BY DEF Record, Enqueue
<1> HIDE DEF slot
<1>2. /\ u.states = s.states /\ u.selected = s.selected /\ u.gate = s.gate /\ u.nonce = s.nonce
      /\ u.queue = s.queue /\ u.notify = b
      /\ v.states = s.states /\ v.selected = s.selected /\ v.gate = s.gate /\ v.nonce = s.nonce
      /\ v.notify
  BY DEF Stores, Edited
<1>3. stays => ~Power(r) /\ \A j \in Queue : Valid(s.queue[j])
  BY <1>2 DEF MayDisplace, FreeSlots, Queue
<1> HIDE DEF u, v, t, stays
<1>4. Loud(s, t) /\ (Power(r) => t.notify)
  BY <1>1, <1>2, <1>3 DEF Loud
<1> QED
  BY <1>4 DEF t

LEMMA UneditedIs ==
  ASSUME NEW s \in Stores
  PROVE Edited(s, s.ops, s.nextOp, s.notify) = s /\ s.notify \in BOOLEAN
BY DEF Stores, Edited

LEMMA PublishIsLoud ==
  ASSUME NEW s \in Stores, NEW ops, NEW nextOp, NEW b \in BOOLEAN, s.notify => b,
         NEW i, NEW ev, NEW val, NEW limit
  PROVE Loud(s, PublishOp(Edited(s, ops, nextOp, b), i, ev, val, limit))
<1> DEFINE u == Edited(s, ops, nextOp, b)
           r == Materialize(u, u.ops[i].id, ev, val, limit)
           l == IF u.ops[i].active THEN r ELSE u.ops[i].latest
           f == [ops EXCEPT ![i].latest = l]
           g == [f EXCEPT ![i].visible = TRUE]
           v == [u EXCEPT !.ops[i].latest = l]
<1>1. u.ops = ops
  BY DEF Edited, Stores
<1>2. PublishOp(u, i, ev, val, limit) = Record([v EXCEPT !.ops[i].visible = TRUE], r)
  BY DEF PublishOp
<1> HIDE DEF l
<1>3. v = Edited(s, f, nextOp, b)
  BY DEF Edited, Stores
<1> HIDE DEF v, f, u, r
<1>4. [v EXCEPT !.ops[i].visible = TRUE] = Edited(s, g, nextOp, b)
  BY <1>3 DEF Edited, Stores
<1> HIDE DEF g
<1>5. Loud(s, Record(Edited(s, g, nextOp, b), r))
  BY RecordIs
<1>6. Loud(s, PublishOp(u, i, ev, val, limit))
  BY <1>2, <1>4, <1>5
<1> QED
  BY <1>6 DEF u

\* Most calls of the producers leave the store alone or offer a record.
Offers == store' = store \/ Loud(store, store')

LEMMA OpeningOffers ==
  ASSUME store \in Stores
  PROVE /\ Accept => Offers
        /\ Reject => Offers
        /\ \A auto \in BOOLEAN : Begin(auto) => Offers
<1> DEFINE i == OpVictim(store)
           f(auto) == [store.ops EXCEPT ![i] = [NoOp EXCEPT !.id = store.nextOp + 1, !.auto = auto,
                                                           !.active = TRUE, !.beat = OpBeat]]
           n == store.nextOp + 1
<1>1. ASSUME NEW auto PROVE Allocate(store, auto) = Edited(store, f(auto), n, store.notify)
  BY DEF Allocate, Edited, Stores
<1>2. store.notify \in BOOLEAN
  BY DEF Stores
<1> HIDE DEF f, n, i
<1>3. Accept => Offers
  <2>1. Loud(store, PublishOp(Edited(store, f(FALSE), n, store.notify), i, "ACCEPTED", NoValue, NoticeCopies))
    BY <1>2, PublishIsLoud
  <2> QED
    BY <1>1, <2>1 DEF Accept, Producer, Offers, i
<1>4. Reject => Offers
  <2> DEFINE g == [f(FALSE) EXCEPT ![i].active = FALSE]
  <2>1. [Edited(store, f(FALSE), n, store.notify) EXCEPT !.ops[i].active = FALSE]
          = Edited(store, g, n, store.notify)
    BY DEF Edited, Stores
  <2> HIDE DEF g
  <2>2. Loud(store, PublishOp(Edited(store, g, n, store.notify), i, "REJECTED", NoValue, NoticeCopies))
    BY <1>2, PublishIsLoud
  <2> QED
    BY <1>1, <2>1, <2>2 DEF Reject, Producer, Offers, i
<1>5. ASSUME NEW auto \in BOOLEAN PROVE Begin(auto) => Offers
  <2> DEFINE a == Edited(store, f(auto), n, store.notify)
             g == [f(auto) EXCEPT ![i].phase = Began]
             h == [g EXCEPT ![i].changed = 0]
  <2>1. [a EXCEPT !.ops[i].phase = Began] = Edited(store, g, n, store.notify)
    BY DEF Edited, Stores
  <2> HIDE DEF g, a
  <2>2. [Edited(store, g, n, store.notify) EXCEPT !.ops[i].changed = 0, !.notify = TRUE]
          = Edited(store, h, n, TRUE)
    BY DEF Edited, Stores
  <2> HIDE DEF h
  <2>3. [a EXCEPT !.ops[i].phase = Began, !.ops[i].changed = 0, !.notify = TRUE] = Edited(store, h, n, TRUE)
    BY <2>1, <2>2
  <2>4. Loud(store, PublishOp(Edited(store, h, n, TRUE), i, "BEGIN", Began, 1))
    BY PublishIsLoud
  <2>5. Loud(store, Edited(store, h, n, TRUE))
    BY DEF Edited, Stores, Loud
  <2>6. Allocate(store, auto) = a
    BY <1>1 DEF a
  <2>7. Begin(auto) => store' \in {store, Edited(store, h, n, TRUE),
                                   PublishOp(Edited(store, h, n, TRUE), i, "BEGIN", Began, 1)}
    BY <2>3, <2>6 DEF Begin, Producer, i
  <2> QED
    BY <2>4, <2>5, <2>7 DEF Offers
<1> QED
  BY <1>3, <1>4, <1>5

LEMMA OwnerOffers ==
  ASSUME store \in Stores, NEW id
  PROVE /\ Start(id) => Offers
        /\ StorageError(id) => Offers
<1>1. Start(id) => Offers
  <2> DEFINE i == CHOOSE j \in On(store, id) : TRUE
             g == [store.ops EXCEPT ![i].phase = Began]
  <2>1. Start(id) => \/ store' = store
                     \/ store' = PublishOp([store EXCEPT !.ops[i].phase = Began], i, "BEGIN", Began, 1)
    BY DEF Start, Producer, On
  <2> HIDE DEF i
  <2>2. [store EXCEPT !.ops[i].phase = Began] = Edited(store, g, store.nextOp, store.notify)
    BY DEF Edited, Stores
  <2> HIDE DEF g
  <2>3. Loud(store, PublishOp(Edited(store, g, store.nextOp, store.notify), i, "BEGIN", Began, 1))
    BY PublishIsLoud, UneditedIs
  <2> QED
    BY <2>1, <2>2, <2>3 DEF Offers
<1>2. StorageError(id) => Offers
  <2> DEFINE r == Materialize(store, id, "STORAGE", NoValue, NoticeCopies)
  <2>1. StorageError(id) => store' = store \/ store' = Record(store, r)
    BY DEF StorageError, Producer
  <2> HIDE DEF r
  <2>2. Loud(store, Record(Edited(store, store.ops, store.nextOp, store.notify), r))
    BY RecordIs, UneditedIs
  <2> QED
    BY <2>1, <2>2, UneditedIs DEF Offers
<1> QED
  BY <1>1, <1>2

\* A notice of the power manager is always taken.
LEMMA NoticeOffers ==
  ASSUME Inv, NEW ev \in Notices, Notice(ev)
  PROVE Offers
<1> DEFINE s == store
           u == IF ev \in Urgent THEN Retire(s) ELSE s
           v == IF ev = "WOM_CANCELLED" THEN RetractWarnings(u) ELSE u
           r == Materialize(v, 0, ev, NoValue, NoticeCopies)
           t == Record(v, r)
<1>1. store' \in {s, t}
  BY DEF Notice, Posted, Retire
<1>2. u \in Stores /\ Sound(u, air)
  BY RetireSound DEF Inv
<1>3. /\ u.states = s.states /\ u.selected = s.selected /\ u.gate = s.gate /\ u.nonce = s.nonce
      /\ u.notify = s.notify /\ (u = s \/ ev \in Urgent)
  BY DEF Retire, Inv, Stores
<1> HIDE DEF u
<1>4. v \in Stores
  BY <1>2, RetractSound
<1>5. /\ v.states = s.states /\ v.selected = s.selected /\ v.gate = s.gate /\ v.nonce = s.nonce
      /\ v.notify = s.notify /\ (v = s \/ ev \in PowerEvents)
  BY <1>2, <1>3 DEF RetractWarnings, Stores, Urgent, PowerEvents
<1>6. Power(r) <=> ev \in PowerEvents
  BY DEF Power, Materialize
<1> HIDE DEF v, r
<1>7. Loud(v, Record(Edited(v, v.ops, v.nextOp, v.notify), r))
      /\ (Power(r) => Record(Edited(v, v.ops, v.nextOp, v.notify), r).notify)
  BY <1>4, UneditedIs, RecordIs
<1>8. Loud(v, t) /\ (Power(r) => t.notify)
  BY <1>4, <1>7, UneditedIs
<1> HIDE DEF t
<1>9. Loud(s, t)
  BY <1>5, <1>6, <1>8 DEF Loud
<1> QED
  BY <1>1, <1>9 DEF Offers

LEMMA BootOffers ==
  ASSUME store \in Stores, NEW w \in BOOLEAN, ScheduleBoot(w)
  PROVE Offers
BY DEF ScheduleBoot, Producer, Offers, Loud, Stores

\* The other calls change one operation.
LEMMA OpDeadlinesIs ==
  ASSUME NEW o, NEW d
  PROVE d \in OpDeadlines(o) <=>
          IF o.active /\ Hidden(o) THEN d = Left(o.born, Fresh)
          ELSE \/ /\ o.active /\ o.visible /\ (Valid(o.latest) \/ o.candidate)
                  /\ d = IF o.candidate THEN Longest(o.beat, Left(o.progress, Pace)) ELSE o.beat
               \/ o.candidate /\ d = Longest(Left(o.changed, Settle), Left(o.progress, Pace))
               \/ UnsentStep(o) /\ d = 0
BY DEF OpDeadlines

\* No deadline of p comes before all of o.
Later(o, p) ==
    p.id # 0 => o.id # 0 /\ \A d \in OpDeadlines(p) : \E e \in OpDeadlines(o) : e <= d

LEMMA LaterWaits ==
  ASSUME NEW o \in Ops, NEW p \in Ops, Later(o, p), NEW gate \in Nat, NEW w \in Nat, OpWaits(o, gate, w)
  PROVE OpWaits(p, gate, w)
<1> SUFFICES ASSUME p.id # 0, NEW d \in OpDeadlines(p) PROVE w <= Longest(d, gate)
  BY DEF OpWaits
<1>1. PICK e \in OpDeadlines(o) : e <= d
  BY DEF Later
<1>2. w <= Longest(e, gate)
  BY <1>1 DEF OpWaits, Later
<1>3. e \in Nat /\ d \in Nat
  BY OpDeadlinesAre
<1> QED
  BY <1>1, <1>2, <1>3 DEF Longest

LEMMA OpCalm ==
  ASSUME NEW s \in Stores, NEW a, Sound(s, a), Rested(s), NEW i \in Opers, NEW p \in Ops,
         NEW b \in BOOLEAN, s.notify => b, b \/ Later(s.ops[i], p)
  PROVE Calm(s, WithOp(s, i, p, b))
<1> DEFINE t == WithOp(s, i, p, b)
<1>1. /\ t \in Stores /\ t.ops = [s.ops EXCEPT ![i] = p] /\ t.ops[i] = p /\ t.notify = b
      /\ t.queue = s.queue /\ t.selected = s.selected /\ t.states = s.states
      /\ t.startup = s.startup /\ t.nonce = s.nonce /\ t.gate = s.gate
  BY WithOpIs
<1> HIDE DEF t
<1>2. Rested(t)
  BY <1>1 DEF Rested, Offered
<1>3. ASSUME NEW w \in 0..Fallback, ~t.notify, Waits(s, w) PROVE Waits(t, w)
  <2>1. w \in Nat /\ s.gate \in Nat /\ s.ops \in [Opers -> Ops] /\ s.ops[i] \in Ops
    BY IntervalsAre DEF Stores
  <2>2. BootWaits(t, w) /\ QueueWaits(t, w) /\ \A j \in Ends : SlotWaits(t.states[j], t.gate, w)
    BY <1>1, <1>3 DEF Waits, BootWaits, QueueWaits
  <2>3. OpWaits(p, s.gate, w)
    BY <1>1, <1>3, <2>1, LaterWaits DEF Waits
  <2>4. \A j \in Opers : OpWaits(t.ops[j], t.gate, w)
    BY <1>1, <1>3, <2>1, <2>3 DEF Waits
  <2> QED
    BY <2>2, <2>4 DEF Waits
<1> QED
  BY <1>1, <1>2, <1>3 DEF Calm, Patient, t

\* A step of an operation that already has a phase to send waits no less than
\* the phase before it; whom it concerns nothing else is due earlier.
LEMMA SteppedLater ==
  ASSUME NEW o \in Ops, NEW phase \in Values, NEW n \in Nat, o.active, o.id # 0
  PROVE LET p == [o EXCEPT !.latest = IF UnsentStep(o) THEN NoRec ELSE @, !.phase = phase,
                           !.changed = 0, !.candidate = TRUE, !.retry = n]
            q == [o EXCEPT !.retry = n]
        IN  Later(o, q) /\ (o.candidate => Later(o, p))
<1> DEFINE l == IF UnsentStep(o) THEN NoRec ELSE o.latest
           p == [o EXCEPT !.latest = l, !.phase = phase, !.changed = 0, !.candidate = TRUE, !.retry = n]
           q == [o EXCEPT !.retry = n]
<1>0. o.latest \in Recs /\ NoRec \in Recs /\ ~Valid(NoRec) /\ l \in {NoRec, o.latest}
  BY NoRecIs DEF Ops
<1>1. /\ o.beat \in Nat /\ o.progress \in Nat /\ o.changed \in Nat /\ o.born \in Nat
      /\ Pace \in Nat /\ Settle \in Nat /\ Fresh \in Nat
  BY IntervalsAre DEF Ops
<1>2. /\ q.id = o.id /\ q.active = o.active /\ q.candidate = o.candidate /\ q.latest = o.latest
      /\ q.auto = o.auto /\ q.visible = o.visible /\ q.born = o.born /\ q.changed = o.changed
      /\ q.beat = o.beat /\ q.progress = o.progress
  BY DEF Ops
<1>3. UnsentStep(p) => UnsentStep(o)
  BY <1>0 DEF UnsentStep, Ops
<1> HIDE DEF l
<1>4. /\ p.id = o.id /\ p.active = o.active /\ p.candidate
      /\ p.auto = o.auto /\ p.visible = o.visible /\ p.born = o.born /\ p.changed = 0
      /\ p.beat = o.beat /\ p.progress = o.progress
  BY <1>0 DEF Ops
<1> HIDE DEF p, q
<1>6. \A d \in OpDeadlines(o) : d \in Nat
  BY OpDeadlinesAre
<1>7. Later(o, q)
  <2>1. OpDeadlines(q) = OpDeadlines(o)
    BY <1>2 DEF OpDeadlines, Hidden, UnsentStep
  <2> QED
    BY <1>2, <1>6, <2>1 DEF Later
<1>8. ASSUME o.candidate, NEW d \in OpDeadlines(p) PROVE \E e \in OpDeadlines(o) : e <= d
  <2> DEFINE pace == Left(o.progress, Pace)
             settle == Left(o.changed, Settle)
  <2>1. pace \in Nat /\ settle \in Nat /\ Left(0, Settle) \in Nat /\ settle <= Left(0, Settle)
    BY <1>1 DEF Left
  <2>2. CASE o.active /\ Hidden(o)
    <3>1. d \in OpDeadlines(o)
      BY <1>4, <1>8, <2>2, OpDeadlinesIs DEF Hidden
    <3> QED
      BY <1>6, <3>1
  <2>3. CASE ~(o.active /\ Hidden(o))
    <3>1. \/ p.active /\ p.visible /\ d = Longest(p.beat, pace)
          \/ d = Longest(Left(0, Settle), pace)
          \/ UnsentStep(p) /\ d = 0
      <4>1. ~(p.active /\ Hidden(p))
        BY <1>4, <2>3 DEF Hidden
      <4> QED
        BY <1>4, <1>8, <4>1, OpDeadlinesIs
    <3>2. CASE p.active /\ p.visible /\ d = Longest(p.beat, pace)
      <4>1. d \in OpDeadlines(o)
        BY <1>4, <1>8, <2>3, <3>2, OpDeadlinesIs
      <4> QED
        BY <1>6, <4>1
    <3>3. CASE d = Longest(Left(0, Settle), pace)
      <4>1. Longest(settle, pace) \in OpDeadlines(o)
        BY <1>8, <2>3, OpDeadlinesIs
      <4>2. Longest(settle, pace) <= d
        BY <2>1, <3>3 DEF Longest
      <4> QED
        BY <4>1, <4>2
    <3>4. CASE UnsentStep(p) /\ d = 0
      <4>1. d \in OpDeadlines(o)
        BY <1>3, <2>3, <3>4, OpDeadlinesIs
      <4> QED
        BY <1>6, <4>1
    <3> QED
      BY <3>1, <3>2, <3>3, <3>4
  <2> QED
    BY <2>2, <2>3
<1>9. o.candidate => Later(o, p)
  BY <1>4, <1>8 DEF Later
<1> QED
  BY <1>7, <1>9 DEF p, q, l

LEMMA StepCalm ==
  ASSUME TimeInv, NEW id \in Nat, NEW phase \in Values, Step(id, phase)
  PROVE Calm(store, store')
<1> DEFINE i == CHOOSE j \in On(store, id) : TRUE
           o == store.ops[i]
           n == IF phase = Retry THEN 0 ELSE o.retry
           l == IF UnsentStep(o) THEN NoRec ELSE o.latest
           b == store.notify \/ ~o.candidate
           p == [o EXCEPT !.latest = l, !.phase = phase, !.changed = 0, !.candidate = TRUE, !.retry = n]
           q == [o EXCEPT !.retry = n]
<1>1. store \in Stores /\ Sound(store, air) /\ Rested(store) /\ store.notify \in BOOLEAN
  BY DEF TimeInv, Inv, Stores
<1>2. CASE On(store, id) = {}
  <2>1. store' = store
    BY <1>2 DEF Step, Producer, On
  <2> QED
    BY <2>1, <1>1, CalmItself
<1>3. CASE On(store, id) # {}
  <2>1. i \in Opers /\ o.active
    BY <1>3, OnIs
  <2>2. o \in Ops /\ o.id # 0 /\ OpShape(store, i)
    BY <1>1, <2>1 DEF Stores, Sound, Core, OpsShape, OpShape
  <2>3. n \in Nat /\ b \in BOOLEAN
    BY <1>1, <2>2 DEF Ops
  <2>4. store' \in {store, WithOp(store, i, q, store.notify), WithOp(store, i, p, b)}
    <3>1. Inv
      BY DEF TimeInv
    <3> QED
      BY <1>3, <3>1, StepIs
  <2>5. p \in Ops /\ q \in Ops
    <3>1. l \in Recs
      BY <2>2, NoRecIs DEF Ops
    <3> HIDE DEF l, n, o
    <3> QED
      BY <2>2, <2>3, <3>1 DEF Ops
  <2>6. Later(o, q) /\ (o.candidate => Later(o, p))
    <3> HIDE DEF n, o
    <3> QED
      BY <2>1, <2>2, <2>3, SteppedLater
  <2> HIDE DEF p, q, n
  <2>7. Calm(store, WithOp(store, i, q, store.notify))
    BY <1>1, <2>1, <2>5, <2>6, OpCalm
  <2>8. Calm(store, WithOp(store, i, p, b))
    BY <1>1, <2>1, <2>3, <2>5, <2>6, OpCalm
  <2> QED
    BY <1>1, <2>4, <2>7, <2>8, CalmItself
<1> QED
  BY <1>2, <1>3

LEMMA ReasonCalm ==
  ASSUME TimeInv, NEW id \in Nat, SetCompletionReason(id)
  PROVE Calm(store, store')
<1> DEFINE i == CHOOSE j \in On(store, id) : TRUE
           o == store.ops[i]
           p == [o EXCEPT !.why = 1]
<1>1. store \in Stores /\ Sound(store, air) /\ Rested(store) /\ store.notify \in BOOLEAN
  BY DEF TimeInv, Inv, Stores
<1>2. CASE On(store, id) = {}
  <2>1. store' = store
    BY <1>2 DEF SetCompletionReason, Producer, On
  <2> QED
    BY <2>1, <1>1, CalmItself
<1>3. CASE On(store, id) # {}
  <2>1. i \in Opers
    BY <1>3, OnIs
  <2>2. o \in Ops /\ store.ops \in [Opers -> Ops]
    BY <1>1, <2>1 DEF Stores
  <2>3. store' = [store EXCEPT !.ops[i].why = 1]
    BY <1>3 DEF SetCompletionReason, Producer, On
  <2> HIDE DEF i
  <2>4. store' = WithOp(store, i, p, store.notify)
    BY <1>1, <2>3 DEF WithOp, Stores
  <2>5. p \in Ops /\ OpDeadlines(p) = OpDeadlines(o) /\ p.id = o.id
    BY <2>2 DEF Ops, OpDeadlines, Hidden, UnsentStep
  <2>6. \A d \in OpDeadlines(o) : d \in Nat
    BY <2>2, OpDeadlinesAre
  <2>7. Later(o, p)
    BY <2>5, <2>6 DEF Later
  <2> HIDE DEF p
  <2> QED
    BY <1>1, <2>1, <2>4, <2>5, <2>7, OpCalm
<1> QED
  BY <1>2, <1>3

\* A hidden run that fails ends without a record, and with its deadline.
LEMMA EndCalm ==
  ASSUME TimeInv, NEW id \in Nat, NEW ok \in BOOLEAN, End(id, ok)
  PROVE Calm(store, store') \/ Offers
<1> DEFINE i == CHOOSE j \in On(store, id) : TRUE
           o == store.ops[i]
           p == [o EXCEPT !.active = FALSE, !.candidate = FALSE, !.latest = NoRec]
           val == IF ok THEN <<4, o.why>> ELSE <<4, 2>>
<1>1. store \in Stores /\ Sound(store, air) /\ Rested(store) /\ store.notify \in BOOLEAN
  BY DEF TimeInv, Inv, Stores
<1>2. CASE On(store, id) = {}
  BY <1>2 DEF End, Producer, On, Offers
<1>3. CASE On(store, id) # {}
  <2>1. i \in Opers
    BY <1>3, OnIs
  <2>2. o \in Ops /\ store.ops \in [Opers -> Ops]
    BY <1>1, <2>1 DEF Stores
  <2>3. store' \in {Ended(store, i), PublishOp(Ended(store, i), i, "END", val, NoticeCopies)}
    BY <1>3 DEF End, Producer, On
  <2> HIDE DEF i
  <2>4. Ended(store, i) = WithOp(store, i, p, store.notify)
    <3> DEFINE f == [store.ops EXCEPT ![i].active = FALSE]
               g == [f EXCEPT ![i].candidate = FALSE]
               h == [g EXCEPT ![i].latest = NoRec]
    <3>1. Ended(store, i) = [store EXCEPT !.ops = h]
      BY <1>1 DEF Ended, Stores
    <3>2. h = [store.ops EXCEPT ![i] = p]
      BY <2>1, <2>2 DEF Ops
    <3> HIDE DEF h, p
    <3> QED
      BY <1>1, <3>1, <3>2 DEF WithOp, Stores
  <2>5. p \in Ops /\ ~p.active /\ ~p.candidate /\ p.latest = NoRec /\ p.id = o.id
    BY <2>2, NoRecIs DEF Ops
  <2> HIDE DEF p, val
  <2>6. OpDeadlines(p) = {}
    BY <2>5, NoRecIs DEF OpDeadlines, UnsentStep
  <2>7. Later(o, p)
    BY <2>5, <2>6 DEF Later
  <2>8. Calm(store, Ended(store, i))
    BY <1>1, <2>1, <2>4, <2>5, <2>7, OpCalm
  <2>9. Ended(store, i) = Edited(store, [store.ops EXCEPT ![i] = p], store.nextOp, store.notify)
    BY <2>4 DEF WithOp, Edited, Stores
  <2>10. Loud(store, PublishOp(Ended(store, i), i, "END", val, NoticeCopies))
    BY <1>1, <2>9, PublishIsLoud
  <2> QED
    BY <2>3, <2>8, <2>10 DEF Offers
<1> QED
  BY <1>2, <1>3

\* The rest states.
LEMMA SetRests ==
  ASSUME NEW x \in Slots, NEW val \in Values, RestCore(x), x.observed \/ val[1] \notin {0, 1}
  PROVE RestShape(SlotSet(x, val))
<1> DEFINE y == SlotSet(x, val)
<1>1. /\ y.observed = x.observed /\ y.publishAge = x.publishAge /\ y.sentAge = x.sentAge /\ y.val = val
      /\ y.published.tok = x.published.tok /\ y.published.limit = x.published.limit
      /\ y.published.val = x.published.val
      /\ y.candidate <=> (x.candidate /\ x.val = val) \/ ~SlotQuiet(x, val)
      /\ y.published.copies = IF SlotQuiet(x, val) THEN x.published.copies ELSE x.published.limit
      /\ x.published.limit \in Nat
  BY SlotSetIs DEF Slots, Recs
<1> HIDE DEF y
<1>2. Valid(y.published) <=> Valid(x.published)
  BY <1>1 DEF Valid
<1>3. RestCore(y)
  BY <1>1, <1>2 DEF RestCore, SlotQuiet
<1>4. Valid(y.published) /\ ~y.candidate => y.published.val = y.val
  BY <1>1, <1>2 DEF SlotQuiet
<1>5. RestShape(y)
  BY <1>1, <1>3, <1>4 DEF RestShape
<1> QED
  BY <1>5 DEF y

\* Each deadline of y is beyond every wait or not before all of x.
SlotLater(x, y) == \A d \in SlotDeadlines(y) : Fallback <= d \/ \E e \in SlotDeadlines(x) : e <= d

LEMMA SlotLaterWaits ==
  ASSUME NEW x \in Slots, NEW y \in Slots, SlotLater(x, y), NEW gate \in Nat, NEW w \in 0..Fallback,
         SlotWaits(x, gate, w)
  PROVE SlotWaits(y, gate, w)
<1> SUFFICES ASSUME NEW d \in SlotDeadlines(y) PROVE w <= Longest(d, gate)
  BY DEF SlotWaits
<1>1. d \in Nat /\ Fallback \in Nat /\ w \in Nat /\ w <= Fallback
  BY SlotDeadlinesAre, IntervalsAre
<1>2. CASE Fallback <= d
  BY <1>1, <1>2 DEF Longest
<1>3. ASSUME NEW e \in SlotDeadlines(x), e <= d PROVE w <= Longest(d, gate)
  <2>1. e \in Nat /\ w <= Longest(e, gate)
    BY SlotDeadlinesAre DEF SlotWaits
  <2> QED
    BY <1>1, <1>3, <2>1 DEF Longest
<1> QED
  BY <1>2, <1>3 DEF SlotLater

LEMMA SlotDeadlinesIs ==
  ASSUME NEW x, NEW d
  PROVE d \in SlotDeadlines(x) <=>
          \/ x.observed /\ d = Left(x.seen, Fresh)
          \/ x.candidate /\ d = Left(x.publishAge, Pace)
          \/ /\ ~x.candidate /\ Valid(x.published)
             /\ \/ x.published.copies < x.published.limit /\ d = 0
                \/ ~(x.published.copies < x.published.limit) /\ x.observed /\ d = Left(x.sentAge, StateBeat)
BY DEF SlotDeadlines

\* y watches what x does not, or the other way round.
Rewatched(x, y) ==
    /\ y \in Slots /\ y.published = x.published /\ y.candidate = x.candidate /\ y.val = x.val
    /\ y.publishAge = x.publishAge /\ y.sentAge = x.sentAge
    /\ y.observed => y.seen = 0

LEMMA QuietLater ==
  ASSUME NEW x \in Slots, NEW y, RestShape(x), Rewatched(x, y), NEW val \in Values,
         SlotQuiet(y, val), y.observed => val[1] \in {0, 1}
  PROVE SlotLater(x, SlotSet(y, val))
<1> DEFINE z == SlotSet(y, val)
<1>1. /\ z.observed = y.observed /\ z.seen = y.seen
      /\ z.publishAge = x.publishAge /\ z.sentAge = x.sentAge
      /\ z.published.tok = x.published.tok /\ z.published.limit = x.published.limit
      /\ z.published.copies = x.published.copies
      /\ z.candidate <=> (x.candidate /\ x.val = val)
      /\ y.observed => y.seen = 0
      /\ SlotQuiet(x, val)
  BY SlotSetIs DEF Rewatched, SlotQuiet
<1> HIDE DEF z
<1>2. Valid(z.published) <=> Valid(x.published)
  BY <1>1 DEF Valid
<1>3. /\ Fallback \in Nat /\ Fresh \in Nat /\ Pace \in Nat /\ StateBeat \in Nat
      /\ Fallback <= Fresh /\ Pace <= StateBeat /\ 0 < Fresh
      /\ x.publishAge \in Nat /\ x.sentAge \in Nat /\ x.published.copies \in Nat /\ x.published.limit \in Nat
  BY IntervalsAre, PacesAre DEF Slots, Recs
<1> SUFFICES ASSUME NEW d \in SlotDeadlines(z)
             PROVE Fallback <= d \/ \E e \in SlotDeadlines(x) : e <= d
  BY DEF SlotLater, z
<1>4. \A e \in SlotDeadlines(x) : e \in Nat
  BY SlotDeadlinesAre
<1>5. CASE z.observed /\ d = Left(z.seen, Fresh)
  BY <1>1, <1>3, <1>5 DEF Left
<1>6. CASE z.candidate /\ d = Left(z.publishAge, Pace)
  <2>1. d \in SlotDeadlines(x)
    BY <1>1, <1>6, SlotDeadlinesIs
  <2> QED
    BY <1>4, <2>1
<1>7. ASSUME ~z.candidate, Valid(z.published) PROVE Valid(x.published) /\ x.published.val = val
  BY <1>1, <1>2, <1>7 DEF SlotQuiet
<1>8. CASE ~z.candidate /\ Valid(z.published) /\ z.published.copies < z.published.limit /\ d = 0
  <2>1. ~x.candidate
    BY <1>1, <1>3, <1>7, <1>8 DEF RestShape, RestCore
  <2>2. d \in SlotDeadlines(x)
    BY <1>1, <1>7, <1>8, <2>1, SlotDeadlinesIs
  <2> QED
    BY <1>4, <2>2
<1>9. CASE /\ ~z.candidate /\ Valid(z.published) /\ ~(z.published.copies < z.published.limit)
           /\ z.observed /\ d = Left(z.sentAge, StateBeat)
  <2>1. val[1] \in {0, 1} /\ Valid(x.published) /\ x.published.val = val
    BY <1>1, <1>7, <1>9
  <2>2. CASE x.candidate
    <3>1. Left(x.publishAge, Pace) \in SlotDeadlines(x)
      BY <2>2, SlotDeadlinesIs
    <3>2. x.publishAge >= Pace \/ x.sentAge <= x.publishAge
      BY <2>1 DEF RestShape, RestCore
    <3>3. Left(x.publishAge, Pace) <= d
      BY <1>1, <1>3, <1>9, <3>2 DEF Left
    <3> QED
      BY <3>1, <3>3
  <2>3. CASE ~x.candidate
    <3>1. x.observed
      BY <2>1, <2>3 DEF RestShape
    <3>2. d \in SlotDeadlines(x)
      BY <1>1, <1>9, <2>1, <2>3, <3>1, SlotDeadlinesIs
    <3> QED
      BY <1>4, <3>2
  <2> QED
    BY <2>2, <2>3
<1> QED
  BY <1>5, <1>6, <1>8, <1>9, SlotDeadlinesIs

LEMMA SlottedRests ==
  ASSUME NEW s \in Stores, NEW a, Rested(s), NEW i \in Ends, NEW t, NEW y, Slotted(s, t, i, y, a),
         RestShape(y), y.published.tok \in {s.states[i].published.tok, 0}
  PROVE Rested(t)
<1>1. /\ t.selected = s.selected /\ t.states[i] = y
      /\ \A j \in Ends \ {i} : t.states[j] = s.states[j]
  BY DEF Slotted, StatesOnly
<1>2. ASSUME NEW j \in Ends PROVE RestShape(t.states[j])
  BY <1>1 DEF Rested
<1>3. Offered(t)
  BY <1>1 DEF Rested, Offered, Valid
<1> QED
  BY <1>2, <1>3 DEF Rested

LEMMA SlotCalm ==
  ASSUME NEW s \in Stores, NEW a, Rested(s), NEW i \in Ends, NEW t, NEW y, Slotted(s, t, i, y, a),
         RestShape(y), y.published.tok \in {s.states[i].published.tok, 0}, s.notify => t.notify,
         t.notify \/ SlotLater(s.states[i], y)
  PROVE Calm(s, t)
<1>1. /\ t \in Stores /\ t.queue = s.queue /\ t.ops = s.ops /\ t.selected = s.selected
      /\ t.startup = s.startup /\ t.nonce = s.nonce /\ t.gate = s.gate
      /\ t.states[i] = y /\ y \in Slots /\ s.states[i] \in Slots /\ s.gate \in Nat
      /\ \A j \in Ends \ {i} : t.states[j] = s.states[j]
  BY DEF Slotted, StatesOnly, SlotFits, Stores
<1>2. Rested(t)
  BY SlottedRests
<1>3. ASSUME NEW w \in 0..Fallback, ~t.notify, Waits(s, w) PROVE Waits(t, w)
  <2>1. BootWaits(t, w) /\ QueueWaits(t, w) /\ \A j \in Opers : OpWaits(t.ops[j], t.gate, w)
    BY <1>1, <1>3 DEF Waits, BootWaits, QueueWaits
  <2>2. SlotWaits(y, s.gate, w)
    BY <1>1, <1>3, SlotLaterWaits DEF Waits
  <2>3. ASSUME NEW j \in Ends PROVE SlotWaits(t.states[j], t.gate, w)
    BY <1>1, <1>3, <2>2 DEF Waits
  <2> QED
    BY <2>1, <2>3 DEF Waits
<1> QED
  BY <1>1, <1>2, <1>3 DEF Calm, Patient

\* A new observation, or that nobody observes.
LEMMA SetCalm ==
  ASSUME NEW s \in Stores, NEW a, Sound(s, a), Rested(s), NEW i \in Ends, NEW y,
         Rewatched(s.states[i], y), NEW val \in Values, y.observed <=> val[1] \in {0, 1},
         NEW t, Slotted(s, t, i, SlotSet(y, val), a), t.notify = (s.notify \/ ~SlotQuiet(y, val))
  PROVE Calm(s, t)
<1> DEFINE z == SlotSet(y, val)
           x == s.states[i]
<1>1. x \in Slots /\ y \in Slots /\ RestShape(x)
  BY DEF Rested, Rewatched, Stores
<1>2. RestCore(y)
  BY <1>1 DEF RestShape, RestCore, Rewatched
<1>3. RestShape(z) /\ z.published.tok = x.published.tok
  BY <1>1, <1>2, SetRests, SlotSetIs DEF Rewatched
<1>4. SlotQuiet(y, val) => SlotLater(x, z)
  BY <1>1, QuietLater
<1> HIDE DEF z
<1> QED
  BY <1>3, <1>4, SlotCalm DEF z

LEMMA RewatchedIs ==
  ASSUME NEW s \in Stores, NEW a, Sound(s, a), NEW i \in Ends
  PROVE LET x == s.states[i]
        IN  /\ Rewatched(x, Watched(x)) /\ Watched(x).observed
            /\ Rewatched(x, Unwatched(x)) /\ ~Unwatched(x).observed
<1> DEFINE x == s.states[i]
<1>1. SlotFits(s, i, x) /\ x \in Slots /\ x.seen \in Nat /\ x.candidate \in BOOLEAN
  BY SlotFitsItself DEF Slots
<1> HIDE DEF x
<1>2. ASSUME NEW o \in BOOLEAN, NEW n \in Nat, o => n = 0
      PROVE LET y == Reset(x, o, n, x.published, x.candidate) IN Rewatched(x, y) /\ y.observed = o
  <2> DEFINE y == Reset(x, o, n, x.published, x.candidate)
  <2>1. /\ SlotFits(s, i, y) /\ y.observed = o /\ y.seen = n /\ y.published = x.published
        /\ y.candidate = x.candidate /\ y.val = x.val /\ y.publishAge = x.publishAge /\ y.sentAge = x.sentAge
    BY <1>1, ResetIs
  <2> HIDE DEF y
  <2>2. Rewatched(x, y) /\ y.observed = o
    BY <1>2, <2>1 DEF Rewatched, SlotFits
  <2> QED
    BY <2>2 DEF y
<1>3. Rewatched(x, Watched(x)) /\ Watched(x).observed
  BY <1>2 DEF Watched
<1>4. Rewatched(x, Unwatched(x)) /\ ~Unwatched(x).observed
  BY <1>1, <1>2 DEF Unwatched
<1> QED
  BY <1>3, <1>4 DEF x

LEMMA SeenCalm ==
  ASSUME NEW s \in Stores, NEW a, Sound(s, a), Rested(s), NEW i \in Ends, NEW val \in Values, val[1] \in {0, 1}
  PROVE LET t == Seen(s, i, val) IN t \in Stores /\ Sound(t, a) /\ Calm(s, t)
<1> DEFINE t == Seen(s, i, val)
           y == Watched(s.states[i])
<1>1. Slotted(s, t, i, SlotSet(y, val), a) /\ t.notify = (s.notify \/ ~SlotQuiet(y, val))
  BY SeenSound
<1>2. Rewatched(s.states[i], y) /\ y.observed
  BY RewatchedIs
<1> HIDE DEF t, y
<1> QED
  BY <1>1, <1>2, SetCalm, SlottedKeeping DEF t

LEMMA ObservedCalm ==
  ASSUME NEW s \in Stores, NEW a, Sound(s, a), Rested(s), NEW o
  PROVE Calm(s, Observed(s, o))
<1> DEFINE t == IF o.tracker = "none" THEN s ELSE Seen(s, 0, <<IF o.tracker = "rest" THEN 1 ELSE 0, 0>>)
           rest == <<IF o.fusion = "rest" THEN 1 ELSE 0, 1>>
           none == <<3, 0>>
           y == Unwatched(t.states[1])
           u == WithSlot(t, 1, y, t.notify)
<1>1. t \in Stores /\ Sound(t, a) /\ Calm(s, t)
  <2> DEFINE val == <<IF o.tracker = "rest" THEN 1 ELSE 0, 0>>
  <2>1. val \in Values /\ val[1] \in {0, 1} /\ 0 \in Ends
    BY DEF Values, Ends
  <2> HIDE DEF val
  <2>2. Seen(s, 0, val) \in Stores /\ Sound(Seen(s, 0, val), a) /\ Calm(s, Seen(s, 0, val))
    BY <2>1, SeenCalm
  <2> QED
    BY <2>2, CalmItself DEF val
<1>2. Rested(t)
  BY <1>1 DEF Calm
<1>3. Observed(s, o) =
        CASE o.fusion = "unsupported" -> SetState([t EXCEPT !.states[1].observed = FALSE], 1, none)
          [] o.fusion = "none" -> t
          [] OTHER -> Seen(t, 1, rest)
  BY DEF Observed
<1> HIDE DEF t
<1>4. /\ rest \in Values /\ rest[1] \in {0, 1} /\ 1 \in Ends
      /\ none \in Values /\ none[1] \notin {0, 1}
  BY DEF Values, Ends
<1> HIDE DEF rest, none
<1>5. SlotFits(t, 1, y) /\ [t EXCEPT !.states[1].observed = FALSE] = u
  BY <1>1, <1>4, UnwatchedIs
<1>6. Rewatched(t.states[1], y) /\ ~y.observed
  BY <1>1, <1>4, RewatchedIs
<1> HIDE DEF y
<1>7. /\ Slotted(t, SetState(u, 1, none), 1, SlotSet(y, none), a)
      /\ SetState(u, 1, none).notify = (t.notify \/ ~SlotQuiet(y, none))
  BY <1>1, <1>4, <1>5, ResetSet
<1> HIDE DEF u
<1>8. Calm(t, SetState(u, 1, none))
  BY <1>1, <1>2, <1>4, <1>6, <1>7, SetCalm
<1>9. Calm(t, Seen(t, 1, rest)) /\ Calm(t, t)
  BY <1>1, <1>2, <1>4, SeenCalm, CalmItself
<1>10. Observed(s, o) \in {SetState(u, 1, none), t, Seen(t, 1, rest)}
  BY <1>3, <1>5
<1> QED
  BY <1>1, <1>8, <1>9, <1>10, CalmTwice

LEMMA InvalidatedCalm ==
  ASSUME NEW s \in Stores, NEW a, Sound(s, a), Rested(s), NEW i \in Ends
  PROVE LET t == Invalidated(s, i) IN t \in Stores /\ Sound(t, a) /\ Calm(s, t)
<1> DEFINE t == Invalidated(s, i)
           x == s.states[i]
           y == Emptied(x)
<1>1. /\ SlotFits(s, i, y)
      /\ \/ Slotted(s, t, i, y, a) /\ s.nonce = 0
         \/ /\ s.nonce # 0 /\ t.notify
            /\ \E val \in Values : val[1] = 2 /\ Slotted(s, t, i, SlotSet(y, val), a)
  BY InvalidatedSound
<1>2. s.nonce = 0 => t.notify = s.notify
  BY DEF Invalidated, Stores
<1> HIDE DEF t
<1>3. y \in Slots /\ y.published = NoRec /\ ~y.observed /\ ~y.candidate
  <2> DEFINE e == Reset(x, FALSE, x.seen, NoRec, FALSE)
  <2>1. SlotFits(s, i, x) /\ x \in Slots /\ x.seen \in Nat
    BY SlotFitsItself DEF Slots
  <2> HIDE DEF x
  <2>2. SlotFits(s, i, e) /\ e.published = NoRec /\ ~e.observed /\ ~e.candidate
    <3>1. ASSUME NEW o \in BOOLEAN, NEW n \in Nat, NEW p \in {x.published, NoRec}, NEW c \in BOOLEAN
          PROVE LET z == Reset(x, o, n, p, c)
                IN  SlotFits(s, i, z) /\ z.published = p /\ (z.observed <=> o) /\ (z.candidate <=> c)
      BY <2>1, ResetIs
    <3> QED
      BY <2>1, <3>1
  <2> HIDE DEF e
  <2>3. e \in Slots
    BY <2>2 DEF SlotFits
  <2> QED
    BY <2>2, <2>3 DEF Emptied, e
<1> HIDE DEF y
<1>4. RestCore(y) /\ RestShape(y) /\ SlotDeadlines(y) = {} /\ NoRec.tok = 0
  BY <1>3, NoRecIs DEF RestCore, RestShape, SlotDeadlines, NoRec
<1>5. ASSUME Slotted(s, t, i, y, a), s.nonce = 0
      PROVE t \in Stores /\ Sound(t, a) /\ Calm(s, t)
  <2>1. SlotLater(x, y)
    BY <1>4 DEF SlotLater
  <2>2. Calm(s, t)
    BY <1>2, <1>3, <1>4, <1>5, <2>1, SlotCalm
  <2> QED
    BY <1>5, <2>2, SlottedKeeping
<1>6. ASSUME t.notify, NEW val \in Values, val[1] = 2, Slotted(s, t, i, SlotSet(y, val), a)
      PROVE t \in Stores /\ Sound(t, a) /\ Calm(s, t)
  <2>1. RestShape(SlotSet(y, val))
    BY <1>3, <1>4, <1>6, SetRests
  <2>2. SlotSet(y, val).published.tok = 0
    BY <1>3, <1>4, SlotSetIs
  <2>3. Calm(s, t)
    BY <1>6, <2>1, <2>2, SlotCalm
  <2> QED
    BY <1>6, <2>3, SlottedKeeping
<1>7. t \in Stores /\ Sound(t, a) /\ Calm(s, t)
  BY <1>1, <1>5, <1>6
<1> QED
  BY <1>7 DEF t

LEMMA InvalidateCalm ==
  ASSUME NEW s \in Stores, NEW a, Sound(s, a), Rested(s)
  PROVE Calm(s, [Invalidated(Invalidated(s, 0), 1) EXCEPT !.epoch = @ + 1])
<1> DEFINE u == Invalidated(s, 0)
           v == Invalidated(u, 1)
           t == [v EXCEPT !.epoch = @ + 1]
<1>0. 0 \in Ends /\ 1 \in Ends
  BY DEF Ends
<1>1. u \in Stores /\ Sound(u, a) /\ Calm(s, u)
  BY <1>0, InvalidatedCalm
<1> HIDE DEF u
<1>2. v \in Stores /\ Calm(u, v)
  BY <1>0, <1>1, InvalidatedCalm DEF Calm
<1> HIDE DEF v
<1>3. /\ t.queue = v.queue /\ t.ops = v.ops /\ t.states = v.states /\ t.startup = v.startup
      /\ t.nonce = v.nonce /\ t.gate = v.gate /\ t.notify = v.notify /\ t.selected = v.selected
  BY <1>2 DEF Stores
<1> HIDE DEF t
<1>4. Rested(v) /\ Rested(t)
  BY <1>2, <1>3 DEF Calm, Rested, Offered
<1>5. \A w : Waits(v, w) => Waits(t, w)
  BY <1>3 DEF Waits, BootWaits, QueueWaits
<1>6. Calm(v, t)
  BY <1>3, <1>4, <1>5 DEF Calm, Patient
<1>7. Calm(s, t)
  BY <1>1, <1>2, <1>6, CalmTwice
<1> QED
  BY <1>7 DEF t, v, u

\* Every producer leaves the sleep in order.
LEMMA ProduceCalm ==
  ASSUME TimeInv, Produce
  PROVE Calm(store, store')
<1>0. /\ Ids \subseteq Nat
      /\ <<2, 0>> \in Values /\ Retry \in Values
      /\ Inv /\ Inv' /\ store \in Stores /\ store' \in Stores /\ Sound(store, air) /\ Rested(store)
  BY ProduceInv DEF TimeInv, Inv, Stores, Ids, Retry, Values
<1>1. ASSUME Offers PROVE Calm(store, store')
  BY <1>0, <1>1, LoudCalm, CalmItself DEF Offers
<1>2. CASE \E ev \in (PowerEvents \ {"BOOT", "WATCHDOG"}) \cup {"BUTTON"} : Notice(ev)
  BY <1>0, <1>1, <1>2, NoticeOffers DEF Notices
<1>3. CASE \E w \in BOOLEAN : ScheduleBoot(w)
  BY <1>0, <1>1, <1>3, BootOffers
<1>4. CASE Accept \/ Reject \/ \E auto \in BOOLEAN : Begin(auto)
  BY <1>0, <1>1, <1>4, OpeningOffers
<1>5. CASE \E id \in Ids : Start(id) \/ StorageError(id) \/ SetCompletionReason(id)
  BY <1>0, <1>1, <1>5, OwnerOffers, ReasonCalm
<1>6. CASE \E id \in Ids, phase \in {<<2, 0>>, Retry} : Step(id, phase)
  BY <1>0, <1>6, StepCalm
<1>7. CASE \E id \in Ids, ok \in BOOLEAN : End(id, ok)
  BY <1>0, <1>1, <1>7, EndCalm
<1>8. CASE \E o \in Observations : Observe(o)
  <2>1. PICK o : Observe(o)
    BY <1>8
  <2>2. store' \in {store, Observed(store, o)}
    BY <2>1 DEF Observe, Producer
  <2> QED
    BY <1>0, <2>2, ObservedCalm, CalmItself
<1>9. CASE SensorInvalidate
  BY <1>0, <1>9, InvalidateCalm DEF SensorInvalidate, Producer
<1> QED
  BY <1>2, <1>3, <1>4, <1>5, <1>6, <1>7, <1>8, <1>9 DEF Produce

LEMMA ProduceTime == ASSUME TimeInv, Produce PROVE TimeInv'
<1>1. pc' = pc /\ wakeIn' = wakeIn /\ sem' = sem /\ owed' = TRUE
  BY DEF Produce, Notice, ScheduleBoot, Accept, Reject, Begin, Start, StorageError, SetCompletionReason,
         Step, End, Observe, SensorInvalidate, Producer, Produces
<1>2. Inv'
  BY ProduceInv DEF TimeInv
<1>3. Calm(store, store')
  BY ProduceCalm
<1> QED
  BY <1>1, <1>2, <1>3, CalmTime

-----------------------------------------------------------------------------
(* The connection thread and the sleep *)

LEMMA LapsedRests ==
  ASSUME NEW s \in Stores, NEW a, Sound(s, a), Rested(s), NEW i \in Ends
  PROVE LET u == Lapsed(s, i) IN u \in Stores /\ Sound(u, a) /\ Rested(u)
<1> DEFINE u == Lapsed(s, i)
           z == Unwatched(s.states[i])
<1>1. PICK y : /\ Slotted(s, u, i, y, a)
               /\ u = s \/ \E val \in Values : val[1] = 2 /\ y = SlotSet(z, val)
  BY LapsedSound
<1>2. Rewatched(s.states[i], z) /\ ~z.observed /\ RestShape(s.states[i])
  BY RewatchedIs DEF Rested
<1> HIDE DEF u, z
<1>3. RestCore(z) /\ z \in Slots /\ z.published = s.states[i].published
  BY <1>2 DEF RestShape, RestCore, Rewatched
<1>4. ASSUME NEW val \in Values, val[1] = 2, y = SlotSet(z, val) PROVE Rested(u)
  <2>1. RestShape(y) /\ y.published.tok = z.published.tok
    BY <1>3, <1>4, SetRests, SlotSetIs
  <2> QED
    BY <1>1, <1>3, <2>1, SlottedRests
<1>5. u \in Stores /\ Sound(u, a) /\ Rested(u)
  BY <1>1, <1>4, SlottedKeeping
<1> QED
  BY <1>5 DEF u

LEMMA AgeRests ==
  ASSUME NEW s \in Stores, NEW a, Sound(s, a), Rested(s), NEW i \in Ends
  PROVE LET t == AgeState(s, i) IN t \in Stores /\ Sound(t, a) /\ Rested(t)
<1> DEFINE u == Lapsed(s, i)
           x == u.states[i]
           p == x.published
           z == [x EXCEPT !.published.copies = p.limit]
           v == WithSlot(u, i, z, u.notify)
           t == AgeState(s, i)
<1>1. t = IF Expired(p) THEN [u EXCEPT !.states[i].published.copies = p.limit] ELSE u
  BY DEF AgeState, Lapsed, Expired, Stale
<1>2. u \in Stores /\ Sound(u, a) /\ Rested(u)
  BY LapsedRests
<1> HIDE DEF u, t
<1>3. u.states \in [Ends -> Slots] /\ u.notify \in BOOLEAN /\ SlotFits(u, i, x) /\ x \in Slots
  BY <1>2, SlotFitsItself DEF Stores
<1>4. [u EXCEPT !.states[i].published.copies = p.limit] = v
  BY <1>2, <1>3 DEF WithSlot, Stores
<1>5. /\ z \in Slots /\ z.observed = x.observed /\ z.candidate = x.candidate /\ z.val = x.val
      /\ z.publishAge = x.publishAge /\ z.sentAge = x.sentAge
      /\ z.published.tok = p.tok /\ z.published.op = p.op /\ z.published.ev = p.ev
      /\ z.published.limit = p.limit /\ z.published.val = p.val /\ z.published.copies = p.limit
      /\ p.limit \in Nat
  BY <1>3 DEF Slots, Recs
<1>6. SlotFits(u, i, z)
  BY <1>3, <1>5 DEF SlotFits, Valid
<1>7. RestShape(z)
  BY <1>2, <1>5 DEF Rested, RestShape, RestCore, Valid
<1> HIDE DEF z
<1>8. Slotted(u, v, i, z, a)
  BY <1>2, <1>3, <1>6, SlotSound
<1> HIDE DEF v
<1>9. v \in Stores /\ Sound(v, a) /\ Rested(v)
  BY <1>2, <1>5, <1>7, <1>8, SlottedRests, SlottedKeeping
<1>10. t \in Stores /\ Sound(t, a) /\ Rested(t)
  BY <1>1, <1>2, <1>4, <1>9
<1> QED
  BY <1>10 DEF t

LEMMA MaintainRests ==
  ASSUME NEW s \in Stores, NEW a, Sound(s, a), Rested(s)
  PROVE Rested(Maintain(s))
<1>0. 0 \in Ends /\ 1 \in Ends
  BY DEF Ends
<1> DEFINE c == DropExpired(s)
           d == Announce(c, 0)
           b == Begun(s)
<1>1. c \in Stores /\ Sound(c, a) /\ c.states = s.states /\ c.selected = s.selected
  BY DropExpiredSound DEF DropExpired, Stores
<1>2. b = Announce(d, 1)
  BY DEF Begun
<1> HIDE DEF b, c
<1>3. d \in Stores /\ Sound(d, a) /\ d.states = c.states /\ d.selected = c.selected
  BY <1>0, <1>1, AnnounceSound DEF AnnouncedOnce, StartupOnly
<1> HIDE DEF d
<1>4. b \in Stores /\ Sound(b, a) /\ b.states = d.states /\ b.selected = d.selected
  BY <1>0, <1>2, <1>3, AnnounceSound DEF AnnouncedOnce, StartupOnly
<1>5. PICK g : Pass(b, g, OpSize) /\ Maintain(s) = AgeState(AgeState(g[OpSize], 0), 1)
  BY MaintainPasses DEF b
<1> DEFINE e == g[OpSize]
           f == AgeState(e, 0)
<1>6. Came(b, e, OpSize, a)
  BY <1>4, <1>5, PassComes
<1> HIDE DEF e
<1>7. e \in Stores /\ Sound(e, a) /\ Rested(e)
  BY <1>1, <1>3, <1>4, <1>6 DEF Came, Rested, Offered
<1>8. f \in Stores /\ Sound(f, a) /\ Rested(f)
  BY <1>0, <1>7, AgeRests
<1> HIDE DEF f
<1>9. Rested(AgeState(f, 1))
  BY <1>0, <1>8, AgeRests
<1> QED
  BY <1>5, <1>9 DEF e, f

LEMMA ChoiceRests ==
  ASSUME NEW s \in Stores, NEW a, Sound(s, a), Rested(s), NEW c, Choice(s, c)
  PROVE Rested([c.s EXCEPT !.selected = c.r])
<1> DEFINE t == [c.s EXCEPT !.selected = c.r]
<1>1. Offered(t) /\ t.states = c.s.states
  BY ChoiceSound
<1> HIDE DEF t
<1>2. CASE KeptChoice(s, c)
  <2>1. c.s.states = s.states
    BY <1>2 DEF KeptChoice, Turned
  <2> QED
    BY <1>1, <2>1 DEF Rested, t
<1>3. CASE ProgressChoice(s, c)
  <2>1. PICK u : \E i \in Opers : /\ Turned(s, u) /\ s.ops[i].active /\ ~Hidden(s.ops[i])
                                  /\ c = SendProgress(u, i)
    BY <1>3 DEF ProgressChoice
  <2>2. u.states = s.states /\ u \in Stores /\ Sound(u, a) /\ u.ops = s.ops
    BY <2>1, TurnedSound DEF Turned
  <2>3. c.s.states = s.states
    BY <2>1, <2>2, ProgressSound
  <2> QED
    BY <1>1, <2>3 DEF Rested, t
<1>4. CASE StateChoice(s, c)
  <2>1. PICK i \in Ends : s.states[i].candidate /\ s.states[i].publishAge >= Pace /\ c = SendState(s, i)
    BY <1>4 DEF StateChoice
  <2> DEFINE x == s.states[i]
             y == SlotSent(x, c.r)
  <2>2. /\ c.r \in Recs /\ c.r.copies = 0 /\ c.r.val = x.val
        /\ c.s.states = [s.states EXCEPT ![i] = y]
    BY <2>1, StateSound
  <2>3. x \in Slots /\ s.states \in [Ends -> Slots] /\ RestShape(x) /\ x.candidate /\ x.publishAge >= Pace
    BY <2>1 DEF Rested, Stores
  <2>4. /\ y.published = c.r /\ ~y.candidate /\ y.val = x.val /\ y.observed = x.observed
        /\ y.publishAge = x.publishAge
    BY <2>3 DEF SlotSent, Slots
  <2> HIDE DEF x, y
  <2>5. RestShape(y)
    BY <2>2, <2>3, <2>4 DEF RestShape, RestCore
  <2>6. \A j \in Ends : RestShape(c.s.states[j])
    BY <2>2, <2>3, <2>5 DEF Rested
  <2> QED
    BY <1>1, <2>6 DEF Rested, t
<1> QED
  BY <1>2, <1>3, <1>4 DEF Choice

LEMMA SelectRests == ASSUME Inv, Rested(store), Select PROVE Rested(store')
<1> DEFINE s == Maintain(store)
<1>1. /\ s \in Stores /\ Sound(s, air)
      /\ \/ store' = s
         \/ \E c \in Picks(s) : Choice(s, c) /\ store' = [c.s EXCEPT !.selected = c.r]
  BY SelectIs
<1>2. Rested(s)
  BY MaintainRests DEF Inv
<1> HIDE DEF s
<1> QED
  BY <1>1, <1>2, ChoiceRests

LEMMA AdmitRests == ASSUME Inv, Rested(store), Admit PROVE Rested(store')
<1> DEFINE r == store.selected
           live == Valid(r) /\ r.nonce = store.nonce
<1>1. CASE ~live
  <2>1. store' = store
    BY <1>1 DEF Admit
  <2> QED
    BY <2>1
<1>2. CASE live
  <2> DEFINE t == Admitted(store, r)
  <2>1. store' = t /\ r \in Recs /\ store \in Stores /\ Sound(store, air) /\ Valid(r)
    BY <1>2 DEF Admit, Inv, Stores
  <2> HIDE DEF r
  <2>2. t.selected = NoRec /\ \A i \in Ends : t.states[i] = StateReceipt(store.states[i], i, r)
    BY <2>1, AdmittedIs
  <2> HIDE DEF t
  <2>3. ASSUME NEW i \in Ends PROVE RestShape(t.states[i])
    <3> DEFINE x == store.states[i]
               mine == Valid(x.published) /\ x.published.tok = r.tok
               first == (r.ev = RestOf(i) /\ r.copies = 0) \/ (mine /\ x.published.copies = 0)
               y == StateReceipt(x, i, r)
    <3>1. x \in Slots /\ RestShape(x) /\ x.published \in Recs
      BY <2>1 DEF Rested, Stores, Slots
    <3>2. /\ y.published.tok = x.published.tok /\ y.published.limit = x.published.limit
          /\ y.val = x.val /\ y.candidate = x.candidate /\ y.observed = x.observed
          /\ y.published.val = x.published.val
          /\ y.published = IF mine THEN Counted(x.published) ELSE x.published
          /\ y.sentAge = IF mine THEN 0 ELSE x.sentAge
          /\ y.publishAge = IF first THEN 0 ELSE x.publishAge
      BY <2>1, <3>1, StateReceiptIs DEF SlotAlike
    <3>3. first /\ Valid(x.published) => mine
      BY <2>1 DEF Rested, Offered, r
    <3>4. Counted(x.published).copies >= x.published.copies
      <4>1. /\ Counted(x.published).copies
                 = IF x.published.copies < NoticeCopies + 1 THEN x.published.copies + 1 ELSE x.published.copies
            /\ x.published.copies \in Nat
        BY <3>1, CountedIs DEF Recs
      <4> QED
        BY <4>1
    <3>5. /\ x.publishAge \in Nat /\ x.sentAge \in Nat /\ x.published.copies \in Nat
          /\ x.published.limit \in Nat /\ y.published.copies \in Nat /\ Pace \in Nat
      <4>1. Counted(x.published) \in Recs
        BY <3>1, CountedIs
      <4> QED
        BY <3>1, <3>2, <4>1, IntervalsAre DEF Slots, Recs
    <3> HIDE DEF x, y, mine, first
    <3>6. Valid(y.published) <=> Valid(x.published)
      BY <3>2 DEF Valid
    <3>7. RestCore(y)
      <4>1. y.candidate /\ Valid(y.published) => y.published.copies >= y.published.limit
        BY <3>1, <3>2, <3>4, <3>5, <3>6 DEF RestShape, RestCore
      <4>2. Valid(y.published) => y.publishAge >= Pace \/ y.sentAge <= y.publishAge
        BY <3>1, <3>2, <3>3, <3>5, <3>6 DEF RestShape, RestCore
      <4> QED
        BY <4>1, <4>2 DEF RestCore
    <3>8. RestShape(y)
      BY <3>1, <3>2, <3>6, <3>7 DEF RestShape
    <3> QED
      BY <2>2, <3>8 DEF x, y
  <2>4. Offered(t)
    BY <2>2 DEF Offered, RestOf, NoRec
  <2> QED
    BY <2>1, <2>3, <2>4 DEF Rested
<1> QED
  BY <1>1, <1>2

LEMMA CompleteRests == ASSUME Inv, Rested(store), Complete PROVE Rested(store')
<1>1. CASE Refuse
  <2> DEFINE t == [store EXCEPT !.gate = Refused, !.selected = NoRec]
  <2>1. store' \in {t, store}
    BY <1>1 DEF Refuse
  <2>2. t.states = store.states /\ t.selected = NoRec
    BY DEF Inv, Stores
  <2> HIDE DEF t
  <2>3. Rested(t)
    BY <2>2 DEF Rested, Offered, RestOf, NoRec
  <2> QED
    BY <2>1, <2>3
<1>2. CASE Abandon
  BY <1>2 DEF Abandon
<1> QED
  BY <1>1, <1>2, AdmitRests DEF Complete

\* The wait the thread chooses ends before anything is due.
LEMMA IdleWaits ==
  ASSUME NEW s \in Stores
  PROVE Deadline(s) \in 0..Fallback /\ (s.nonce # 0 => Waits(s, Deadline(s)))
<1> DEFINE w == Deadline(s)
           first == CHOOSE d \in Deadlines(s) : \A e \in Deadlines(s) : d <= e
           wait == Longest(first, s.gate)
<1>1. Deadlines(s) \subseteq Nat /\ Fallback \in Nat /\ s.gate \in Nat
  BY DeadlinesAre, IntervalsAre DEF Stores
<1>2. w = IF s.nonce = 0 \/ Deadlines(s) = {} THEN Fallback ELSE IF wait < Fallback THEN wait ELSE Fallback
  BY DEF Deadline
<1>3. ASSUME Deadlines(s) # {} PROVE first \in Deadlines(s) /\ \A e \in Deadlines(s) : first <= e
  BY <1>1, <1>3, Least
<1> HIDE DEF w, first
<1>4. w \in 0..Fallback /\ (s.nonce # 0 => \A d \in Deadlines(s) : w <= Longest(d, s.gate))
  <2>1. CASE s.nonce = 0 \/ Deadlines(s) = {}
    BY <1>1, <1>2, <2>1
  <2>2. CASE ~(s.nonce = 0 \/ Deadlines(s) = {})
    <3>1. first \in Nat /\ \A e \in Deadlines(s) : first <= e /\ e \in Nat
      BY <1>1, <1>3, <2>2
    <3>2. wait \in Nat /\ \A e \in Deadlines(s) : wait <= Longest(e, s.gate)
      BY <1>1, <3>1 DEF Longest
    <3>3. w \in Nat /\ w <= wait /\ w <= Fallback
      BY <1>1, <1>2, <2>2, <3>2
    <3> HIDE DEF wait
    <3>4. \A d \in Deadlines(s) : w <= Longest(d, s.gate)
      <4> SUFFICES ASSUME NEW d \in Deadlines(s) PROVE w <= Longest(d, s.gate)
        OBVIOUS
      <4>1. Longest(d, s.gate) \in Nat
        BY <1>1, LongestIs
      <4> QED
        BY <3>2, <3>3, <4>1
    <3> QED
      BY <1>1, <3>3, <3>4
  <2> QED
    BY <2>1, <2>2
<1>5. ASSUME s.nonce # 0 PROVE Waits(s, w)
  <2>0. \A d \in Deadlines(s) : w <= Longest(d, s.gate)
    BY <1>4, <1>5
  <2>1. BootWaits(s, w)
    BY <2>0, DeadlinesIs DEF BootWaits
  <2>2. QueueWaits(s, w)
    <3> SUFFICES ASSUME \E j \in Queue : Valid(s.queue[j]) PROVE w <= s.gate
      BY DEF QueueWaits
    <3>1. w <= Longest(0, s.gate)
      BY <2>0, DeadlinesIs
    <3> QED
      BY <1>1, <3>1 DEF Longest
  <2>3. \A i \in Opers : OpWaits(s.ops[i], s.gate, w)
    BY <2>0, DeadlinesIs DEF OpWaits
  <2>4. \A i \in Ends : SlotWaits(s.states[i], s.gate, w)
    BY <2>0, DeadlinesIs DEF SlotWaits
  <2> QED
    BY <2>1, <2>2, <2>3, <2>4 DEF Waits
<1> QED
  BY <1>4, <1>5 DEF w

\* A tick brings the end of the wait no later than anything that gets due.
LEMMA SoonerIs ==
  /\ \A n \in Nat : Sooner(n) \in Nat
  /\ \A m, n \in Nat : m <= n => Sooner(m) <= Sooner(n)
  /\ \A m, n \in Nat : Longest(Sooner(m), Sooner(n)) = Sooner(Longest(m, n))
  /\ \A n, most \in Nat : Left(Older(n, most), most) = Sooner(Left(n, most))
  /\ Sooner(0) = 0
BY DEF Sooner, Longest, Left, Older

LEMMA AgedOpDeadlines ==
  ASSUME NEW o \in Ops, o.id # 0, NEW d \in OpDeadlines(AgedOp(o))
  PROVE \E e \in OpDeadlines(o) : e \in Nat /\ d = Sooner(e)
<1> DEFINE p == AgedOp(o)
           m == IF o.active /\ Hidden(o) THEN Older(o.born, Fresh) ELSE 0
           n == IF o.candidate THEN Older(o.changed, Settle) ELSE 0
           pace == Left(o.progress, Pace)
           settle == Left(o.changed, Settle)
<1>1. /\ o.beat \in Nat /\ o.progress \in Nat /\ o.changed \in Nat /\ o.born \in Nat
      /\ Pace \in Nat /\ Settle \in Nat /\ Fresh \in Nat
      /\ pace \in Nat /\ settle \in Nat
  BY IntervalsAre, LeftIs DEF Ops
<1>2. p = [o EXCEPT !.born = m, !.changed = n, !.beat = Sooner(o.beat),
                    !.progress = Older(o.progress, Pace), !.retry = Older(o.retry, Fresh)]
  BY DEF AgedOp, Ops
<1> HIDE DEF m, n, p
<1>3. /\ p.active = o.active /\ p.candidate = o.candidate /\ p.latest = o.latest
      /\ p.auto = o.auto /\ p.visible = o.visible /\ p.born = m /\ p.changed = n
      /\ p.beat = Sooner(o.beat) /\ p.progress = Older(o.progress, Pace)
  BY <1>2 DEF Ops
<1>4. (Hidden(p) <=> Hidden(o)) /\ (UnsentStep(p) <=> UnsentStep(o))
  BY <1>3 DEF Hidden, UnsentStep
<1>5. \A e \in OpDeadlines(o) : e \in Nat
  BY OpDeadlinesAre
<1>6. CASE o.active /\ Hidden(o)
  <2>1. d = Left(Older(o.born, Fresh), Fresh)
    BY <1>3, <1>4, <1>6, OpDeadlinesIs DEF m, p
  <2>2. d = Sooner(Left(o.born, Fresh))
    BY <1>1, <2>1, SoonerIs
  <2>3. Left(o.born, Fresh) \in OpDeadlines(o)
    BY <1>6, OpDeadlinesIs
  <2> QED
    BY <1>5, <2>2, <2>3
<1>7. CASE ~(o.active /\ Hidden(o))
  <2>1. Left(p.progress, Pace) = Sooner(pace)
    BY <1>1, <1>3, SoonerIs
  <2>2. \/ /\ o.active /\ o.visible /\ (Valid(o.latest) \/ o.candidate)
           /\ d = IF o.candidate THEN Longest(Sooner(o.beat), Sooner(pace)) ELSE Sooner(o.beat)
        \/ o.candidate /\ d = Longest(Left(p.changed, Settle), Sooner(pace))
        \/ UnsentStep(o) /\ d = 0
    <3>1. d \in OpDeadlines(p) /\ ~(p.active /\ Hidden(p))
      BY <1>3, <1>4, <1>7 DEF p
    <3> HIDE DEF pace
    <3> QED
      BY <1>3, <1>4, <2>1, <3>1, OpDeadlinesIs
  <2>3. CASE /\ o.active /\ o.visible /\ (Valid(o.latest) \/ o.candidate)
             /\ d = IF o.candidate THEN Longest(Sooner(o.beat), Sooner(pace)) ELSE Sooner(o.beat)
    <3> DEFINE e == IF o.candidate THEN Longest(o.beat, pace) ELSE o.beat
    <3>1. d = Sooner(e)
      BY <1>1, <2>3, SoonerIs
    <3>2. e \in OpDeadlines(o)
      BY <1>7, <2>3, OpDeadlinesIs
    <3> QED
      BY <1>5, <3>1, <3>2
  <2>4. CASE o.candidate /\ d = Longest(Left(p.changed, Settle), Sooner(pace))
    <3>1. Left(p.changed, Settle) = Sooner(settle)
      BY <1>1, <1>3, <2>4, SoonerIs DEF n
    <3>2. d = Sooner(Longest(settle, pace))
      BY <1>1, <2>4, <3>1, SoonerIs
    <3>3. Longest(settle, pace) \in OpDeadlines(o)
      BY <1>7, <2>4, OpDeadlinesIs
    <3> QED
      BY <1>5, <3>2, <3>3
  <2>5. CASE UnsentStep(o) /\ d = 0
    <3>1. d \in OpDeadlines(o) /\ d = Sooner(d)
      BY <1>7, <2>5, OpDeadlinesIs, SoonerIs
    <3> QED
      BY <1>5, <3>1
  <2> QED
    BY <2>2, <2>3, <2>4, <2>5
<1> QED
  BY <1>6, <1>7

LEMMA AgedSlotDeadlines ==
  ASSUME NEW x \in Slots, NEW d \in SlotDeadlines(AgedSlot(x))
  PROVE \E e \in SlotDeadlines(x) : e \in Nat /\ d = Sooner(e)
<1> DEFINE y == AgedSlot(x)
<1>1. /\ y.candidate = x.candidate /\ y.observed = x.observed
      /\ y.published.tok = x.published.tok /\ y.published.limit = x.published.limit
      /\ y.published.copies = x.published.copies
      /\ y.publishAge = Older(x.publishAge, Pace) /\ y.sentAge = Older(x.sentAge, StateBeat)
      /\ x.observed => y.seen = Older(x.seen, Fresh)
  BY AgedSlotIs DEF SlotAlike
<1>2. /\ x.seen \in Nat /\ x.publishAge \in Nat /\ x.sentAge \in Nat
      /\ Fresh \in Nat /\ Pace \in Nat /\ StateBeat \in Nat
  BY IntervalsAre DEF Slots
<1>3. d \in SlotDeadlines(y) /\ \A e \in SlotDeadlines(x) : e \in Nat
  BY SlotDeadlinesAre
<1> HIDE DEF y
<1>4. Valid(y.published) <=> Valid(x.published)
  BY <1>1 DEF Valid
<1>5. \/ x.observed /\ d = Left(Older(x.seen, Fresh), Fresh)
      \/ x.candidate /\ d = Left(Older(x.publishAge, Pace), Pace)
      \/ /\ ~x.candidate /\ Valid(x.published)
         /\ \/ x.published.copies < x.published.limit /\ d = 0
            \/ /\ ~(x.published.copies < x.published.limit) /\ x.observed
               /\ d = Left(Older(x.sentAge, StateBeat), StateBeat)
  BY <1>1, <1>3, <1>4, SlotDeadlinesIs
<1>6. \/ x.observed /\ d = Sooner(Left(x.seen, Fresh))
      \/ x.candidate /\ d = Sooner(Left(x.publishAge, Pace))
      \/ /\ ~x.candidate /\ Valid(x.published)
         /\ \/ x.published.copies < x.published.limit /\ d = Sooner(0)
            \/ ~(x.published.copies < x.published.limit) /\ x.observed /\ d = Sooner(Left(x.sentAge, StateBeat))
  BY <1>2, <1>5, SoonerIs
<1> QED
  BY <1>3, <1>6, SlotDeadlinesIs

LEMMA AgedIs ==
  ASSUME NEW s \in Stores
  PROVE LET t == Aged(s)
        IN  /\ t.gate = Sooner(s.gate) /\ t.startup.in = Sooner(s.startup.in)
            /\ t.startup.pending = s.startup.pending /\ t.startup.tok = s.startup.tok
            /\ t.notify = s.notify /\ t.nonce = s.nonce /\ t.selected = s.selected
            /\ \A j \in Queue : Valid(t.queue[j]) <=> Valid(s.queue[j])
            /\ \A i \in Opers : t.ops[i] = AgedOp(s.ops[i])
            /\ \A i \in Ends : t.states[i] = AgedSlot(s.states[i])
<1> DEFINE q == [j \in Queue |-> AgedRecord(s.queue[j])]
           o == [i \in Opers |-> AgedOp(s.ops[i])]
           x == [i \in Ends |-> AgedSlot(s.states[i])]
           b == [s.startup EXCEPT !.in = Sooner(s.startup.in)]
           g == Sooner(s.gate)
           t == [s EXCEPT !.gate = g, !.startup = b, !.queue = q, !.ops = o, !.states = x]
<1>1. Aged(s) = t
  BY DEF Aged, Queue, Opers, Ends, Stores, Startups
<1>2. \A j \in Queue : Valid(q[j]) <=> Valid(s.queue[j])
  BY DEF AgedRecord, Valid, Stores, Recs
<1>3. b.in = Sooner(s.startup.in) /\ b.pending = s.startup.pending /\ b.tok = s.startup.tok
  BY DEF Stores, Startups
<1>4. (\A i \in Opers : o[i] = AgedOp(s.ops[i])) /\ \A i \in Ends : x[i] = AgedSlot(s.states[i])
  OBVIOUS
<1> HIDE DEF q, o, x, b, g
<1>5. /\ t.gate = g /\ t.startup = b /\ t.queue = q /\ t.ops = o /\ t.states = x
      /\ t.notify = s.notify /\ t.nonce = s.nonce /\ t.selected = s.selected
  BY DEF Stores
<1> HIDE DEF t
<1> QED
  BY <1>1, <1>2, <1>3, <1>4, <1>5 DEF g

LEMMA AgedWaits ==
  ASSUME NEW s \in Stores, NEW w \in Nat, Waits(s, w)
  PROVE Waits(Aged(s), Sooner(w))
<1> DEFINE t == Aged(s)
           v == Sooner(w)
<1>1. /\ t.gate = Sooner(s.gate) /\ t.startup.in = Sooner(s.startup.in)
      /\ t.startup.pending = s.startup.pending /\ t.startup.tok = s.startup.tok
      /\ t.notify = s.notify
      /\ \A j \in Queue : Valid(t.queue[j]) <=> Valid(s.queue[j])
      /\ \A i \in Opers : t.ops[i] = AgedOp(s.ops[i])
      /\ \A i \in Ends : t.states[i] = AgedSlot(s.states[i])
  BY AgedIs
<1>2. /\ s.gate \in Nat /\ s.startup.in \in Nat /\ s.ops \in [Opers -> Ops] /\ s.states \in [Ends -> Slots]
  BY DEF Stores, Startups
<1>3. ASSUME NEW d \in Nat, w <= Longest(d, s.gate) PROVE v <= Longest(Sooner(d), Sooner(s.gate))
  <2>1. Longest(d, s.gate) \in Nat
    BY <1>2, LongestIs
  <2>2. Sooner(w) <= Sooner(Longest(d, s.gate))
    BY <1>3, <2>1, SoonerIs
  <2> QED
    BY <1>2, <2>2, SoonerIs
<1> HIDE DEF t, v
<1>4. BootWaits(t, v)
  BY <1>1, <1>2, <1>3 DEF Waits, BootWaits
<1>5. QueueWaits(t, v)
  BY <1>1, <1>2, SoonerIs DEF Waits, QueueWaits, v
<1>6. ASSUME NEW i \in Opers PROVE OpWaits(t.ops[i], t.gate, v)
  <2> DEFINE o == s.ops[i]
  <2>1. o \in Ops /\ OpWaits(o, s.gate, w) /\ t.ops[i] = AgedOp(o)
    BY <1>1, <1>2 DEF Waits
  <2>2. AgedOp(o).id = o.id
    BY <2>1, AgedOpIs DEF OpAlike
  <2> HIDE DEF o
  <2> SUFFICES ASSUME o.id # 0, NEW d \in OpDeadlines(AgedOp(o)) PROVE v <= Longest(d, t.gate)
    BY <2>1, <2>2 DEF OpWaits
  <2>3. PICK e \in OpDeadlines(o) : e \in Nat /\ d = Sooner(e)
    BY <2>1, AgedOpDeadlines
  <2> QED
    BY <1>1, <1>3, <2>1, <2>3 DEF OpWaits
<1>7. ASSUME NEW i \in Ends PROVE SlotWaits(t.states[i], t.gate, v)
  <2> DEFINE x == s.states[i]
  <2>1. x \in Slots /\ SlotWaits(x, s.gate, w) /\ t.states[i] = AgedSlot(x)
    BY <1>1, <1>2 DEF Waits
  <2> HIDE DEF x
  <2> SUFFICES ASSUME NEW d \in SlotDeadlines(AgedSlot(x)) PROVE v <= Longest(d, t.gate)
    BY <2>1 DEF SlotWaits
  <2>2. PICK e \in SlotDeadlines(x) : e \in Nat /\ d = Sooner(e)
    BY <2>1, AgedSlotDeadlines
  <2> QED
    BY <1>1, <1>3, <2>1, <2>2 DEF SlotWaits
<1>8. Waits(t, v)
  BY <1>4, <1>5, <1>6, <1>7 DEF Waits
<1> QED
  BY <1>8 DEF t, v

LEMMA AgedRests ==
  ASSUME NEW s \in Stores, Rested(s)
  PROVE Rested(Aged(s))
<1> DEFINE t == Aged(s)
<1>1. t.selected = s.selected /\ \A i \in Ends : t.states[i] = AgedSlot(s.states[i])
  BY AgedIs
<1> HIDE DEF t
<1>2. ASSUME NEW i \in Ends
      PROVE RestShape(t.states[i]) /\ t.states[i].published.tok = s.states[i].published.tok
  <2> DEFINE x == s.states[i]
             y == AgedSlot(x)
  <2>1. x \in Slots /\ RestShape(x)
    BY DEF Stores, Rested
  <2>2. /\ y.val = x.val /\ y.candidate = x.candidate /\ y.observed = x.observed
        /\ y.published.val = x.published.val /\ y.published.copies = x.published.copies
        /\ y.published.tok = x.published.tok /\ y.published.limit = x.published.limit
        /\ y.publishAge = Older(x.publishAge, Pace) /\ y.sentAge = Older(x.sentAge, StateBeat)
    BY <2>1, AgedSlotIs DEF SlotAlike
  <2>3. /\ x.publishAge \in Nat /\ x.sentAge \in Nat /\ Pace \in Nat /\ StateBeat \in Nat
        /\ Pace <= StateBeat
    BY <2>1, IntervalsAre, PacesAre DEF Slots
  <2> HIDE DEF x, y
  <2>4. Valid(y.published) <=> Valid(x.published)
    BY <2>2 DEF Valid
  <2>5. Valid(y.published) => y.publishAge >= Pace \/ y.sentAge <= y.publishAge
    BY <2>1, <2>2, <2>3, <2>4 DEF RestShape, RestCore, Older
  <2>6. RestShape(y)
    BY <2>1, <2>2, <2>4, <2>5 DEF RestShape, RestCore
  <2> QED
    BY <1>1, <2>2, <2>6 DEF x, y
<1>3. Offered(t)
  BY <1>1, <1>2 DEF Rested, Offered, Valid
<1> QED
  BY <1>2, <1>3 DEF Rested, t

LEMMA NotifyTime == ASSUME TimeInv, Notify PROVE TimeInv'
<1> DEFINE t == [store EXCEPT !.notify = FALSE]
<1>1. /\ store' = t /\ owed /\ sem' = (sem \/ store.notify) /\ pc' = pc /\ wakeIn' = wakeIn
      /\ store \in Stores
  BY DEF Notify, TimeInv, Inv
<1>2. /\ t.queue = store.queue /\ t.ops = store.ops /\ t.states = store.states /\ t.startup = store.startup
      /\ t.nonce = store.nonce /\ t.gate = store.gate /\ t.selected = store.selected /\ ~t.notify
  BY <1>1 DEF Stores
<1> HIDE DEF t
<1>3. Rested(t)
  BY <1>2 DEF TimeInv, Rested, Offered
<1>4. Asleep' => Asleep /\ ~store.notify
  BY <1>1, <1>2 DEF Asleep
<1>5. ASSUME Asleep' PROVE Waits(t, wakeIn)
  BY <1>2, <1>4, <1>5 DEF TimeInv, Waits, BootWaits, QueueWaits
<1>6. Inv'
  BY NotifyInv DEF TimeInv
<1> QED
  BY <1>1, <1>3, <1>5, <1>6 DEF TimeInv

\* A store of a new identity has nothing to send but a boot observation, and
\* that gives notice.
LEMMA SessionTime ==
  ASSUME TimeInv
  PROVE /\ SessionChange => TimeInv'
        /\ \A ok \in BOOLEAN : SessionFresh(ok) => TimeInv'
<1>0. store \in Stores /\ Rested(store) /\ wakeIn \in 0..Fallback /\ Inv
  BY DEF TimeInv, Inv
<1>1. SessionChange => TimeInv'
  <2> DEFINE t == [store EXCEPT !.nonce = 0]
  <2> SUFFICES ASSUME SessionChange PROVE TimeInv'
    OBVIOUS
  <2>1. store' = t /\ wakeIn' = wakeIn /\ Inv'
    BY <1>0, SessionInv DEF SessionChange
  <2>2. t.states = store.states /\ t.selected = store.selected /\ t.nonce = 0
    BY <1>0 DEF Stores
  <2> HIDE DEF t
  <2>3. Rested(t) /\ ~Asleep'
    BY <1>0, <2>1, <2>2 DEF Rested, Offered, Asleep
  <2> QED
    BY <1>0, <2>1, <2>3 DEF TimeInv
<1>2. ASSUME NEW ok \in BOOLEAN, SessionFresh(ok) PROVE TimeInv'
  <2> DEFINE t == Renewed(store, ok)
  <2>1. store' = t /\ wakeIn' = wakeIn /\ Inv'
    BY <1>0, <1>2, SessionInv DEF SessionFresh, Renewed
  <2>2. /\ t.queue = NoSession.queue /\ t.ops = NoSession.ops /\ t.states = NoSession.states
        /\ t.startup.pending = store.startup.pending
        /\ t.notify = \E i \in {0, 1} : store.startup.pending[i]
    BY <1>0 DEF Renewed, Stores, Startups
  <2> HIDE DEF t
  <2>3. /\ \A j \in Queue : ~Valid(t.queue[j])
        /\ \A i \in Opers : t.ops[i].id = 0
        /\ \A i \in Ends : t.states[i] = NoSlot
    BY <2>2, BlankIs DEF NoSession, Ends
  <2>4. NoSlot.published = NoRec /\ ~NoSlot.candidate /\ ~NoSlot.observed
    BY DEF NoSlot
  <2>5. Rested(t)
    BY <2>3, <2>4, NoRecIs DEF Rested, Offered, RestShape, RestCore
  <2>6. SlotDeadlines(NoSlot) = {}
    BY <2>4, NoRecIs DEF SlotDeadlines
  <2>7. Waits(t, wakeIn)
    <3>1. BootWaits(t, wakeIn)
      BY <2>2 DEF BootWaits, Ends
    <3>2. QueueWaits(t, wakeIn) /\ \A i \in Opers : OpWaits(t.ops[i], t.gate, wakeIn)
      BY <2>3 DEF QueueWaits, OpWaits
    <3>3. \A i \in Ends : SlotWaits(t.states[i], t.gate, wakeIn)
      BY <2>3, <2>6 DEF SlotWaits
    <3> QED
      BY <3>1, <3>2, <3>3 DEF Waits
  <2> QED
    BY <1>0, <2>1, <2>5, <2>7 DEF TimeInv
<1> QED
  BY <1>1, <1>2

LEMMA IdleTime == ASSUME TimeInv, Idle PROVE TimeInv'
<1> DEFINE s == AfterMaintain(store)
<1>1. s \in Stores /\ Rested(s)
  BY MaintainSound, MaintainRests DEF AfterMaintain, TimeInv, Inv
<1>2. store' = s /\ wakeIn' = Deadline(s)
  BY DEF Idle
<1> HIDE DEF s
<1>3. Deadline(s) \in 0..Fallback /\ (s.nonce # 0 => Waits(s, Deadline(s)))
  BY <1>1, IdleWaits
<1>4. Inv'
  BY IdleInv DEF TimeInv
<1>5. Asleep' => Waits(s, Deadline(s))
  BY <1>2, <1>3 DEF Asleep
<1> QED
  BY <1>1, <1>2, <1>3, <1>4, <1>5 DEF TimeInv

LEMMA TickTime == ASSUME TimeInv, Tick PROVE TimeInv'
<1> DEFINE t == Aged(store)
<1>0. store \in Stores /\ Rested(store) /\ Sound(store, air) /\ wakeIn \in 0..Fallback
      /\ Fallback \in Nat /\ wakeIn \in Nat
  BY IntervalsAre DEF TimeInv, Inv
<1>1. /\ store' = t /\ wakeIn' = Sooner(wakeIn) /\ pc' = pc /\ sem' = sem /\ owed' = owed /\ air' = air
  BY DEF Tick
<1>2. t.notify = store.notify /\ t.nonce = store.nonce /\ Rested(t) /\ t \in Stores /\ Sound(t, air)
  BY <1>0, AgedIs, AgedRests, AgedSound
<1>3. Waits(store, wakeIn) => Waits(t, Sooner(wakeIn))
  BY <1>0, AgedWaits
<1> HIDE DEF t
<1>4. Asleep' => Asleep
  BY <1>1, <1>2 DEF Asleep
<1>5. Inv'
  BY <1>1, <1>2 DEF TimeInv, Inv
<1>6. wakeIn' \in 0..Fallback
  BY <1>0, <1>1 DEF Sooner
<1>7. Asleep' => Waits(t, wakeIn')
  BY <1>1, <1>3, <1>4 DEF TimeInv
<1> QED
  BY <1>1, <1>2, <1>5, <1>6, <1>7 DEF TimeInv

\* A step that does not leave the thread asleep.
LEMMA AwakeTime ==
  ASSUME TimeInv, Inv', Rested(store'), wakeIn' \in 0..Fallback, pc' # "asleep"
  PROVE TimeInv'
BY DEF TimeInv, Asleep

LEMMA InitTime == Init => TimeInv
<1> SUFFICES ASSUME Init PROVE TimeInv
  OBVIOUS
<1>1. Inv /\ pc = "run" /\ wakeIn = 0 /\ Fallback \in Nat
  BY InitInv, IntervalsAre DEF Init
<1>2. store.states = NoSession.states
  BY DEF Init
<1>3. \A i \in Ends : store.states[i] = NoSlot
  BY <1>2 DEF NoSession, Ends
<1>4. NoSlot.published = NoRec /\ ~NoSlot.candidate /\ ~NoSlot.observed
  BY DEF NoSlot
<1>5. Rested(store)
  BY <1>3, <1>4, NoRecIs DEF Rested, Offered, RestShape, RestCore
<1> QED
  BY <1>1, <1>5 DEF TimeInv, Asleep

LEMMA NextTime == TimeInv /\ [Next]_vars => TimeInv'
<1> SUFFICES ASSUME TimeInv, [Next]_vars PROVE TimeInv'
  OBVIOUS
<1>0. Inv /\ Rested(store) /\ wakeIn \in 0..Fallback /\ Inv' /\ Fallback \in Nat
  BY NextInv, IntervalsAre DEF TimeInv
<1>1. CASE Produce
  BY <1>1, ProduceTime
<1>2. CASE Capture
  <2>1. UNCHANGED <<store, pc, wakeIn, sem, owed, air>>
    BY <1>2 DEF Capture
  <2> QED
    BY <2>1 DEF TimeInv, Inv, Asleep
<1>3. CASE Notify
  BY <1>3, NotifyTime
<1>4. CASE SessionChange \/ \E ok \in BOOLEAN : SessionFresh(ok)
  BY <1>4, SessionTime
<1>5. CASE Select
  <2>1. Rested(store')
    BY <1>0, <1>5, SelectRests
  <2>2. pc' \in {"offer", "idle"} /\ wakeIn' = wakeIn
    BY <1>5 DEF Select
  <2> QED
    BY <1>0, <2>1, <2>2, AwakeTime
<1>6. CASE Complete
  <2>1. Rested(store')
    BY <1>0, <1>6, CompleteRests
  <2>2. pc' = "run" /\ wakeIn' = wakeIn
    BY <1>6 DEF Complete, Admit, Refuse, Abandon
  <2> QED
    BY <1>0, <2>1, <2>2, AwakeTime
<1>7. CASE Idle
  BY <1>7, IdleTime
<1>8. CASE Wake
  <2>1. store' = store /\ pc' = "run" /\ wakeIn' = 0
    BY <1>8 DEF Wake
  <2> QED
    BY <1>0, <2>1, AwakeTime
<1>9. CASE Tick
  BY <1>9, TickTime
<1>10. CASE UNCHANGED vars
  BY <1>10 DEF vars, TimeInv, Inv, Asleep
<1> QED
  BY <1>1, <1>2, <1>3, <1>4, <1>5, <1>6, <1>7, <1>8, <1>9, <1>10 DEF Next, Connection

LEMMA AlwaysTime == Spec => []TimeInv
BY InitTime, NextTime, PTL DEF Spec

\* Nothing is due or to be maintained.
Nothing(s) ==
    /\ \A j \in Queue : ~Valid(s.queue[j])
    /\ \A i \in Ends : ~StartupDue(s, i)
    /\ \A i \in Opers : s.ops[i].id # 0 => 0 \notin OpDeadlines(s.ops[i])
    /\ \A i \in Ends : 0 \notin SlotDeadlines(s.states[i])

LEMMA QuietPass ==
  ASSUME NEW b \in Stores, \A i \in Opers : ~DueHidden(b.ops[i]), NEW g, Pass(b, g, OpSize)
  PROVE g[OpSize] = b
<1> DEFINE T == {k \in 0..OpSize : g[k] = b}
<1>0. OpSize \in Nat
  BY Sizes
<1>1. 0 \in T
  BY <1>0 DEF Pass
<1>2. ASSUME NEW k \in 0..(OpSize - 1), k \in T PROVE k + 1 \in T
  <2>1. k + 1 \in 0..OpSize /\ k + 1 \in Opers /\ (k + 1) - 1 = k /\ k + 1 # 0
    BY <1>0 DEF Opers
  <2>2. g[k+1] = Reveal(b, k+1)
    BY <1>2, <2>1 DEF Pass
  <2>3. Reveal(b, k+1) = b
    BY <2>1 DEF Reveal, DueHidden
  <2> QED
    BY <2>1, <2>2, <2>3
<1>3. 0..OpSize \subseteq T
  <2> HIDE DEF T
  <2> QED
    BY <1>0, <1>1, <1>2, Induction
<1> QED
  BY <1>3, <1>0

LEMMA NothingMaintained ==
  ASSUME NEW s \in Stores, NEW a, Sound(s, a), Rested(s), Nothing(s)
  PROVE Maintain(s) = s
<1>0. 0 \in Ends /\ 1 \in Ends
  BY DEF Ends
<1>1. DropExpired(s) = s
  <2> DEFINE q == [i \in 1..QueueSize |->
                     IF Valid(s.queue[i]) /\ ~StartupPending(s, s.queue[i]) /\ s.queue[i].age >= TTL
                     THEN NoRec ELSE s.queue[i]]
  <2>1. q = s.queue
    BY DEF Nothing, Stores, Queue
  <2>2. DropExpired(s) = [s EXCEPT !.queue = q]
    BY DEF DropExpired
  <2> HIDE DEF q
  <2> QED
    BY <2>1, <2>2 DEF Stores
<1>2. Announce(s, 0) = s /\ Announce(s, 1) = s
  BY <1>0 DEF Announce, Nothing
<1>3. Begun(s) = s
  BY <1>1, <1>2 DEF Begun
<1>4. ASSUME NEW i \in Opers PROVE ~DueHidden(s.ops[i])
  <2> SUFFICES ASSUME DueHidden(s.ops[i]) PROVE FALSE
    OBVIOUS
  <2>1. s.ops[i] \in Ops /\ s.ops[i].id # 0
    BY DEF DueHidden, Sound, Core, OpsShape, OpShape, Stores
  <2>2. s.ops[i].born \in Nat /\ Fresh \in Nat
    BY <2>1, IntervalsAre DEF Ops
  <2>3. Left(s.ops[i].born, Fresh) = 0
    BY <2>2, LeftIs DEF DueHidden
  <2>4. 0 \in OpDeadlines(s.ops[i])
    BY <2>3, OpDeadlinesIs DEF DueHidden
  <2> QED
    BY <2>1, <2>4 DEF Nothing
<1>5. ASSUME NEW i \in Ends PROVE AgeState(s, i) = s
  <2> DEFINE x == s.states[i]
             p == Lapsed(s, i).states[i].published
  <2>1. /\ x \in Slots /\ x.seen \in Nat /\ Fresh \in Nat /\ RestShape(x) /\ 0 \notin SlotDeadlines(x)
        /\ x.published.copies \in Nat /\ x.published.limit \in Nat
    BY IntervalsAre DEF Stores, Slots, Recs, Rested, Nothing
  <2>2. ~Stale(x)
    BY <2>1, LeftIs, SlotDeadlinesIs DEF Stale
  <2>3. ~Expired(x.published)
    BY <2>1, SlotDeadlinesIs DEF Expired, RestShape, RestCore
  <2>4. Lapsed(s, i) = s
    BY <2>2 DEF Lapsed
  <2>5. AgeState(s, i) = IF Expired(p) THEN [Lapsed(s, i) EXCEPT !.states[i].published.copies = p.limit]
                         ELSE Lapsed(s, i)
    BY DEF AgeState, Lapsed, Expired, Stale
  <2> QED
    BY <2>3, <2>4, <2>5
<1>6. PICK g : Pass(s, g, OpSize) /\ Maintain(s) = AgeState(AgeState(g[OpSize], 0), 1)
  BY <1>3, MaintainPasses
<1>7. g[OpSize] = s
  BY <1>4, <1>6, QuietPass
<1> QED
  BY <1>0, <1>5, <1>6, <1>7

\* While the wait lasts, the maintained store has nothing to send.
LEMMA WaitsIsNothing ==
  ASSUME NEW s \in Stores, NEW a, Sound(s, a), NEW w \in Nat, w # 0, Waits(s, w), s.gate = 0,
         ~(s.notify /\ \E i \in Ends : StartupDue(s, i))
  PROVE Nothing(s)
<1>1. \A d \in Nat : w <= Longest(d, s.gate) => d # 0
  BY DEF Longest
<1>2. \A j \in Queue : ~Valid(s.queue[j])
  BY DEF Waits, QueueWaits
<1>3. ASSUME NEW i \in Ends, StartupDue(s, i) PROVE FALSE
  <2>1. ~s.notify /\ s.startup.in = 0 /\ s.startup.pending[i] /\ s.startup.tok[i] = 0
    BY <1>3 DEF StartupDue
  <2>2. w <= Longest(0, s.gate)
    BY <2>1 DEF Waits, BootWaits
  <2> QED
    BY <1>1, <2>2
<1>4. \A i \in Opers : s.ops[i].id # 0 => 0 \notin OpDeadlines(s.ops[i])
  BY <1>1 DEF Waits, OpWaits
<1>5. \A i \in Ends : 0 \notin SlotDeadlines(s.states[i])
  BY <1>1 DEF Waits, SlotWaits
<1> QED
  BY <1>2, <1>3, <1>4, <1>5 DEF Nothing

-----------------------------------------------------------------------------
(* What follows from it *)

LEMMA QueuedIs ==
  ASSUME NEW s
  PROVE \A r : r \in Queued(s) <=> \E j \in Queue : r = s.queue[j] /\ Valid(r)
BY DEF Queued, Queue

LEMMA AtMostOne ==
  ASSUME NEW S, \A m, n \in S : m = n
  PROVE Cardinality(S) <= 1
<1>1. CASE S = {}
  BY <1>1, FS_EmptySet
<1>2. CASE S # {}
  <2>1. PICK m \in S : TRUE
    BY <1>2
  <2>2. S = {m}
    BY <2>1
  <2>3. Cardinality({m}) = 1
    BY FS_Singleton
  <2> QED
    BY <2>2, <2>3
<1> QED
  BY <1>1, <1>2

\* A boot observation, however often the identity changes under it and
\* whatever the queue loses meanwhile, is announced to the receiver under one
\* identity at most, stays queued while it is pending under this one, and is
\* never announced by a record younger than a shutdown or reboot intent
\* (tracker_events_boot, startup_pending, choose and its completion).
THEOREM StartupAnnouncedOnce == Spec => []StartupOnce
<1>1. Inv => StartupOnce
  <2> SUFFICES ASSUME Inv PROVE StartupOnce
    OBVIOUS
  <2>0. 0 \in Ends /\ 1 \in Ends /\ Ends = {0, 1}
    BY DEF Ends
  <2>1. Boots(store) /\ Heard(store, air)
    BY DEF Inv, Sound, Core
  <2>2. ASSUME NEW i \in Ends, store.startup.pending[i], store.startup.tok[i] # 0
        PROVE \E r \in Queued(store) : r.tok = store.startup.tok[i]
    <3>1. PICK j \in Queue : store.queue[j].tok = store.startup.tok[i]
      BY <2>1, <2>2 DEF Boots
    <3> QED
      BY <3>1, <2>2, QueuedIs DEF Valid
  <2>3. \A i \in Ends : Cardinality(air.boots[i]) <= 1
    BY <2>1, AtMostOne DEF Heard
  <2>4. ASSUME air.intent # 0, NEW r \in Queued(store), r.ev \in {"BOOT", "WATCHDOG"}
        PROVE r.tok < air.intent
    <3>1. PICK j \in Queue : r = store.queue[j]
      BY QueuedIs
    <3>2. Announces(store, air, r)
      BY <2>1, <3>1 DEF Heard
    <3> QED
      BY <3>2, <2>0, <2>4 DEF Announces, BootOf
  <2> QED
    BY <2>0, <2>2, <2>3, <2>4 DEF StartupOnce
<1> QED
  BY <1>1, AlwaysInv, PTL

\* Once the receiver has the END of a calibration operation, no younger record
\* of it is queued, kept for a heartbeat or selected, whichever producer or
\* repetition raced with the end; a storage error alone may follow
\* (cal_event_end, tracker_events_complete).
THEOREM EndIsLast == Spec => []EndIsFinal
<1>1. Inv => EndIsFinal
  <2> SUFFICES ASSUME Inv, NEW e \in air.ended,
                      NEW r \in Queued(store) \cup {store.selected} \cup {store.ops[i].latest : i \in 1..OpSize},
                      r.op = e[1], r.ev # "STORAGE"
               PROVE r.tok <= e[2]
    BY DEF EndIsFinal
  <2>1. Closes(store, e) /\ OpsShape(store)
    BY DEF Inv, Sound, Core, Closed, Closers
  <2>2. CASE r \in Queued(store)
    BY <2>1, <2>2, QueuedIs DEF Closes
  <2>3. CASE r = store.selected
    BY <2>1, <2>3 DEF Closes
  <2>4. ASSUME NEW i \in Opers, r = store.ops[i].latest PROVE r.tok <= e[2]
    <3>1. CASE Valid(r)
      <4>1. store.ops[i].active /\ r.op = store.ops[i].id
        BY <2>1, <2>4, <3>1 DEF OpsShape, OpShape
      <4> QED
        BY <4>1, <2>1 DEF Closes
    <3>2. CASE ~Valid(r)
      <4>1. e[2] \in Nat
        BY DEF Inv, Airs
      <4> QED
        BY <4>1, <3>2 DEF Valid
    <3> QED
      BY <3>1, <3>2
  <2> QED
    BY <2>2, <2>3, <2>4 DEF Opers
<1> QED
  BY <1>1, AlwaysInv, PTL

\* Once wake-on-motion was called off, the receiver is never sent an older
\* warning of it: the cancellation takes every queued warning with it under
\* the lock, and no repetition, heartbeat or maintenance brings one back
\* (tracker_event_notice, choose).
THEOREM CancelledIsSilent == Spec => WarningRetracted
<1>1. Spec => [][Retracts]_vars
  BY AlwaysWarned, PTL
<1> QED
  BY <1>1 DEF WarningRetracted, Retracts

\* A queued power notice is lost to nothing but its last admission, its age,
\* its cancellation, a later power notice that needs its slot or a change of
\* identity, whatever telemetry the queue is offered (enqueue, victim,
\* drop_expired, tracker_events_complete).
THEOREM PowerOverTelemetry == Spec => PowerNoticesStay
<1>1. Spec => [][Stays]_vars
  BY AlwaysWarned, PTL
<1> QED
  BY <1>1 DEF PowerNoticesStay, Stays

\* The deadline and the selection agree for every content of the queue and
\* every age: with the gate open, the time to the next deadline is zero
\* exactly when choose would find a record, so the connection thread neither
\* spins on a deadline it cannot serve nor sleeps on work it could send.
THEOREM DueExactlyWhenWork == Spec => []DeadlineIsWork
<1>1. Inv => DeadlineIsWork
  BY MaintainSound, DueIsWork DEF Inv, DeadlineIsWork
<1> QED
  BY <1>1, AlwaysInv, PTL

\* The connection thread never sleeps on work it could send: what a producer
\* adds to a sleeping thread's store either wakes it or is due no earlier than
\* the wait ends, and what time makes due ends the wait, for every age of every
\* record, operation and rest state and all intervals in the order the code has
\* them (tracker_events_deadline, tracker_events_notify, connection_idle_wait).
THEOREM NeverOversleeps == Spec => []NoOversleep
<1>1. TimeInv => NoOversleep
  <2> DEFINE s == Maintain(store)
  <2> SUFFICES ASSUME TimeInv, pc = "asleep", ~sem, ~(owed /\ store.notify),
                      ~(store.notify /\ \E i \in {0, 1} : StartupDue(store, i)),
                      s.nonce # 0, s.gate = 0, Picks(s) # {}, wakeIn # 0
               PROVE FALSE
    BY DEF NoOversleep
  <2>1. store \in Stores /\ Sound(store, air) /\ Rested(store) /\ wakeIn \in Nat
    BY IntervalsAre DEF TimeInv, Inv
  <2>2. /\ s \in Stores /\ Sound(s, air) /\ Current(s)
        /\ s.nonce = store.nonce /\ s.gate = store.gate
    BY <2>1, MaintainSound
  <2>3. 0 \in Deadlines(s)
    BY <2>2, DueIsWork
  <2>4. Waits(store, wakeIn)
    BY <2>2 DEF TimeInv, Asleep
  <2>5. Nothing(store)
    BY <2>1, <2>2, <2>4, WaitsIsNothing DEF Ends
  <2>6. s = store
    BY <2>1, <2>5, NothingMaintained
  <2>7. \A i \in Ends : store.startup.pending[i] => store.startup.scheduled
    BY <2>1 DEF Sound, Core, Boots
  <2> HIDE DEF s
  <2>8. 0 = store.startup.in /\ \E i \in Ends : store.startup.pending[i] /\ store.startup.tok[i] = 0
    BY <2>3, <2>5, <2>6, DeadlinesIs DEF Nothing
  <2> QED
    BY <2>2, <2>5, <2>6, <2>7, <2>8 DEF Nothing, StartupDue
<1> QED
  BY <1>1, AlwaysTime, PTL
=============================================================================
