-------------------------- MODULE WarmStoreProofs --------------------------
(***************************************************************************)
(* Proofs about the warm store, for any number of callers, ids, values and *)
(* failures, and any size of the dirty table.                              *)
(***************************************************************************)
EXTENDS WarmStore, SequenceTheorems, TLAPS

----------------------------------------------------------------------------
\* The reboot counter.

\* While the counter is kept in flash, flash agrees with what this boot knows:
\* without it a read after a write could bring an older value back.
CounterInv ==
    /\ counter \in [ram : Nat, nvs : Nat, trusted : BOOLEAN, ramOnly : BOOLEAN, known : Int]
    /\ CounterReadsBack
    /\ counter.known # -1 /\ InFlash => counter.nvs = counter.known

\* The first boot knows nothing of the counter yet.
LEMMA CounterInit == Init => CounterInv
BY DEF Init, CounterInv, CounterReadsBack, InFlash

\* Only reads, writes, an erase and a reset touch the counter.
LEMMA CounterUntouched ==
    ASSUME Next
    PROVE  \/ counter' = counter
           \/ \E t \in Threads : Erase(t)
           \/ ReadCounter
           \/ \E n \in 0..1 : WriteCounter(n)
           \/ \E keeps, pin \in BOOLEAN : Boot(keeps, pin)
<1>1. ASSUME NEW t \in Threads, NEW name \in DOMAIN Scripts, Begin(t, name)
      PROVE  counter' = counter
  BY <1>1 DEF Begin
<1>2. ASSUME NEW t \in Threads, Operate(t)
      PROVE  counter' = counter
  BY <1>2 DEF Operate, Mark, MarkAfterFlush, FlushStep, FailStep, StoreEager, Change, Refit, Publish,
              SealStep, Release
<1>3. ASSUME NEW t \in Threads, Take(t) \/ Deliver(t) \/ Barrier(t) \/ Reopen(t)
      PROVE  counter' = counter
  BY <1>3 DEF Take, Deliver, Barrier, Reopen
<1>4. ASSUME Start \/ Stop \/ OtherSeal
      PROVE  counter' = counter
  BY <1>4 DEF Start, Stop, OtherSeal
<1> QED
  BY <1>1, <1>2, <1>3, <1>4 DEF Next

\* A counter in flash that is read or written, or whose flash failed: each
\* way of it keeps the invariant.
LEMMA CounterKept ==
    ASSUME CounterInv,
           NEW r \in Nat, NEW f \in Nat, NEW trusted \in BOOLEAN, NEW ramOnly \in BOOLEAN,
           NEW k \in Int,
           counter' = [ram |-> r, nvs |-> f, trusted |-> trusted, ramOnly |-> ramOnly, known |-> k],
           k # -1 => r = k,
           k # -1 /\ ~trusted /\ ~ramOnly => f = k
    PROVE  CounterInv'
BY DEF CounterInv, CounterReadsBack, InFlash

\* Every step, failing or not, keeps the counter as the boot knows it.
LEMMA CounterNext == CounterInv /\ [Next]_vars => CounterInv'
<1> SUFFICES ASSUME CounterInv, [Next]_vars
             PROVE  CounterInv'
  OBVIOUS
<1> DEFINE C(r, f, trusted, ramOnly, k) ==
        [ram |-> r, nvs |-> f, trusted |-> trusted, ramOnly |-> ramOnly, known |-> k]
<1>a. /\ counter.ram \in Nat /\ counter.nvs \in Nat /\ counter.known \in Int
      /\ counter.trusted \in BOOLEAN /\ counter.ramOnly \in BOOLEAN
  BY DEF CounterInv
<1>b. /\ counter.known # -1 => counter.ram = counter.known
      /\ counter.known # -1 /\ ~counter.trusted /\ ~counter.ramOnly => counter.nvs = counter.known
  BY DEF CounterInv, CounterReadsBack, InFlash
<1>1. CASE counter' = counter
  BY <1>1 DEF CounterInv, CounterReadsBack, InFlash
<1>2. ASSUME NEW t \in Threads, Erase(t)
      PROVE  CounterInv'
  <2>1. CASE counter' = [counter EXCEPT !.ram = 0, !.nvs = 0, !.known = 0]
    <3>1. counter' = C(0, 0, counter.trusted, counter.ramOnly, 0)
      BY <2>1 DEF CounterInv
    <3> QED
      BY <1>a, <3>1, CounterKept
  <2> QED
    BY <1>2, <1>1, <2>1 DEF Erase
<1>3. CASE ReadCounter
  <2> DEFINE K(r) == IF counter.known = -1 THEN r ELSE counter.known
  <2>a. \A r \in Nat : K(r) \in Int /\ (K(r) # -1 => (counter.known # -1 \/ r = K(r)))
    BY <1>a
  <2>b. \A r \in Nat : counter.known # -1 => K(r) = counter.known
    OBVIOUS
  <2>1. CASE ~InFlash /\ counter' = Learned(counter)
    <3>1. counter' = C(counter.ram, counter.nvs, counter.trusted, counter.ramOnly, K(counter.ram))
      BY <2>1 DEF CounterInv, Learned
    <3> HIDE DEF K
    <3> QED
      BY <1>a, <1>b, <2>a, <2>b, <2>1, <3>1, CounterKept DEF InFlash
  <2>2. CASE InFlash /\ counter' = Learned([counter EXCEPT !.ram = counter.nvs])
    <3>1. counter' = C(counter.nvs, counter.nvs, counter.trusted, counter.ramOnly, K(counter.nvs))
      BY <2>2 DEF CounterInv, Learned
    <3> HIDE DEF K
    <3> QED
      BY <1>a, <1>b, <2>a, <2>b, <2>2, <3>1, CounterKept DEF InFlash
  <2>3. CASE InFlash /\ counter' = Learned([counter EXCEPT !.ramOnly = TRUE])
    <3>1. counter' = C(counter.ram, counter.nvs, counter.trusted, TRUE, K(counter.ram))
      BY <2>3 DEF CounterInv, Learned
    <3> HIDE DEF K
    <3> QED
      BY <1>a, <1>b, <2>a, <2>b, <2>3, <3>1, CounterKept DEF InFlash
  <2> QED
    BY <1>3, <2>1, <2>2, <2>3 DEF ReadCounter
<1>4. ASSUME NEW n \in 0..1, WriteCounter(n)
      PROVE  CounterInv'
  <2>a. n \in Nat /\ n \in Int /\ n # -1
    OBVIOUS
  <2>1. CASE ~InFlash /\ counter' = [counter EXCEPT !.ram = n, !.known = n]
    <3>1. counter' = C(n, counter.nvs, counter.trusted, counter.ramOnly, n)
      BY <2>1 DEF CounterInv
    <3> QED
      BY <1>a, <2>a, <2>1, <3>1, CounterKept DEF InFlash
  <2>2. CASE counter' = [counter EXCEPT !.ram = n, !.nvs = n, !.known = n]
    <3>1. counter' = C(n, n, counter.trusted, counter.ramOnly, n)
      BY <2>2 DEF CounterInv
    <3> QED
      BY <1>a, <3>1, CounterKept
  <2>3. CASE counter' = [counter EXCEPT !.ram = n, !.ramOnly = TRUE, !.known = n]
    <3>1. counter' = C(n, counter.nvs, counter.trusted, TRUE, n)
      BY <2>3 DEF CounterInv
    <3> QED
      BY <1>a, <2>a, <3>1, CounterKept
  <2> QED
    BY <1>4, <2>1, <2>2, <2>3 DEF WriteCounter
<1>5. ASSUME NEW keeps \in BOOLEAN, NEW pin \in BOOLEAN, Boot(keeps, pin)
      PROVE  CounterInv'
  <2>1. PICK r \in Nat, trusted \in BOOLEAN :
            counter' = [counter EXCEPT !.ram = r, !.known = -1, !.ramOnly = FALSE, !.trusted = trusted]
    <3>1. (IF keeps /\ sealed THEN counter.ram ELSE 0) \in Nat
      BY <1>a
    <3>2. ((keeps /\ sealed) \/ ~pin) \in BOOLEAN
      OBVIOUS
    <3>3. counter' = [counter EXCEPT !.ram = IF keeps /\ sealed THEN counter.ram ELSE 0,
                                     !.known = -1, !.ramOnly = FALSE,
                                     !.trusted = (keeps /\ sealed) \/ ~pin]
      BY <1>5, Zenon DEF Boot
    <3> HIDE DEF C
    <3> QED
      BY <3>1, <3>2, <3>3, Zenon
  <2>2. counter' = C(r, counter.nvs, trusted, FALSE, -1)
    BY <2>1 DEF CounterInv
  <2>3. -1 \in Int /\ FALSE \in BOOLEAN
    OBVIOUS
  <2> QED
    BY <1>a, <2>2, <2>3, CounterKept
<1>6. CASE UNCHANGED vars
  BY <1>6, <1>1 DEF vars
<1> QED
  BY <1>1, <1>2, <1>3, <1>4, <1>5, <1>6, CounterUntouched

\* Within a boot the reboot counter reads as it was last read or written,
\* whatever fails: InFlash is left for good at the first failure.
THEOREM CounterIsTrue == Spec => []CounterReadsBack
<1>1. CounterInv => CounterReadsBack
  BY DEF CounterInv
<1> QED
  BY <1>1, CounterInit, CounterNext, PTL DEF Spec

----------------------------------------------------------------------------
\* Scripts: what the thread that holds the lock has still to do.

Singles(S) == {{x} : x \in S}
Steps ==
    [op : {"mark", "force", "store"}, args : Singles(Ids)]
    \union [op : {"touch", "refit", "publish"}, args : SUBSET Ids]
    \union {Flush, Seal, End}
Points == [op : {"flush", "fail"}, args : Singles(Nat \ {0})]
AllSteps == Steps \union Points

\* only the step it is at is in the middle of a flush, and it ends with End
Script(s) ==
    /\ s \in Seq(AllSteps) /\ s # <<>> /\ Tail(s) \in Seq(Steps)
    /\ s[Len(s)] = End

\* A sequence is one over every set its elements are in.
LEMMA SeqNarrow ==
    ASSUME NEW S, NEW T, NEW q \in Seq(S), \A i \in 1..Len(q) : q[i] \in T
    PROVE  q \in Seq(T)
OBVIOUS

\* The operation leaves a script that goes on with the next one.
LEMMA ScriptGoesOn ==
    ASSUME NEW s, Script(s), Head(s).op # "end"
    PROVE  /\ Script(<<>> \o Tail(s)) /\ Head(<<>> \o Tail(s)) \in Steps
<1>1. /\ Head(s) \in AllSteps /\ Tail(s) \in Seq(AllSteps) /\ Len(Tail(s)) = Len(s) - 1
      /\ \A i \in 1..Len(Tail(s)) : Tail(s)[i] = s[i + 1]
  BY HeadTailProperties DEF Script
<1>2. Len(s) \in Nat /\ Len(s) >= 1 /\ Head(s) = s[1]
  BY EmptySeq DEF Script
<1>3. Len(s) # 1
  BY <1>2 DEF Script, End, Op
<1>4. <<>> \o Tail(s) = Tail(s)
  BY <1>1, ConcatEmptySeq
<1>5. Tail(s) # <<>> /\ Tail(s) \in Seq(Steps)
  <2>1. Len(Tail(s)) # 0
    BY <1>1, <1>2, <1>3
  <2> QED
    BY <2>1, EmptySeq DEF Script
<1>6. /\ Head(Tail(s)) \in Steps /\ Tail(Tail(s)) \in Seq(Steps)
  BY <1>5, HeadTailProperties
<1>7. Tail(s)[Len(Tail(s))] = End
  BY <1>1, <1>2, <1>3 DEF Script
<1> QED
  BY <1>1, <1>4, <1>5, <1>6, <1>7 DEF Script

\* It may put another step in front of the rest.
LEMMA ScriptTakes ==
    ASSUME NEW s, Script(s), Head(s).op # "end", NEW x \in AllSteps
    PROVE  Script(<<x>> \o Tail(s)) /\ Head(<<x>> \o Tail(s)) = x
<1> DEFINE n == <<x>> \o Tail(s)
<1>1. /\ Tail(s) \in Seq(AllSteps) /\ Len(Tail(s)) = Len(s) - 1
      /\ \A i \in 1..Len(Tail(s)) : Tail(s)[i] = s[i + 1]
  BY HeadTailProperties DEF Script
<1>2. Len(s) \in Nat /\ Len(s) >= 1 /\ Head(s) = s[1]
  BY EmptySeq DEF Script
<1>3. Len(s) # 1
  BY <1>2 DEF Script, End, Op
<1>4. <<x>> \in Seq(AllSteps) /\ Len(<<x>>) = 1 /\ <<x>>[1] = x
  OBVIOUS
<1>5. /\ n \in Seq(AllSteps) /\ Len(n) = 1 + Len(Tail(s))
      /\ \A i \in 1..(1 + Len(Tail(s))) : n[i] = IF i <= 1 THEN <<x>>[i] ELSE Tail(s)[i - 1]
  BY <1>1, <1>4, ConcatProperties
<1> HIDE DEF n
<1>6. n # <<>> /\ Head(n) = x /\ n[Len(n)] = End
  BY <1>1, <1>2, <1>3, <1>4, <1>5 DEF Script
<1>7. Tail(n) = Tail(s)
  <2>1. /\ Tail(n) \in Seq(AllSteps) /\ Len(Tail(n)) = Len(n) - 1
        /\ \A i \in 1..Len(Tail(n)) : Tail(n)[i] = n[i + 1]
    BY <1>5, <1>6, HeadTailProperties
  <2>2. Len(Tail(n)) = Len(Tail(s))
    BY <1>1, <1>2, <1>5, <2>1
  <2>3. \A i \in 1..Len(Tail(n)) : Tail(n)[i] = Tail(s)[i]
    BY <1>1, <1>2, <1>5, <2>1, <2>2
  <2> QED
    BY <1>1, <2>1, <2>2, <2>3, SeqEqual
<1> QED
  BY <1>5, <1>6, <1>7 DEF Script, n

\* A full table: the flush, and then the second look at the table.
LEMMA ScriptFlushes ==
    ASSUME NEW s, Script(s), Head(s).op # "end", NEW x \in AllSteps, NEW y \in Steps
    PROVE  Script(<<x, y>> \o Tail(s)) /\ Head(<<x, y>> \o Tail(s)) = x
<1> DEFINE n == <<x, y>> \o Tail(s)
<1>1. /\ Tail(s) \in Seq(Steps) /\ Tail(s) \in Seq(AllSteps) /\ Len(Tail(s)) = Len(s) - 1
      /\ \A i \in 1..Len(Tail(s)) : Tail(s)[i] = s[i + 1]
  BY HeadTailProperties DEF Script
<1>2. Len(s) \in Nat /\ Len(s) >= 1 /\ Head(s) = s[1]
  BY EmptySeq DEF Script
<1>3. Len(s) # 1
  BY <1>2 DEF Script, End, Op
<1>4. <<x, y>> \in Seq(AllSteps) /\ Len(<<x, y>>) = 2 /\ <<x, y>>[1] = x /\ <<x, y>>[2] = y
  BY DEF AllSteps
<1>5. /\ n \in Seq(AllSteps) /\ Len(n) = 2 + Len(Tail(s))
      /\ \A i \in 1..(2 + Len(Tail(s))) : n[i] = IF i <= 2 THEN <<x, y>>[i] ELSE Tail(s)[i - 2]
  BY <1>1, <1>4, ConcatProperties
<1> HIDE DEF n
<1>6. n # <<>> /\ Head(n) = x /\ n[Len(n)] = End
  BY <1>1, <1>2, <1>3, <1>4, <1>5 DEF Script
<1>7. Tail(n) \in Seq(Steps)
  <2>1. /\ Tail(n) \in Seq(AllSteps) /\ Len(Tail(n)) = Len(n) - 1
        /\ \A i \in 1..Len(Tail(n)) : Tail(n)[i] = n[i + 1]
    BY <1>5, <1>6, HeadTailProperties
  <2>2. \A i \in 1..Len(Tail(s)) : Tail(s)[i] \in Steps
    BY <1>1, ElementOfSeq
  <2>3. \A i \in 1..Len(Tail(n)) : Tail(n)[i] \in Steps
    BY <1>1, <1>2, <1>4, <1>5, <2>1, <2>2
  <2> QED
    BY <2>1, <2>3, SeqNarrow
<1> QED
  BY <1>5, <1>6, <1>7 DEF Script, n

\* The ids of the model, as the scripts use them.
LEMMA IdsOfModel ==
    /\ Temp \in Ids /\ Mag \in Ids /\ TcalIds \subseteq Ids
    /\ Tcal \in Seq(Ids) /\ Model \in Seq(Ids) /\ ToSet(Model) \subseteq Ids
    /\ Model[1] \in Ids
<1> DEFINE S == {Temp} \union TcalIds
<1>1. <<Temp>> \in Seq(S) /\ Len(<<Temp>>) = 1 /\ <<Temp>>[1] = Temp
  OBVIOUS
<1>2. Model \in Seq(S) /\ Len(Model) \in Nat /\ Len(Model) > 0
  BY StoreAssumption, SeqMonotonic, EmptySeq
<1>3. /\ Tcal \in Seq(S) /\ Len(Tcal) = 1 + Len(Model)
      /\ \A i \in 1..(1 + Len(Model)) : Tcal[i] = IF i <= 1 THEN <<Temp>>[i] ELSE Model[i - 1]
  BY <1>1, <1>2, ConcatProperties DEF Tcal
<1>4. DOMAIN Tcal = 1..Len(Tcal)
  BY <1>3, LenProperties
<1>5. Temp \in TcalIds
  <2>1. Tcal[1] = Temp /\ 1 \in DOMAIN Tcal
    BY <1>1, <1>2, <1>3, <1>4
  <2> QED
    BY <2>1 DEF TcalIds, ToSet
<1>6. S = TcalIds /\ TcalIds \subseteq Ids
  BY <1>5 DEF Ids
<1>7. Tcal \in Seq(Ids) /\ Model \in Seq(Ids)
  BY <1>2, <1>3, <1>6, SeqMonotonic
<1>8. \A i \in 1..Len(Model) : Model[i] \in Ids
  BY <1>7, ElementOfSeq
<1>9. DOMAIN Model = 1..Len(Model)
  BY <1>7, LenProperties
<1>10. ToSet(Model) \subseteq Ids /\ Model[1] \in Ids
  BY <1>2, <1>8, <1>9 DEF ToSet
<1> QED
  BY <1>5, <1>6, <1>7, <1>10 DEF Ids

\* A sequence of steps that ends with End is a script, and begins at a step.
LEMMA WholeScript ==
    ASSUME NEW s \in Seq(Steps), s # <<>>, s[Len(s)] = End
    PROVE  Script(s) /\ Head(s) \in Steps
BY HeadTailProperties, SeqMonotonic DEF Script, AllSteps

\* What is put before an ending leaves it the ending.
LEMMA EndingStays ==
    ASSUME NEW a \in Seq(Steps), NEW b \in Seq(Steps), b # <<>>, b[Len(b)] = End
    PROVE  Script(a \o b) /\ Head(a \o b) \in Steps
<1> DEFINE s == a \o b
<1>1. Len(a) \in Nat /\ Len(b) \in Nat \ {0}
  BY EmptySeq, LenProperties
<1>2. /\ s \in Seq(Steps) /\ Len(s) = Len(a) + Len(b)
      /\ \A i \in 1..(Len(a) + Len(b)) : s[i] = IF i <= Len(a) THEN a[i] ELSE b[i - Len(a)]
  BY ConcatProperties
<1> HIDE DEF s
<1>3. s # <<>> /\ s[Len(s)] = End
  BY <1>1, <1>2
<1>4. Script(s) /\ Head(s) \in Steps
  BY <1>2, <1>3, WholeScript
<1> QED
  BY <1>4 DEF s

\* The parts the scripts are put together from.
LEMMA PartsAreSteps ==
    /\ \A id \in Ids : Op("touch", {id}) \in Steps /\ Op("mark", {id}) \in Steps /\ Store(id) \in Seq(Steps)
    /\ \A ids \in SUBSET Ids : Op("publish", ids) \in Steps /\ Op("refit", ids) \in Steps
    /\ Flush \in Steps /\ Seal \in Steps /\ End \in Steps
    /\ Each("mark", Tcal) \in Seq(Steps)
    /\ WarmAll \in Seq(Steps) /\ StoreModel \in Seq(Steps)
<1>1. /\ \A id \in Ids : Op("touch", {id}) \in Steps /\ Op("mark", {id}) \in Steps
                         /\ Op("store", {id}) \in Steps
      /\ \A ids \in SUBSET Ids : Op("publish", ids) \in Steps /\ Op("refit", ids) \in Steps
      /\ Flush \in Steps /\ Seal \in Steps /\ End \in Steps
  <2>1. ASSUME NEW op \in {"mark", "force", "store"}, NEW id \in Ids PROVE Op(op, {id}) \in Steps
    BY DEF Steps, Op, Singles
  <2>2. ASSUME NEW op \in {"touch", "refit", "publish"}, NEW ids \in SUBSET Ids
        PROVE  Op(op, ids) \in Steps
    BY DEF Steps, Op
  <2>3. Flush \in Steps /\ Seal \in Steps /\ End \in Steps
    BY DEF Steps
  <2>4. \A id \in Ids : {id} \in SUBSET Ids
    OBVIOUS
  <2> QED
    BY <2>1, <2>2, <2>3, <2>4
<1>2. \A id \in Ids : Store(id) \in Seq(Steps)
  BY <1>1 DEF Store
<1>3. ASSUME NEW q \in Seq(Ids) PROVE Each("mark", q) \in Seq(Steps)
  <2>1. Len(q) \in Nat /\ \A i \in 1..Len(q) : q[i] \in Ids
    BY ElementOfSeq, LenProperties
  <2>2. Each("mark", q) \in [1..Len(q) -> Steps]
    BY <1>1, <2>1 DEF Each
  <2> QED
    BY <2>1, <2>2, SeqDef
<1>4. ASSUME NEW q \in Seq(Ids), NEW op \in {"mark", "store"} PROVE Sealed(op, q) \in Seq(Steps)
  <2>1. Len(q) \in Nat /\ \A i \in 1..Len(q) : q[i] \in Ids
    BY ElementOfSeq, LenProperties
  <2>2. ASSUME NEW k \in 1..(2 * Len(q)), k % 2 = 1 PROVE q[(k + 1) \div 2] \in Ids
    <3>1. (k + 1) \div 2 \in 1..Len(q)
      BY <2>1, <2>2
    <3> QED
      BY <2>1, <3>1
  <2>3. \A k \in 1..(2 * Len(q)) :
            (IF k % 2 = 1 THEN Op(op, {q[(k + 1) \div 2]}) ELSE Seal) \in Steps
    BY <1>1, <2>2
  <2> DEFINE n == 2 * Len(q)
  <2>4. n \in Nat
    BY <2>1
  <2>5. Sealed(op, q) \in [1..n -> Steps]
    BY <2>3 DEF Sealed
  <2> HIDE DEF n
  <2> QED
    BY <2>4, <2>5, SeqDef
<1> QED
  BY <1>1, <1>2, <1>3, <1>4, IdsOfModel DEF WarmAll, StoreModel

\* Every script ends with End, and begins at a step of its own.
LEMMA ScriptsAreScripts ==
    \A name \in DOMAIN Scripts : Script(Scripts[name]) /\ Head(Scripts[name]) \in Steps
<1> DEFINE Good(s) == Script(s) /\ Head(s) \in Steps
           Tail1 == <<End>>
           Tail2 == <<Seal, End>>
           Tail3 == <<Flush, End>>
<1>1. /\ Tail1 \in Seq(Steps) /\ Tail1 # <<>> /\ Tail1[Len(Tail1)] = End
      /\ Tail2 \in Seq(Steps) /\ Tail2 # <<>> /\ Tail2[Len(Tail2)] = End
      /\ Tail3 \in Seq(Steps) /\ Tail3 # <<>> /\ Tail3[Len(Tail3)] = End
  BY PartsAreSteps
<1>2. ASSUME NEW a \in Seq(Steps)
      PROVE  Good(a \o Tail1) /\ Good(a \o Tail2) /\ Good(a \o Tail3)
  BY <1>1, EndingStays
<1>3. \A a, b \in Seq(Steps) : a \o b \in Seq(Steps)
  BY ConcatProperties
<1> DEFINE A == <<Op("publish", TcalIds)>>
           B == <<Op("refit", TcalIds)>>
           C == <<Op("refit", ToSet(Model))>>
           D == <<Op("touch", {Temp})>>
           E == <<Op("touch", {Mag})>>
           M == Each("mark", Tcal)
<1>a. ASSUME NEW x \in Steps PROVE <<x>> \in Seq(Steps)
  OBVIOUS
<1>b. /\ Op("publish", TcalIds) \in Steps /\ Op("refit", TcalIds) \in Steps
      /\ Op("refit", ToSet(Model)) \in Steps
  BY PartsAreSteps, IdsOfModel
<1>c. /\ Op("touch", {Temp}) \in Steps /\ Op("touch", {Mag}) \in Steps
      /\ Op("mark", {Mag}) \in Steps /\ Seal \in Steps /\ End \in Steps
      /\ Store(Temp) \in Seq(Steps) /\ Store(Mag) \in Seq(Steps)
  BY PartsAreSteps, IdsOfModel
<1>4. /\ A \in Seq(Steps) /\ B \in Seq(Steps) /\ C \in Seq(Steps) /\ D \in Seq(Steps)
      /\ E \in Seq(Steps) /\ M \in Seq(Steps) /\ WarmAll \in Seq(Steps)
      /\ StoreModel \in Seq(Steps) /\ Store(Temp) \in Seq(Steps) /\ Store(Mag) \in Seq(Steps)
  BY <1>a, <1>b, <1>c, PartsAreSteps
<1>5. /\ Scripts["heated"] = (A \o M) \o Tail2
      /\ Scripts["point"] = (B \o M) \o Tail2
      /\ Scripts["imu"] = (D \o Store(Temp)) \o Tail1
      /\ Scripts["imupoint"] = (((D \o Store(Temp)) \o C) \o WarmAll) \o Tail3
      /\ Scripts["clear"] = (C \o StoreModel) \o Tail1
      /\ Scripts["remove"] = (C \o WarmAll) \o Tail3
      /\ Scripts["backup"] = ((B \o StoreModel) \o Store(Temp)) \o Tail1
      /\ Scripts["manualmag"] = (E \o Store(Mag)) \o Tail1
      /\ Scripts["quiet"] = <<Op("refit", {Temp, Model[1]}), Seal, End>>
      /\ Scripts["onlinemag"] = <<Op("touch", {Mag}), Op("mark", {Mag}), Seal, End>>
      /\ Scripts["flush"] = Tail3
      /\ DOMAIN Scripts = {"heated", "point", "imu", "imupoint", "clear", "remove", "backup",
                           "manualmag", "quiet", "onlinemag", "flush"}
  BY Zenon DEF Scripts
<1> HIDE DEF A, B, C, D, E, M, Tail1, Tail2, Tail3, Good
<1>6. /\ Good(Scripts["heated"]) /\ Good(Scripts["point"])
      /\ Good(Scripts["imu"]) /\ Good(Scripts["manualmag"])
  BY <1>2, <1>3, <1>4, <1>5
<1>7. Good(Scripts["clear"]) /\ Good(Scripts["remove"])
  BY <1>2, <1>3, <1>4, <1>5
<1>8. Good(Scripts["imupoint"])
  <2>1. ((D \o Store(Temp)) \o C) \o WarmAll \in Seq(Steps)
    BY <1>3, <1>4
  <2> QED
    BY <1>2, <1>5, <2>1
<1>9. Good(Scripts["backup"])
  <2>1. (B \o StoreModel) \o Store(Temp) \in Seq(Steps)
    BY <1>3, <1>4
  <2> QED
    BY <1>2, <1>5, <2>1
<1>10. Good(Scripts["quiet"])
  <2> DEFINE s == <<Op("refit", {Temp, Model[1]}), Seal, End>>
  <2>1. s \in Seq(Steps) /\ s # <<>> /\ s[Len(s)] = End
    BY PartsAreSteps, IdsOfModel
  <2> QED
    BY <1>5, <2>1, WholeScript DEF Good
<1>11. Good(Scripts["onlinemag"])
  <2> DEFINE s == <<Op("touch", {Mag}), Op("mark", {Mag}), Seal, End>>
  <2>1. s \in Seq(Steps) /\ s # <<>> /\ s[Len(s)] = End
    BY <1>c
  <2> QED
    BY <1>5, <2>1, WholeScript DEF Good
<1>12. Good(Scripts["flush"])
  BY <1>1, <1>5, WholeScript DEF Good
<1> QED
  BY <1>5, <1>6, <1>7, <1>8, <1>9, <1>10, <1>11, <1>12, Zenon DEF Good

----------------------------------------------------------------------------
\* What is handed to the store is in flash or in the table.

Slots == [id : Ids, feedback : Nat]
AnyReceipt == [identity : Nat, written : SUBSET TcalIds, failed : BOOLEAN]

\* A value is never newer than the last change, nor what was handed over newer
\* than the value: what a flush takes from retained memory is what it owes.
ValuesOk ==
    /\ ram \in [Ids -> Nat] /\ nvs \in [Ids -> Nat] /\ handed \in [Ids -> Nat]
    /\ stamp \in Nat /\ fresh \subseteq Ids
    /\ \A id \in Ids : handed[id] <= ram[id] /\ ram[id] <= stamp /\ nvs[id] <= stamp
TableOk == dirty \in Seq(Slots) /\ armed \in Nat /\ receipts \in Seq(AnyReceipt)

\* The lock has one holder, and what is left of its script is one.
ThreadsOk ==
    /\ thread \in [Threads -> [at : {"idle", "script", "dispatch", "deliver", "clearing", "cleared"},
                               todo : Seq(AllSteps), receipt : AnyReceipt, turns : Int]]
    /\ \A t \in Threads : thread[t].at = "script" => Script(thread[t].todo)
    /\ \A t, u \in Threads : thread[t].at = "script" /\ thread[u].at = "script" => t = u

\* The slots before the one a flush is at are in flash; they stay in the table
\* until the flush ends, and leave it when a later one fails.
FlushedBefore(t) ==
    Doing(t, "flush") =>
        \A j \in 1..Len(dirty) : j < Subject(t) => nvs[dirty[j].id] >= handed[dirty[j].id]
FlushOk == \A t \in Threads : FlushedBefore(t)

StoreInv == ValuesOk /\ TableOk /\ ThreadsOk /\ FlushOk /\ NothingForgotten

\* The first boot has nothing in the store, and nobody at work.
LEMMA StoreInit == Init => StoreInv
<1> SUFFICES ASSUME Init PROVE StoreInv
  OBVIOUS
<1>1. ValuesOk
  BY DEF Init, Unset, ValuesOk
<1>2. TableOk
  BY DEF Init, TableOk, Nobody
<1>3. \A t \in Threads : thread[t] = Idle
  BY DEF Init
<1>4. \A t \in Threads : thread[t].at # "script"
  BY <1>3 DEF Idle
<1>5. ThreadsOk
  <2>1. NoReceipt \in AnyReceipt
    BY DEF NoReceipt, AnyReceipt, Nobody
  <2>2. Idle \in [at : {"idle", "script", "dispatch", "deliver", "clearing", "cleared"},
                  todo : Seq(AllSteps), receipt : AnyReceipt, turns : Int]
    BY <2>1 DEF Idle
  <2> QED
    BY <1>4, <2>2 DEF Init, ThreadsOk
<1>6. FlushOk
  BY <1>4 DEF FlushOk, FlushedBefore, Doing
<1>7. NothingForgotten
  BY DEF Init, NothingForgotten
<1> QED
  BY <1>1, <1>2, <1>5, <1>6, <1>7 DEF StoreInv

\* A step that leaves a caller out of its script leaves the others as they are.
LEMMA OutOfScript ==
    ASSUME ThreadsOk, FlushOk, NEW t \in Threads,
           NEW new \in [at : {"idle", "dispatch", "deliver", "clearing", "cleared"},
                        todo : Seq(AllSteps), receipt : AnyReceipt, turns : Int],
           thread' = [thread EXCEPT ![t] = new],
           nvs' = nvs, handed' = handed, dirty' = dirty
    PROVE  ThreadsOk' /\ FlushOk'
<1>1. thread' \in [Threads -> [at : {"idle", "script", "dispatch", "deliver", "clearing", "cleared"},
                               todo : Seq(AllSteps), receipt : AnyReceipt, turns : Int]]
  BY DEF ThreadsOk
<1>2. thread'[t].at # "script"
  BY DEF ThreadsOk
<1>3. \A u \in Threads : u # t => thread'[u] = thread[u]
  BY DEF ThreadsOk
<1>4. ThreadsOk'
  BY <1>1, <1>2, <1>3 DEF ThreadsOk
<1>5. FlushOk'
  <2> SUFFICES ASSUME NEW u \in Threads, u # t, FlushedBefore(u)
               PROVE  FlushedBefore(u)'
    BY <1>2 DEF FlushOk, FlushedBefore, Doing
  <2>1. thread'[u] = thread[u]
    BY <1>3
  <2> QED
    BY <2>1 DEF FlushedBefore, Doing, Subject
<1> QED
  BY <1>4, <1>5

\* The holder of the lock goes on with a script.
LEMMA GoesOn ==
    ASSUME ThreadsOk, NEW t \in Threads, thread[t].at = "script",
           NEW new, Script(new), thread' = [thread EXCEPT ![t].todo = new]
    PROVE  /\ ThreadsOk' /\ thread'[t].todo = new
           /\ \A u \in Threads : u # t => thread'[u].at # "script"
<1>1. new \in Seq(AllSteps)
  BY DEF Script
<1>2. thread' \in [Threads -> [at : {"idle", "script", "dispatch", "deliver", "clearing", "cleared"},
                               todo : Seq(AllSteps), receipt : AnyReceipt, turns : Int]]
  BY <1>1 DEF ThreadsOk
<1>3. thread'[t].at = "script" /\ thread'[t].todo = new
  BY DEF ThreadsOk
<1>4. \A u \in Threads : u # t => thread'[u] = thread[u] /\ thread'[u].at # "script"
  BY DEF ThreadsOk
<1> QED
  BY <1>2, <1>3, <1>4 DEF ThreadsOk

\* A holder that comes to a step of its own has flushed nothing yet.
LEMMA FlushBegins ==
    ASSUME NEW t \in Threads, (Head(thread[t].todo) \in Steps)', TableOk',
           \A u \in Threads : u # t => thread'[u].at # "script"
    PROVE  FlushOk'
<1> SUFFICES ASSUME Doing(t, "flush")' PROVE Subject(t)' = 1
  BY LenProperties DEF FlushOk, FlushedBefore, Doing, TableOk
<1>1. Head(thread'[t].todo) = Flush
  BY DEF Steps, Doing, Seal, End, Op
<1> QED
  BY <1>1 DEF Subject, Flush, Op

\* What is known of a receipt only grows.
LEMMA ReceiptMerged ==
    ASSUME NEW r \in AnyReceipt, NEW mask \in SUBSET TcalIds, NEW failed \in BOOLEAN
    PROVE  Merged(r, mask, failed) \in AnyReceipt
<1>1. PICK b \in BOOLEAN : b = (r.failed \/ failed)
  OBVIOUS
<1>2. Merged(r, mask, failed) = [r EXCEPT !.written = r.written \union mask, !.failed = b]
  BY <1>1, Zenon DEF Merged
<1>3. r.written \union mask \in SUBSET TcalIds
  BY DEF AnyReceipt
<1>4. ASSUME NEW w \in SUBSET TcalIds PROVE [r EXCEPT !.written = w, !.failed = b] \in AnyReceipt
  <2> DEFINE F == BOOLEAN
             W == SUBSET TcalIds
  <2>1. r \in [identity : Nat, written : W, failed : F] /\ w \in W /\ b \in F
    BY DEF AnyReceipt
  <2> HIDE DEF F, W
  <2>2. [r EXCEPT !.written = w, !.failed = b] \in [identity : Nat, written : W, failed : F]
    BY <2>1
  <2> QED
    BY <2>2 DEF AnyReceipt, F, W
<1> QED
  BY <1>2, <1>3, <1>4

\* A receipt, added or merged, is one.
LEMMA ReceiptAdded ==
    ASSUME NEW rs \in Seq(AnyReceipt), NEW slot \in Slots, NEW written \in BOOLEAN,
           NEW failed \in BOOLEAN
    PROVE  AddReceipt(rs, slot, written, failed) \in Seq(AnyReceipt)
<1> DEFINE known == {i \in 1..Len(rs) : rs[i].identity = slot.feedback}
           mask == IF written THEN {slot.id} \intersect TcalIds ELSE {}
           k == CHOOSE i \in known : TRUE
           new == [identity |-> slot.feedback, written |-> mask, failed |-> failed]
<1>1. mask \in SUBSET TcalIds /\ new \in AnyReceipt
  BY DEF Slots, AnyReceipt
<1>2. Append(rs, new) \in Seq(AnyReceipt)
  BY <1>1
<1>3. ASSUME known # {} PROVE [rs EXCEPT ![k] = Merged(@, mask, failed)] \in Seq(AnyReceipt)
  <2>1. k \in 1..Len(rs)
    BY <1>3
  <2>2. rs[k] \in AnyReceipt
    BY <2>1, ElementOfSeq
  <2>3. Merged(rs[k], mask, failed) \in AnyReceipt
    BY <1>1, <2>2, ReceiptMerged
  <2> QED
    BY <2>1, <2>3, ExceptSeq
<1> HIDE DEF known, mask, k, new
<1>4. AddReceipt(rs, slot, written, failed) =
        IF slot.feedback = Nobody THEN rs
        ELSE IF known # {} THEN [rs EXCEPT ![k] = Merged(@, mask, failed)]
        ELSE IF Len(rs) < WarmMax THEN Append(rs, new) ELSE rs
  BY Zenon DEF AddReceipt, known, mask, k, new
<1> QED
  BY <1>2, <1>3, <1>4

\* A slot a caller makes carries an identity that is armed or none.
LEMMA SlotMade ==
    ASSUME TableOk, NEW id \in Ids PROVE Slot(id) \in Slots /\ Slot(id).id = id
BY DEF TableOk, Slot, NewIdentity, Slots, Nobody

\* The id a caller's step is about.
LEMMA SubjectOfStep ==
    ASSUME ThreadsOk, NEW t \in Threads, thread[t].at = "script"
    PROVE  /\ Script(thread[t].todo) /\ Head(thread[t].todo) \in AllSteps
           /\ Head(thread[t].todo).op \in {"mark", "force", "store"} => Subject(t) \in Ids
           /\ Head(thread[t].todo).op \in {"flush", "fail"} => Subject(t) \in Nat \ {0}
<1> DEFINE x == Head(thread[t].todo)
<1>1. Script(thread[t].todo)
  BY DEF ThreadsOk
<1>2. x \in AllSteps
  BY <1>1, HeadTailProperties DEF Script
<1>3. ASSUME x.op \in {"mark", "force", "store"} PROVE \E id \in Ids : x.args = {id}
  BY <1>2, <1>3 DEF AllSteps, Steps, Points, Singles, Flush, Seal, End, Op
<1>4. ASSUME x.op \in {"flush", "fail"} PROVE \E i \in Nat \ {0} : x.args = {i}
  BY <1>2, <1>4 DEF AllSteps, Steps, Points, Singles, Flush, Seal, End, Op
<1> QED
  BY <1>1, <1>2, <1>3, <1>4 DEF Subject

\* A step of the holder that is done goes on with the script, and at a flush
\* the script is at its first slot.
LEMMA DoneGoesOn ==
    ASSUME ThreadsOk, TableOk', NEW t \in Threads, NEW op, Doing(t, op), op # "end",
           thread' = Done(t)
    PROVE  ThreadsOk' /\ FlushOk'
<1>1. thread[t].at = "script" /\ Script(thread[t].todo) /\ Head(thread[t].todo).op # "end"
  BY SubjectOfStep DEF Doing
<1> DEFINE new == <<>> \o Tail(thread[t].todo)
<1>2. Script(new) /\ Head(new) \in Steps
  BY <1>1, ScriptGoesOn
<1>3. thread' = [thread EXCEPT ![t].todo = new]
  BY DEF Done, Go
<1> HIDE DEF new
<1>4. /\ ThreadsOk' /\ thread'[t].todo = new
      /\ \A u \in Threads : u # t => thread'[u].at # "script"
  BY <1>1, <1>2, <1>3, GoesOn
<1> QED
  BY <1>2, <1>4, FlushBegins

\* A holder that is in no flush owes no slot to one.
LEMMA NoFlush ==
    ASSUME NEW t \in Threads, (Head(thread[t].todo).op # "flush")',
           \A u \in Threads : u # t => thread'[u].at # "script"
    PROVE  FlushOk'
BY DEF FlushOk, FlushedBefore, Doing

\* What touches neither values nor table forgets nothing.
LEMMA DataKept ==
    ASSUME ValuesOk, NothingForgotten,
           UNCHANGED <<ram, nvs, handed, fresh, stamp, dirty>>
    PROVE  ValuesOk' /\ NothingForgotten'
BY DEF ValuesOk, NothingForgotten, IsDirty, SlotsOf

\* Only the lock, or a thread that does not hold it, moves.
LEMMA LockFreeKeeps ==
    ASSUME StoreInv, NEW t \in Threads, Take(t) \/ Deliver(t) \/ Barrier(t) \/ Reopen(t)
    PROVE  StoreInv'
<1> USE DEF StoreInv
<1>1. UNCHANGED <<ram, nvs, handed, fresh, stamp, dirty, armed>>
  BY DEF Take, Deliver, Barrier, Reopen, retained, flash, history, store
<1>2. ValuesOk' /\ NothingForgotten'
  BY <1>1, DataKept
<1>3. receipts' \in Seq(AnyReceipt)
  <2>1. receipts' = receipts \/ (receipts # <<>> /\ receipts' = Front(receipts))
    BY DEF Take, Deliver, Barrier, Reopen, store
  <2>2. receipts # <<>> => Front(receipts) \in Seq(AnyReceipt)
    BY EmptySeq, LenProperties, SubSeqProperties DEF TableOk, Front
  <2> QED
    BY <2>1, <2>2 DEF TableOk
<1>4. TableOk'
  BY <1>1, <1>3 DEF TableOk
<1>5. /\ thread[t].todo \in Seq(AllSteps) /\ thread[t].receipt \in AnyReceipt
      /\ thread[t].turns \in Int /\ NoReceipt \in AnyReceipt
      /\ thread[t] = [at |-> thread[t].at, todo |-> thread[t].todo,
                      receipt |-> thread[t].receipt, turns |-> thread[t].turns]
  BY DEF ThreadsOk, NoReceipt, AnyReceipt, Nobody
<1> DEFINE T(at, todo, receipt, turns) ==
               [at |-> at, todo |-> todo, receipt |-> receipt, turns |-> turns]
<1>6. ASSUME Take(t)
      PROVE  \/ thread' = [thread EXCEPT ![t] = Idle]
             \/ /\ receipts # <<>>
                /\ thread' = [thread EXCEPT ![t] = T("deliver", thread[t].todo, Last(receipts),
                                                     thread[t].turns + 1)]
  BY <1>5, <1>6 DEF Take, ThreadsOk
<1>7. ASSUME Deliver(t) \/ Barrier(t) \/ Reopen(t)
      PROVE  \/ thread' = [thread EXCEPT ![t] = T("dispatch", thread[t].todo, NoReceipt,
                                                  thread[t].turns)]
             \/ thread' = [thread EXCEPT ![t] = T("clearing", thread[t].todo, thread[t].receipt,
                                                  thread[t].turns)]
             \/ thread' = [thread EXCEPT ![t] = Idle]
  BY <1>5, <1>7 DEF Deliver, Barrier, Reopen, ThreadsOk
<1>8. ThreadsOk' /\ FlushOk'
  <2>1. Idle = T("idle", <<>>, NoReceipt, 0) /\ <<>> \in Seq(AllSteps)
    BY DEF Idle
  <2>2. receipts # <<>> => Last(receipts) \in AnyReceipt
    BY EmptySeq, LenProperties, ElementOfSeq DEF TableOk, Last
  <2> DEFINE N == [at : {"idle", "dispatch", "deliver", "clearing", "cleared"},
                   todo : Seq(AllSteps), receipt : AnyReceipt, turns : Int]
  <2>a. /\ Idle \in N /\ T("dispatch", thread[t].todo, NoReceipt, thread[t].turns) \in N
        /\ T("clearing", thread[t].todo, thread[t].receipt, thread[t].turns) \in N
    BY <1>5, <2>1
  <2>b. receipts # <<>> => T("deliver", thread[t].todo, Last(receipts), thread[t].turns + 1) \in N
    <3>1. thread[t].turns + 1 \in Int
      BY <1>5
    <3> QED
      BY <1>5, <2>2, <3>1
  <2> HIDE DEF N, T
  <2>3. PICK new \in N : thread' = [thread EXCEPT ![t] = new]
    BY <1>6, <1>7, <2>a, <2>b
  <2> USE DEF N
  <2> QED
    BY <1>1, <2>3, OutOfScript
<1> QED
  BY <1>2, <1>4, <1>8

\* A caller that gets the lock starts at a step of its own.
LEMMA BeginKeeps ==
    ASSUME StoreInv, NEW t \in Threads, NEW name \in DOMAIN Scripts, Begin(t, name)
    PROVE  StoreInv'
<1> USE DEF StoreInv
<1>1. UNCHANGED <<ram, nvs, handed, fresh, stamp, dirty, armed, receipts>>
  BY DEF Begin, retained, flash, history, store
<1>2. ValuesOk' /\ NothingForgotten' /\ TableOk'
  BY <1>1, DataKept DEF TableOk
<1> DEFINE s == Scripts[name]
<1>3. Script(s) /\ Head(s) \in Steps
  BY ScriptsAreScripts
<1>4. thread' = [thread EXCEPT ![t] = [Idle EXCEPT !.at = "script", !.todo = s]]
  BY DEF Begin
<1> HIDE DEF s
<1>5. s \in Seq(AllSteps) /\ NoReceipt \in AnyReceipt
  BY <1>3 DEF Script, NoReceipt, AnyReceipt, Nobody
<1> DEFINE R == [at : {"idle", "script", "dispatch", "deliver", "clearing", "cleared"},
                 todo : Seq(AllSteps), receipt : AnyReceipt, turns : Int]
           new == [Idle EXCEPT !.at = "script", !.todo = s]
<1>a. Idle \in R
  BY <1>5 DEF Idle
<1>6. new \in R /\ new.at = "script" /\ new.todo = s
  BY <1>5, <1>a
<1> HIDE DEF new
<1>7. /\ thread' \in [Threads -> [at : {"idle", "script", "dispatch", "deliver", "clearing", "cleared"},
                                  todo : Seq(AllSteps), receipt : AnyReceipt, turns : Int]]
      /\ thread'[t].at = "script" /\ thread'[t].todo = s
      /\ \A u \in Threads : u # t => thread'[u] = thread[u]
  <2>1. thread' = [thread EXCEPT ![t] = new]
    BY <1>4 DEF new
  <2> QED
    BY <1>6, <2>1 DEF ThreadsOk
<1>8. \A u \in Threads : u # t => thread'[u].at # "script"
  BY <1>7 DEF Begin, Locked
<1>9. ThreadsOk'
  BY <1>3, <1>7, <1>8 DEF ThreadsOk
<1>10. FlushOk'
  BY <1>2, <1>3, <1>7, <1>8, FlushBegins
<1> QED
  BY <1>2, <1>9, <1>10

\* Where an id is dirty.
LEMMA Dirty ==
    ASSUME TableOk, NEW id
    PROVE  /\ Len(dirty) \in Nat /\ \A i \in 1..Len(dirty) : dirty[i] \in Slots /\ dirty[i].id \in Ids
           /\ IsDirty(id) <=> \E i \in 1..Len(dirty) : dirty[i].id = id
           /\ IsDirty(id) => (CHOOSE i \in SlotsOf(id) : TRUE) \in SlotsOf(id)
<1>1. Len(dirty) \in Nat /\ \A i \in 1..Len(dirty) : dirty[i] \in Slots
  BY LenProperties, ElementOfSeq DEF TableOk
<1> QED
  BY <1>1 DEF IsDirty, SlotsOf, Slots

\* What is handed over is the value of retained memory, for an id that has or
\* gets a slot; the slots of the other ids stay.
LEMMA HandedOverKeeps ==
    ASSUME ValuesOk, NothingForgotten, NEW id \in Ids, HandedOver(id),
           UNCHANGED <<ram, nvs, stamp>>, IsDirty(id)',
           \A other \in Ids : other # id /\ IsDirty(other) => IsDirty(other)'
    PROVE  ValuesOk' /\ NothingForgotten'
<1>1. ValuesOk'
  BY DEF ValuesOk, HandedOver
<1>2. NothingForgotten'
  <2> SUFFICES ASSUME NEW other \in fresh'
               PROVE  nvs'[other] >= handed'[other] \/ IsDirty(other)'
    BY DEF NothingForgotten
  <2>1. CASE other = id
    BY <2>1
  <2>2. CASE other # id
    BY <2>2 DEF NothingForgotten, HandedOver, ValuesOk
  <2> QED
    BY <2>1, <2>2
<1> QED
  BY <1>1, <1>2

\* A dirty id gets its new identity in place, and the slot's old one a receipt.
LEMMA MarkAgain ==
    ASSUME StoreInv, NEW t \in Threads, Mark(t), IsDirty(Subject(t)), thread' = Done(t),
           HandedOver(Subject(t)),
           NEW i, i = (CHOOSE k \in SlotsOf(Subject(t)) : TRUE),
           receipts' = Cancelled(receipts, i, NewIdentity(Subject(t))),
           dirty' = [dirty EXCEPT ![i] = Slot(Subject(t))]
    PROVE  StoreInv'
<1>1. ValuesOk /\ TableOk /\ ThreadsOk /\ NothingForgotten
  BY DEF StoreInv
<1>2. UNCHANGED <<ram, nvs, stamp, armed>> /\ Doing(t, "mark")
  BY DEF Mark, retained, flash
<1>3. PICK id \in Ids : id = Subject(t)
  BY <1>1, <1>2, SubjectOfStep DEF Doing
<1>4. i \in 1..Len(dirty) /\ dirty[i] \in Slots
  BY <1>1, <1>3, Dirty DEF SlotsOf
<1>5. Slot(id) \in Slots /\ Slot(id).id = id
  BY <1>1, <1>3, SlotMade
<1>6. dirty' \in Seq(Slots) /\ Len(dirty') = Len(dirty)
      /\ \A k \in 1..Len(dirty) : dirty'[k] = IF k = i THEN Slot(id) ELSE dirty[k]
  BY <1>1, <1>3, <1>4, <1>5, ExceptSeq DEF TableOk
<1>7. receipts' \in Seq(AnyReceipt)
  BY <1>1, <1>4, ReceiptAdded DEF Cancelled, TableOk
<1>8. TableOk'
  BY <1>1, <1>2, <1>6, <1>7 DEF TableOk
<1>9. dirty[i].id = id
  BY <1>1, <1>3, Dirty DEF SlotsOf
<1>10. IsDirty(id)' /\ \A other \in Ids : other # id /\ IsDirty(other) => IsDirty(other)'
  BY <1>1, <1>4, <1>5, <1>6, <1>9, Dirty DEF IsDirty, SlotsOf
<1>11. ValuesOk' /\ NothingForgotten'
  BY <1>1, <1>2, <1>3, <1>10, HandedOverKeeps
<1>12. ThreadsOk' /\ FlushOk'
  BY <1>1, <1>2, <1>8, DoneGoesOn
<1> QED
  BY <1>8, <1>11, <1>12 DEF StoreInv

\* An id that is not dirty gets the next slot, when there is one.
LEMMA MarkNew ==
    ASSUME StoreInv, NEW t \in Threads, Mark(t) \/ MarkAfterFlush(t), thread' = Done(t),
           HandedOver(Subject(t)), dirty' = Append(dirty, Slot(Subject(t))), receipts' = receipts
    PROVE  StoreInv'
<1>1. ValuesOk /\ TableOk /\ ThreadsOk /\ NothingForgotten
  BY DEF StoreInv
<1>2. UNCHANGED <<ram, nvs, stamp, armed>> /\ (Doing(t, "mark") \/ Doing(t, "force"))
  BY DEF Mark, MarkAfterFlush, retained, flash
<1>3. PICK id \in Ids : id = Subject(t)
  BY <1>1, <1>2, SubjectOfStep DEF Doing
<1>4. Slot(id) \in Slots /\ Slot(id).id = id
  BY <1>1, <1>3, SlotMade
<1>5. dirty' \in Seq(Slots) /\ Len(dirty') = Len(dirty) + 1 /\ dirty'[Len(dirty) + 1] = Slot(id)
      /\ \A k \in 1..Len(dirty) : dirty'[k] = dirty[k]
  BY <1>1, <1>3, <1>4, AppendProperties DEF TableOk
<1>6. TableOk'
  BY <1>1, <1>2, <1>5 DEF TableOk
<1>7. IsDirty(id)' /\ \A other \in Ids : IsDirty(other) => IsDirty(other)'
  BY <1>1, <1>4, <1>5, Dirty DEF IsDirty, SlotsOf
<1>8. ValuesOk' /\ NothingForgotten'
  BY <1>1, <1>2, <1>3, <1>7, HandedOverKeeps
<1>9. ThreadsOk' /\ FlushOk'
  BY <1>1, <1>2, <1>6, DoneGoesOn
<1> QED
  BY <1>6, <1>8, <1>9 DEF StoreInv

\* A mark keeps what is dirty, and so does the flush it asks for.
LEMMA MarkKeeps ==
    ASSUME StoreInv, NEW t \in Threads, Mark(t)
    PROVE  StoreInv'
<1> DEFINE id == Subject(t)
           full == <<Flush, Op("force", {id})>>
<1>1. CASE IsDirty(id) /\ thread' = Done(t)
  BY <1>1, MarkAgain DEF Mark
<1>2. CASE ~IsDirty(id) /\ thread' = Done(t) /\ dirty' = Append(dirty, Slot(id))
           /\ HandedOver(id) /\ receipts' = receipts
  BY <1>2, MarkNew
<1>3. CASE thread' = Go(t, full) /\ UNCHANGED <<dirty, receipts, history>>
  <2>1. ValuesOk /\ TableOk /\ ThreadsOk /\ NothingForgotten
    BY DEF StoreInv
  <2>2. UNCHANGED <<ram, nvs, handed, fresh, stamp, dirty, armed, receipts>> /\ Doing(t, "mark")
    BY <1>3 DEF Mark, retained, flash, history
  <2>3. ValuesOk' /\ NothingForgotten' /\ TableOk'
    BY <2>1, <2>2, DataKept DEF TableOk
  <2>4. /\ thread[t].at = "script" /\ Script(thread[t].todo) /\ Head(thread[t].todo).op # "end"
        /\ id \in Ids
    BY <2>1, <2>2, SubjectOfStep DEF Doing
  <2>5. Flush \in AllSteps /\ Flush \in Steps /\ Op("force", {id}) \in Steps
    BY <2>4 DEF AllSteps, Steps, Op, Singles
  <2> DEFINE new == full \o Tail(thread[t].todo)
  <2>6. Script(new) /\ Head(new) = Flush
    BY <2>4, <2>5, ScriptFlushes
  <2>7. thread' = [thread EXCEPT ![t].todo = new]
    BY <1>3 DEF Go
  <2> HIDE DEF new
  <2>8. /\ ThreadsOk' /\ thread'[t].todo = new
        /\ \A u \in Threads : u # t => thread'[u].at # "script"
    BY <2>1, <2>4, <2>6, <2>7, GoesOn
  <2>9. FlushOk'
    BY <2>3, <2>5, <2>6, <2>8, FlushBegins
  <2> QED
    BY <2>3, <2>8, <2>9 DEF StoreInv
<1> QED
  BY <1>1, <1>2, <1>3 DEF Mark

\* The second look at the table takes the id or drops it, with a receipt.
LEMMA ForceKeeps ==
    ASSUME StoreInv, NEW t \in Threads, MarkAfterFlush(t)
    PROVE  StoreInv'
<1>1. CASE Len(dirty) < WarmMax
  BY <1>1, MarkNew DEF MarkAfterFlush
<1>2. CASE ~(Len(dirty) < WarmMax)
  <2>1. ValuesOk /\ TableOk /\ ThreadsOk /\ NothingForgotten
    BY DEF StoreInv
  <2>2. UNCHANGED <<ram, nvs, handed, fresh, stamp, dirty, armed>> /\ Doing(t, "force")
        /\ thread' = Done(t)
    BY <1>2 DEF MarkAfterFlush, retained, flash, history
  <2>3. PICK id \in Ids : id = Subject(t)
    BY <2>1, <2>2, SubjectOfStep DEF Doing
  <2>4. receipts' = AddReceipt(receipts, Slot(id), FALSE, TRUE)
    BY <1>2, <2>3 DEF MarkAfterFlush
  <2>5. receipts' \in Seq(AnyReceipt)
    BY <2>1, <2>4, SlotMade, ReceiptAdded DEF TableOk
  <2>6. ValuesOk' /\ NothingForgotten' /\ TableOk'
    BY <2>1, <2>2, <2>5, DataKept DEF TableOk
  <2>7. ThreadsOk' /\ FlushOk'
    BY <2>1, <2>2, <2>6, DoneGoesOn
  <2> QED
    BY <2>6, <2>7 DEF StoreInv
<1> QED
  BY <1>1, <1>2

\* The holder goes to a step in the middle of a flush.
LEMMA GoesToPoint ==
    ASSUME ThreadsOk, NEW t \in Threads, thread[t].at = "script", Head(thread[t].todo).op # "end",
           NEW op \in {"flush", "fail"}, NEW i \in Nat \ {0}, thread' = Go(t, <<Op(op, {i})>>)
    PROVE  /\ ThreadsOk' /\ Head(thread'[t].todo) = Op(op, {i})
           /\ \A u \in Threads : u # t => thread'[u].at # "script"
<1> DEFINE x == Op(op, {i})
           new == <<x>> \o Tail(thread[t].todo)
<1>1. x \in AllSteps
  BY DEF AllSteps, Points, Singles, Op
<1>2. Script(thread[t].todo)
  BY SubjectOfStep
<1>3. Script(new) /\ Head(new) = x
  BY <1>1, <1>2, ScriptTakes
<1>4. thread' = [thread EXCEPT ![t].todo = new]
  BY DEF Go
<1> HIDE DEF new
<1>5. /\ ThreadsOk' /\ thread'[t].todo = new
      /\ \A u \in Threads : u # t => thread'[u].at # "script"
  BY <1>3, <1>4, GoesOn
<1> QED
  BY <1>3, <1>5

\* A flush that ends empties the table: every slot was written.
LEMMA FlushEnds ==
    ASSUME StoreInv, NEW t \in Threads, FlushStep(t), Subject(t) > Len(dirty), dirty' = <<>>,
           thread' = Done(t), UNCHANGED <<nvs, receipts>>
    PROVE  StoreInv'
<1>1. ValuesOk /\ TableOk /\ ThreadsOk /\ NothingForgotten /\ FlushedBefore(t)
  BY DEF StoreInv, FlushOk
<1>2. UNCHANGED <<ram, handed, fresh, stamp, armed>> /\ Doing(t, "flush")
  BY DEF FlushStep, retained, history
<1>3. Subject(t) \in Nat
  BY <1>1, <1>2, SubjectOfStep DEF Doing
<1>4. ValuesOk' /\ TableOk'
  BY <1>1, <1>2 DEF ValuesOk, TableOk
<1>5. NothingForgotten'
  <2> SUFFICES ASSUME NEW id \in fresh PROVE nvs[id] >= handed[id]
    BY <1>2 DEF NothingForgotten
  <2>1. ASSUME IsDirty(id) PROVE nvs[id] >= handed[id]
    <3>1. PICK j \in 1..Len(dirty) : dirty[j].id = id
      BY <1>1, <2>1, Dirty
    <3>2. j < Subject(t)
      BY <1>1, <1>3, <3>1, Dirty
    <3> QED
      BY <1>1, <1>2, <3>1, <3>2 DEF FlushedBefore
  <2> QED
    BY <1>1, <2>1 DEF NothingForgotten
<1>6. ThreadsOk' /\ FlushOk'
  BY <1>1, <1>2, <1>4, DoneGoesOn
<1> QED
  BY <1>4, <1>5, <1>6 DEF StoreInv

\* A flush writes the value of retained memory, which is no older than what
\* was handed over.
LEMMA FlushWrites ==
    ASSUME StoreInv, NEW t \in Threads, FlushStep(t), Subject(t) <= Len(dirty),
           Writes(dirty[Subject(t)].id), dirty' = dirty,
           receipts' = AddReceipt(receipts, dirty[Subject(t)], TRUE, FALSE),
           thread' = Go(t, <<Op("flush", {Subject(t) + 1})>>)
    PROVE  StoreInv'
<1>1. ValuesOk /\ TableOk /\ ThreadsOk /\ NothingForgotten /\ FlushedBefore(t)
  BY DEF StoreInv, FlushOk
<1>2. UNCHANGED <<ram, handed, fresh, stamp, armed>> /\ Doing(t, "flush")
  BY DEF FlushStep, retained, history
<1>3. PICK i \in Nat \ {0} : i = Subject(t)
  BY <1>1, <1>2, SubjectOfStep DEF Doing
<1>4. i \in 1..Len(dirty) /\ dirty[i] \in Slots /\ dirty[i].id \in Ids
  BY <1>1, <1>3, Dirty
<1>5. TableOk'
  <2>1. receipts' \in Seq(AnyReceipt)
    BY <1>1, <1>3, <1>4, ReceiptAdded DEF TableOk
  <2> QED
    BY <1>1, <1>2, <2>1 DEF TableOk
<1>6. /\ nvs' = [nvs EXCEPT ![dirty[i].id] = ram[dirty[i].id]]
      /\ \A id \in Ids : nvs[id] >= handed[id] => nvs'[id] >= handed[id]
      /\ nvs'[dirty[i].id] >= handed[dirty[i].id]
  BY <1>1, <1>3, <1>4 DEF Writes, ValuesOk
<1>7. ValuesOk'
  BY <1>1, <1>2, <1>4, <1>6 DEF ValuesOk
<1>8. NothingForgotten'
  BY <1>1, <1>2, <1>6 DEF NothingForgotten, IsDirty, SlotsOf, ValuesOk
<1>9. thread[t].at = "script" /\ Head(thread[t].todo).op # "end" /\ i + 1 \in Nat \ {0}
  BY <1>2 DEF Doing
<1>10. /\ ThreadsOk' /\ Head(thread'[t].todo) = Op("flush", {i + 1})
       /\ \A u \in Threads : u # t => thread'[u].at # "script"
  BY <1>1, <1>3, <1>9, GoesToPoint
<1>11. FlushOk'
  <2> SUFFICES ASSUME NEW j \in 1..Len(dirty), j < i + 1
               PROVE  nvs'[dirty[j].id] >= handed[dirty[j].id]
    <3>a. Head(thread'[t].todo).args = {i + 1}
      BY <1>10 DEF Op
    <3>b. \A x : (CHOOSE id \in {x} : TRUE) = x
      OBVIOUS
    <3>1. Subject(t)' = i + 1
      BY <3>a, <3>b DEF Subject
    <3> QED
      BY <1>2, <1>10, <3>1 DEF FlushOk, FlushedBefore, Doing
  <2>1. CASE j = i
    BY <1>6, <2>1
  <2>2. CASE j < i
    <3>1. nvs[dirty[j].id] >= handed[dirty[j].id] /\ dirty[j].id \in Ids
      BY <1>1, <1>2, <1>3, <2>2, Dirty DEF FlushedBefore
    <3> QED
      BY <1>6, <3>1
  <2> QED
    BY <1>1, <1>3, <2>1, <2>2, Dirty
<1> QED
  BY <1>5, <1>7, <1>8, <1>10, <1>11 DEF StoreInv

\* A write that fails leaves the table from its slot on: those before it are in flash.
LEMMA FlushFails ==
    ASSUME StoreInv, NEW t \in Threads, FlushStep(t), Subject(t) <= Len(dirty),
           dirty' = AfterFailure(Subject(t)), UNCHANGED <<nvs, receipts>>, thread' = Go(t, FailAll)
    PROVE  StoreInv'
<1>1. ValuesOk /\ TableOk /\ ThreadsOk /\ NothingForgotten /\ FlushedBefore(t)
  BY DEF StoreInv, FlushOk
<1>2. UNCHANGED <<ram, handed, fresh, stamp, armed>> /\ Doing(t, "flush")
  BY DEF FlushStep, retained, history
<1>3. PICK i \in Nat \ {0} : i = Subject(t)
  BY <1>1, <1>2, SubjectOfStep DEF Doing
<1>4. Len(dirty) \in Nat /\ i \in 1..Len(dirty)
  BY <1>1, <1>3, Dirty
<1>5. /\ dirty' \in Seq(Slots) /\ Len(dirty') = Len(dirty) - i + 1
      /\ \A k \in 1..(Len(dirty) - i + 1) : dirty'[k] = dirty[i + k - 1]
  BY <1>1, <1>3, <1>4, SubSeqProperties DEF TableOk, AfterFailure
<1>6. ValuesOk' /\ TableOk'
  BY <1>1, <1>2, <1>5 DEF ValuesOk, TableOk
<1>7. NothingForgotten'
  <2> SUFFICES ASSUME NEW id \in fresh, IsDirty(id) PROVE nvs[id] >= handed[id] \/ IsDirty(id)'
    BY <1>1, <1>2 DEF NothingForgotten
  <2>1. PICK j \in 1..Len(dirty) : dirty[j].id = id
    BY <1>1, Dirty
  <2>2. CASE j < i
    BY <1>1, <1>2, <1>3, <2>1, <2>2 DEF FlushedBefore
  <2>3. CASE j >= i
    <3>1. j - i + 1 \in 1..Len(dirty') /\ i + (j - i + 1) - 1 = j
      BY <1>4, <1>5, <2>3
    <3>2. dirty'[j - i + 1].id = id
      BY <1>5, <2>1, <3>1
    <3> QED
      BY <3>1, <3>2 DEF IsDirty, SlotsOf
  <2> QED
    BY <1>4, <2>2, <2>3
<1>8. /\ ThreadsOk' /\ Head(thread'[t].todo) = Op("fail", {1})
      /\ \A u \in Threads : u # t => thread'[u].at # "script"
  <2>1. /\ thread[t].at = "script" /\ Head(thread[t].todo).op # "end" /\ 1 \in Nat \ {0}
        /\ thread' = Go(t, <<Op("fail", {1})>>)
    BY <1>2 DEF Doing, FailAll
  <2> QED
    BY <1>1, <2>1, GoesToPoint
<1>9. FlushOk'
  <2>1. Head(thread'[t].todo).op # "flush"
    BY <1>8 DEF Op
  <2> QED
    BY <1>8, <2>1, NoFlush
<1> QED
  BY <1>6, <1>7, <1>8, <1>9 DEF StoreInv

\* Where NVS does not mount, or a failed receipt is written, the table stays.
LEMMA FailsKeep ==
    ASSUME StoreInv, NEW t \in Threads, Doing(t, "flush") \/ Doing(t, "fail"),
           UNCHANGED <<ram, nvs, handed, fresh, stamp, dirty, armed>>, receipts' \in Seq(AnyReceipt),
           NEW i \in Nat \ {0}, thread' = Go(t, <<Op("fail", {i})>>)
    PROVE  StoreInv'
<1>1. ValuesOk /\ TableOk /\ ThreadsOk /\ NothingForgotten
  BY DEF StoreInv
<1>2. ValuesOk' /\ NothingForgotten' /\ TableOk'
  BY <1>1, DataKept DEF TableOk
<1>3. /\ ThreadsOk' /\ Head(thread'[t].todo) = Op("fail", {i})
      /\ \A u \in Threads : u # t => thread'[u].at # "script"
  BY <1>1, GoesToPoint DEF Doing
<1>4. FlushOk'
  <2>1. Head(thread'[t].todo).op # "flush"
    BY <1>3 DEF Op
  <2> QED
    BY <1>3, <2>1, NoFlush
<1> QED
  BY <1>2, <1>3, <1>4 DEF StoreInv

\* Every way a step of a flush can go.
LEMMA FlushKeeps ==
    ASSUME StoreInv, NEW t \in Threads, FlushStep(t)
    PROVE  StoreInv'
<1>1. CASE Subject(t) > Len(dirty) /\ dirty' = <<>> /\ thread' = Done(t)
           /\ UNCHANGED <<nvs, receipts>>
  BY <1>1, FlushEnds
<1>2. CASE thread' = Go(t, FailAll) /\ UNCHANGED <<nvs, receipts, dirty>>
  <2>1. UNCHANGED <<ram, handed, fresh, stamp, armed>> /\ Doing(t, "flush")
    BY DEF FlushStep, retained, history
  <2>2. receipts' \in Seq(AnyReceipt)
    BY <1>2 DEF StoreInv, TableOk
  <2>3. 1 \in Nat \ {0}
    OBVIOUS
  <2> QED
    BY <1>2, <2>1, <2>2, <2>3, FailsKeep DEF FailAll
<1>3. CASE Subject(t) <= Len(dirty) /\ Writes(dirty[Subject(t)].id) /\ dirty' = dirty
           /\ receipts' = AddReceipt(receipts, dirty[Subject(t)], TRUE, FALSE)
           /\ thread' = Go(t, <<Op("flush", {Subject(t) + 1})>>)
  BY <1>3, FlushWrites
<1>4. CASE Subject(t) <= Len(dirty) /\ dirty' = AfterFailure(Subject(t))
           /\ UNCHANGED <<nvs, receipts>> /\ thread' = Go(t, FailAll)
  BY <1>4, FlushFails
<1> QED
  BY <1>1, <1>2, <1>3, <1>4 DEF FlushStep, flash

\* The slots that stay get their receipts.
LEMMA FailKeeps ==
    ASSUME StoreInv, NEW t \in Threads, FailStep(t)
    PROVE  StoreInv'
<1>1. ValuesOk /\ TableOk /\ ThreadsOk /\ NothingForgotten
  BY DEF StoreInv
<1>2. UNCHANGED <<ram, nvs, handed, fresh, stamp, dirty, armed>> /\ Doing(t, "fail")
  BY DEF FailStep, retained, flash, history
<1>3. CASE thread' = Done(t) /\ receipts' = receipts
  <2>1. ValuesOk' /\ NothingForgotten' /\ TableOk'
    BY <1>1, <1>2, <1>3, DataKept DEF TableOk
  <2>2. ThreadsOk' /\ FlushOk'
    BY <1>1, <1>2, <1>3, <2>1, DoneGoesOn
  <2> QED
    BY <2>1, <2>2 DEF StoreInv
<1>4. CASE ~(Subject(t) > Len(dirty)) /\ receipts' = AddReceipt(receipts, dirty[Subject(t)], FALSE, TRUE)
           /\ thread' = Go(t, <<Op("fail", {Subject(t) + 1})>>)
  <2>1. PICK i \in Nat \ {0} : i = Subject(t)
    BY <1>1, <1>2, SubjectOfStep DEF Doing
  <2>2. dirty[i] \in Slots /\ i + 1 \in Nat \ {0}
    BY <1>1, <1>4, <2>1, Dirty
  <2>3. receipts' \in Seq(AnyReceipt)
    BY <1>1, <1>4, <2>1, <2>2, ReceiptAdded DEF TableOk
  <2> QED
    BY <1>2, <1>4, <2>1, <2>2, <2>3, FailsKeep
<1> QED
  BY <1>3, <1>4 DEF FailStep

\* An eager write that succeeds hands its value over and clears its slot; the
\* slot that takes its place is the last one.
LEMMA StoreSucceeds ==
    ASSUME StoreInv, NEW t \in Threads, StoreEager(t), Writes(Subject(t)), HandedOver(Subject(t)),
           dirty' = ClearedSlots(Subject(t)), receipts' = ClearedReceipts(Subject(t))
    PROVE  StoreInv'
<1>1. ValuesOk /\ TableOk /\ ThreadsOk /\ NothingForgotten
  BY DEF StoreInv
<1>2. UNCHANGED <<ram, stamp, armed>> /\ Doing(t, "store") /\ thread' = Done(t)
  BY DEF StoreEager, retained
<1>3. PICK id \in Ids : id = Subject(t)
  BY <1>1, <1>2, SubjectOfStep DEF Doing
<1>4. /\ nvs' = [nvs EXCEPT ![id] = ram[id]] /\ handed' = [handed EXCEPT ![id] = ram[id]]
      /\ fresh' = fresh \union {id}
  BY <1>3 DEF Writes, HandedOver
<1>5. ValuesOk'
  BY <1>1, <1>2, <1>4 DEF ValuesOk
<1>6. nvs'[id] >= handed'[id]
  BY <1>1, <1>4 DEF ValuesOk
<1>7. TableOk' /\ \A other \in Ids : other # id /\ IsDirty(other) => IsDirty(other)'
  <2>1. CASE ~IsDirty(id)
    <3>1. dirty' = dirty /\ receipts' = receipts
      BY <1>3, <2>1 DEF ClearedSlots, ClearedReceipts
    <3> QED
      BY <1>1, <1>2, <3>1 DEF TableOk, IsDirty, SlotsOf
  <2>2. CASE IsDirty(id)
    <3>1. PICK i \in 1..Len(dirty) : /\ dirty[i].id = id
                                     /\ dirty' = Front([dirty EXCEPT ![i] = Last(dirty)])
                                     /\ receipts' = AddReceipt(receipts, dirty[i], FALSE, TRUE)
      BY <1>1, <1>3, <2>2, Dirty DEF ClearedSlots, ClearedReceipts, SlotsOf
    <3> DEFINE n == Len(dirty)
               moved == [dirty EXCEPT ![i] = Last(dirty)]
    <3>2. n \in Nat /\ n >= 1 /\ Last(dirty) = dirty[n] /\ dirty[n] \in Slots /\ dirty[i] \in Slots
      BY <1>1, <3>1, Dirty DEF Last
    <3>3. moved \in Seq(Slots) /\ Len(moved) = n
          /\ \A k \in 1..n : moved[k] = IF k = i THEN dirty[n] ELSE dirty[k]
      BY <1>1, <3>1, <3>2, ExceptSeq DEF TableOk
    <3> HIDE DEF moved
    <3>4. dirty' = SubSeq(moved, 1, n - 1)
      BY <3>1, <3>3 DEF Front, moved
    <3>5. /\ dirty' \in Seq(Slots) /\ Len(dirty') = n - 1
          /\ \A k \in 1..(n - 1) : dirty'[k] = moved[k]
      BY <3>2, <3>3, <3>4, SubSeqProperties
    <3>6. TableOk'
      <4>1. receipts' \in Seq(AnyReceipt)
        BY <1>1, <3>1, <3>2, ReceiptAdded DEF TableOk
      <4> QED
        BY <1>1, <1>2, <3>5, <4>1 DEF TableOk
    <3>7. ASSUME NEW other \in Ids, other # id, IsDirty(other)
          PROVE  \E k \in 1..(n - 1) : dirty'[k].id = other
      <4>1. PICK j \in 1..n : dirty[j].id = other
        BY <1>1, <3>7, Dirty
      <4>2. j # i
        BY <3>1, <3>7, <4>1
      <4>3. CASE j < n
        BY <3>2, <3>3, <3>5, <4>1, <4>2, <4>3
      <4>4. CASE j = n
        <5>1. i \in 1..(n - 1)
          BY <3>2, <4>2, <4>4
        <5> QED
          BY <3>2, <3>3, <3>5, <4>1, <4>4, <5>1
      <4> QED
        BY <3>2, <4>3, <4>4
    <3> QED
      BY <3>5, <3>6, <3>7 DEF IsDirty, SlotsOf
  <2> QED
    BY <2>1, <2>2
<1>8. NothingForgotten'
  <2> SUFFICES ASSUME NEW other \in fresh', other # id
               PROVE  nvs'[other] >= handed'[other] \/ IsDirty(other)'
    BY <1>6 DEF NothingForgotten
  <2>1. other \in fresh /\ other \in Ids
    BY <1>1, <1>4 DEF ValuesOk
  <2>2. nvs'[other] = nvs[other] /\ handed'[other] = handed[other]
    BY <1>1, <1>4, <2>1 DEF ValuesOk
  <2> QED
    BY <1>1, <1>7, <2>1, <2>2 DEF NothingForgotten
<1>9. ThreadsOk' /\ FlushOk'
  BY <1>1, <1>2, <1>7, DoneGoesOn
<1> QED
  BY <1>5, <1>7, <1>8, <1>9 DEF StoreInv

\* An eager write that fails leaves its slot to the flushes.
LEMMA StoreKeeps ==
    ASSUME StoreInv, NEW t \in Threads, StoreEager(t)
    PROVE  StoreInv'
<1>1. CASE UNCHANGED <<nvs, dirty, receipts, history>>
  <2>1. ValuesOk /\ TableOk /\ ThreadsOk /\ NothingForgotten
    BY DEF StoreInv
  <2>2. UNCHANGED <<ram, nvs, handed, fresh, stamp, dirty, armed, receipts>> /\ Doing(t, "store")
        /\ thread' = Done(t)
    BY <1>1 DEF StoreEager, retained, history
  <2>3. ValuesOk' /\ NothingForgotten' /\ TableOk'
    BY <2>1, <2>2, DataKept DEF TableOk
  <2>4. ThreadsOk' /\ FlushOk'
    BY <2>1, <2>2, <2>3, DoneGoesOn
  <2> QED
    BY <2>3, <2>4 DEF StoreInv
<1> QED
  BY <1>1, StoreSucceeds DEF StoreEager

\* A change makes values newer than anything stored, and stores nothing.
LEMMA ChangesKeep ==
    ASSUME StoreInv, NEW ids, Changes(ids), UNCHANGED <<nvs, handed, fresh, dirty, receipts>>,
           armed' \in Nat
    PROVE  ValuesOk' /\ NothingForgotten' /\ TableOk'
<1>1. ValuesOk /\ TableOk /\ NothingForgotten
  BY DEF StoreInv
<1>2. ValuesOk'
  <2>1. stamp' = stamp + 1 /\ ram' = [id \in Ids |-> IF id \in ids THEN stamp + 1 ELSE ram[id]]
    BY DEF Changes
  <2>2. \A id \in Ids : ram'[id] \in Nat /\ ram'[id] >= ram[id] /\ ram'[id] <= stamp + 1
    BY <1>1, <2>1 DEF ValuesOk
  <2>3. ram' \in [Ids -> Nat]
    BY <2>1, <2>2
  <2>4. \A id \in Ids : handed[id] <= ram'[id] /\ nvs[id] <= stamp + 1
    BY <1>1, <2>2 DEF ValuesOk
  <2> QED
    BY <1>1, <2>1, <2>2, <2>3, <2>4 DEF ValuesOk
<1>3. NothingForgotten'
  BY <1>1 DEF NothingForgotten, IsDirty, SlotsOf
<1>4. TableOk'
  BY <1>1 DEF TableOk
<1> QED
  BY <1>2, <1>3, <1>4

\* The changes a script makes: of a value, of the model, of a session's model.
LEMMA ScriptChangesKeep ==
    ASSUME StoreInv, NEW t \in Threads, Change(t) \/ Refit(t) \/ Publish(t)
    PROVE  StoreInv'
<1>1. ValuesOk /\ TableOk /\ ThreadsOk /\ NothingForgotten
  BY DEF StoreInv
<1>2. UNCHANGED <<nvs, handed, fresh, dirty, receipts>>
  BY DEF Change, Refit, Publish, flash, history, store
<1>3. Doing(t, "touch") \/ Doing(t, "refit") \/ Doing(t, "publish")
  BY DEF Change, Refit, Publish
<1>4. armed' \in Nat
  BY <1>1 DEF Change, Refit, Publish, store, TableOk, ValuesOk
<1>5. \/ thread' = Done(t) /\ \E ids : Changes(ids)
      \/ /\ thread' = [thread EXCEPT ![t].todo = <<End>>]
         /\ UNCHANGED <<ram, stamp, armed>>
  BY Zenon DEF Change, Refit, Publish, retained
<1>6. CASE thread' = Done(t) /\ \E ids : Changes(ids)
  <2>1. ValuesOk' /\ NothingForgotten' /\ TableOk'
    BY <1>2, <1>4, <1>6, ChangesKeep
  <2>2. ThreadsOk' /\ FlushOk'
    BY <1>1, <1>3, <1>6, <2>1, DoneGoesOn
  <2> QED
    BY <2>1, <2>2 DEF StoreInv
<1>7. CASE thread' = [thread EXCEPT ![t].todo = <<End>>] /\ UNCHANGED <<ram, stamp, armed>>
  <2>1. ValuesOk' /\ NothingForgotten' /\ TableOk'
    BY <1>1, <1>2, <1>7, DataKept DEF TableOk
  <2> DEFINE s == <<End>>
  <2>2. s \in Seq(Steps) /\ s # <<>> /\ s[Len(s)] = End /\ End \in Steps /\ Head(s) = End
    BY DEF Steps
  <2>3. Script(s) /\ thread[t].at = "script"
    BY <1>3, <2>2, WholeScript DEF Doing
  <2> HIDE DEF s
  <2>4. /\ ThreadsOk' /\ thread'[t].todo = s
        /\ \A u \in Threads : u # t => thread'[u].at # "script"
    BY <1>1, <1>7, <2>3, GoesOn DEF s
  <2>5. FlushOk'
    BY <2>1, <2>2, <2>4, FlushBegins
  <2> QED
    BY <2>1, <2>4, <2>5 DEF StoreInv
<1> QED
  BY <1>5, <1>6, <1>7

\* The CRC and the end of a transaction.
LEMMA SealAndReleaseKeep ==
    ASSUME StoreInv, NEW t \in Threads, SealStep(t) \/ Release(t)
    PROVE  StoreInv'
<1>1. ValuesOk /\ TableOk /\ ThreadsOk /\ FlushOk /\ NothingForgotten
  BY DEF StoreInv
<1>2. UNCHANGED <<ram, nvs, handed, fresh, stamp, dirty, receipts>> /\ armed' \in Nat
  BY <1>1 DEF SealStep, Release, retained, flash, history, store, TableOk, Nobody
<1>3. ValuesOk' /\ NothingForgotten' /\ TableOk'
  BY <1>1, <1>2, DataKept DEF TableOk
<1>4. CASE SealStep(t)
  <2>1. Doing(t, "seal") /\ thread' = Done(t)
    BY <1>4 DEF SealStep
  <2>2. ThreadsOk' /\ FlushOk'
    BY <1>1, <1>3, <2>1, DoneGoesOn
  <2> QED
    BY <1>3, <2>2 DEF StoreInv
<1>5. CASE Release(t)
  <2> DEFINE R == [at : {"idle", "dispatch", "deliver", "clearing", "cleared"},
                   todo : Seq(AllSteps), receipt : AnyReceipt, turns : Int]
             new == [Idle EXCEPT !.at = "dispatch"]
  <2>1. Idle \in R
    BY DEF Idle, NoReceipt, AnyReceipt, Nobody
  <2>2. new \in R
    BY <2>1
  <2>3. thread' = [thread EXCEPT ![t] = new]
    BY <1>5 DEF Release
  <2> HIDE DEF new
  <2>4. ThreadsOk' /\ FlushOk'
    BY <1>1, <1>2, <2>2, <2>3, OutOfScript
  <2> QED
    BY <1>3, <2>4 DEF StoreInv
<1> QED
  BY <1>4, <1>5

\* An erase forgets nothing of this boot: nothing of it is left.
LEMMA EraseKeeps ==
    ASSUME StoreInv, NEW t \in Threads, Erase(t)
    PROVE  StoreInv'
<1>1. ValuesOk /\ TableOk /\ ThreadsOk /\ FlushOk /\ NothingForgotten
  BY DEF StoreInv
<1> DEFINE R == [at : {"idle", "script", "dispatch", "deliver", "clearing", "cleared"},
                 todo : Seq(AllSteps), receipt : AnyReceipt, turns : Int]
<1>2. thread' = [thread EXCEPT ![t].at = "cleared"] /\ \A u \in Threads : thread[u].at # "script"
  BY DEF Erase, Locked
<1>3. thread' \in [Threads -> R] /\ \A u \in Threads : thread'[u].at # "script"
  BY <1>1, <1>2 DEF ThreadsOk
<1>4. ThreadsOk' /\ FlushOk'
  BY <1>3 DEF ThreadsOk, FlushOk, FlushedBefore, Doing
<1>5. CASE UNCHANGED <<nvs, retained, store, history>>
  <2>1. UNCHANGED <<ram, nvs, handed, fresh, stamp, dirty, armed, receipts>>
    BY <1>5 DEF Erase, retained, store, history
  <2>2. ValuesOk' /\ NothingForgotten' /\ TableOk'
    BY <1>1, <2>1, DataKept DEF TableOk
  <2> QED
    BY <1>4, <2>2 DEF StoreInv
<1>6. CASE nvs' = Unset /\ ram' = Unset /\ handed' = Unset /\ fresh' = {} /\ dirty' = <<>>
           /\ armed' = Nobody /\ receipts' = <<>>
  <2>1. stamp' = stamp
    BY DEF Erase
  <2>2. ValuesOk' /\ NothingForgotten' /\ TableOk'
    BY <1>1, <1>6, <2>1 DEF ValuesOk, NothingForgotten, TableOk, Unset, Nobody
  <2> QED
    BY <1>4, <2>2 DEF StoreInv
<1> QED
  BY <1>5, <1>6 DEF Erase

\* A reset forgets the table, and what was handed to the store with it.
LEMMA BootKeeps ==
    ASSUME StoreInv, NEW keeps \in BOOLEAN, NEW pin \in BOOLEAN, Boot(keeps, pin)
    PROVE  StoreInv'
<1>1. ValuesOk /\ TableOk
  BY DEF StoreInv
<1>2. /\ nvs' = nvs /\ stamp' = stamp /\ fresh' = {} /\ dirty' = <<>> /\ armed' = Nobody
      /\ receipts' = <<>> /\ thread' = [t \in Threads |-> Idle]
  BY DEF Boot
<1>3. ram' = ram \/ ram' = nvs \/ ram' = Unset
  BY DEF Boot
<1>4. (handed' = handed /\ ram' = ram) \/ handed' = ram'
  BY DEF Boot
<1>5. Unset \in [Ids -> Nat] /\ \A id \in Ids : Unset[id] = 0
  BY DEF Unset
<1>6. ValuesOk'
  <2>1. ram' \in [Ids -> Nat] /\ \A id \in Ids : ram'[id] <= stamp
    BY <1>1, <1>3, <1>5 DEF ValuesOk
  <2>2. handed' \in [Ids -> Nat] /\ \A id \in Ids : handed'[id] <= ram'[id]
    BY <1>1, <1>4, <2>1 DEF ValuesOk
  <2> QED
    BY <1>1, <1>2, <2>1, <2>2 DEF ValuesOk
<1>7. TableOk' /\ NothingForgotten'
  BY <1>2 DEF TableOk, NothingForgotten, Nobody
<1>8. \A t \in Threads : thread'[t] = Idle /\ thread'[t].at # "script"
  BY <1>2 DEF Idle
<1> DEFINE R == [at : {"idle", "script", "dispatch", "deliver", "clearing", "cleared"},
                 todo : Seq(AllSteps), receipt : AnyReceipt, turns : Int]
<1>9. Idle \in R
  BY DEF Idle, NoReceipt, AnyReceipt, Nobody
<1>10. ThreadsOk' /\ FlushOk'
  BY <1>2, <1>8, <1>9 DEF ThreadsOk, FlushOk, FlushedBefore, Doing
<1> QED
  BY <1>6, <1>7, <1>10 DEF StoreInv

\* A step that touches neither the values nor the table nor a script.
LEMMA StoreUntouched ==
    ASSUME StoreInv,
           UNCHANGED <<ram, nvs, handed, fresh, stamp, dirty, armed, receipts, thread>>
    PROVE  StoreInv'
<1>1. ValuesOk' /\ NothingForgotten'
  BY DataKept DEF StoreInv
<1>2. TableOk' /\ ThreadsOk' /\ FlushOk'
  BY DEF StoreInv, TableOk, ThreadsOk, FlushOk, FlushedBefore, Doing, Subject
<1> QED
  BY <1>1, <1>2 DEF StoreInv

\* Every step keeps the invariant of the store.
LEMMA StoreNext == StoreInv /\ [Next]_vars => StoreInv'
<1> SUFFICES ASSUME StoreInv, [Next]_vars
             PROVE  StoreInv'
  OBVIOUS
<1>1. ASSUME NEW t \in Threads, NEW name \in menu \intersect DOMAIN Scripts, Begin(t, name)
      PROVE  StoreInv'
  BY <1>1, BeginKeeps
<1>2. ASSUME NEW t \in Threads, Operate(t)
      PROVE  StoreInv'
  BY <1>2, MarkKeeps, ForceKeeps, FlushKeeps, FailKeeps, StoreKeeps, ScriptChangesKeep,
     SealAndReleaseKeep DEF Operate
<1>3. ASSUME NEW t \in Threads, Take(t) \/ Deliver(t) \/ Barrier(t) \/ Reopen(t)
      PROVE  StoreInv'
  BY <1>3, LockFreeKeeps
<1>4. ASSUME NEW t \in Threads, Erase(t)
      PROVE  StoreInv'
  BY <1>4, EraseKeeps
<1>5. ASSUME Start \/ Stop \/ ReadCounter \/ (\E n \in 0..1 : WriteCounter(n)) \/ OtherSeal
             \/ UNCHANGED vars
      PROVE  StoreInv'
  <2>1. UNCHANGED <<ram, nvs, handed, fresh, stamp, dirty, armed, receipts, thread>>
    BY <1>5, Zenon DEF Start, Stop, ReadCounter, WriteCounter, OtherSeal, vars, retained, flash,
                       history, store
  <2> QED
    BY <2>1, StoreUntouched
<1>6. ASSUME NEW keeps \in BOOLEAN, NEW pin \in BOOLEAN, Boot(keeps, pin)
      PROVE  StoreInv'
  BY <1>6, BootKeeps
<1> QED
  BY <1>1, <1>2, <1>3, <1>4, <1>5, <1>6 DEF Next

\* What was handed to the store since the last reset is in flash or in the
\* table, for any table size, any ids, any number of callers and failures: the
\* slots a flush drops are exactly those it wrote.
THEOREM StoreForgetsNothing == Spec => []NothingForgotten
<1>1. StoreInv => NothingForgotten
  BY DEF StoreInv
<1> QED
  BY <1>1, StoreInit, StoreNext, PTL DEF Spec
=============================================================================
