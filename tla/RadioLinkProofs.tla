--------------------------- MODULE RadioLinkProofs ---------------------------
(***************************************************************************)
(* For every band, every set of strangers, every width of the PING counter *)
(* and every number of troubles: the proof of a channel is about the       *)
(* channel the radio is on, only what was proven is stored, a command      *)
(* that stands acknowledged was executed, and a transaction of the sleep   *)
(* timeout runs once and is reported whole.                                *)
(***************************************************************************)
EXTENDS RadioLink, TLAPS

Addresses == {Nobody, Peer} \cup Strangers
Links == [on : BOOLEAN, state : {"pairing", "paired"}, pairing : BOOLEAN, addr : Addresses,
          provisional : BOOLEAN, disabled : BOOLEAN]
\* The order of the search is a sequence whose length is not known here: a
\* channel may be anything.
ChanLike(c) ==
    c \in [at : {c.at}, home : {c.home}, index : {c.index}, target : {c.target}, search : BOOLEAN,
           wait : BOOLEAN, found : BOOLEAN, heard : BOOLEAN, redirecting : BOOLEAN,
           confirmed : BOOLEAN, capable : BOOLEAN, legacy : BOOLEAN]
PingLike(p) == p \in [pending : BOOLEAN, counter : {p.counter}, asked : BOOLEAN]
StoredLike(s) == s \in [addr : Addresses, channel : {s.channel}]
AskRecords == [kind : Asks \cup {"none"}, token : Nat]
DataLike(d) == d \in [result : {d.result}, token : Nat]
WomLike(w) ==
    /\ w \in [requested : BOOLEAN, ask : AskRecords, cached : BOOLEAN, done : AskRecords,
              result : {w.result}, flag : WomFlags \cup {"normal"}, pending : BOOLEAN, sent : {w.sent}]
    /\ w.sent \in [flag : Flags, token : Nat]
ControlLike(c) ==
    c \in [received : Commands \cup {"normal"}, acked : Commands \cup {"normal"}, rejected : BOOLEAN,
           rate : {c.rate}, channel : {c.channel}, ackedRate : {c.ackedRate}, echo : BOOLEAN]
OwnerAts == {"idle", "address", "channel", "settle", "redirect", "deadline", "tuned", "hop", "flag",
             "data", "seal", "send"}
OwnerLike(o) ==
    o \in [at : OwnerAts, locked : BOOLEAN, probed : BOOLEAN, flag : Flags, data : {o.data},
           channel : {o.channel}]
EsbAts == {"idle", "execute", "publish", "search", "look", "burst", "confirm", "join", "start"}
EsbLike(e) ==
    e \in [at : EsbAts, doing : {"nothing", "wom", "command"}, ask : AskRecords,
           command : Commands \cup {"normal"}, value : {e.value}, err : BOOLEAN, result : {e.result},
           current : BOOLEAN, stale : BOOLEAN]
Consoles == [at : {"idle", "forget", "assign", "write"}, then : {"idle", "assign", "write"},
             addr : Addresses]
AirLike(a) ==
    a \in [counter : {a.counter}, flag : Flags, data : {a.data}, channel : {a.channel}, to : Addresses]
RxLike(p) ==
    p \in [kind : {"none", "confirm", "normal", "metadata", "wom"} \cup Commands, counter : {p.counter},
           value : {p.value}, ask : AskRecords]
ReceiverLike(r) == r \in [channel : {r.channel}, proves : BOOLEAN, ask : AskRecords]
HistoryLike(h) ==
    h \in [proven : {h.proven}, answered : SUBSET Addresses, ran : SUBSET Nat, outcomes : {h.outcomes},
           executed : {h.executed}]

Typed ==
    /\ link \in Links /\ ChanLike(chan) /\ PingLike(ping) /\ StoredLike(stored)
    /\ ControlLike(control) /\ WomLike(wom)
    /\ OwnerLike(owner) /\ EsbLike(esb) /\ console \in Consoles
    /\ AirLike(air) /\ RxLike(rx) /\ ReceiverLike(receiver) /\ HistoryLike(history)
    /\ owner.data \in [result : {owner.data.result}, token : Nat]
    /\ air.data \in [result : {air.data.result}, token : Nat]

-----------------------------------------------------------------------------
(* The channel *)

\* The ESB thread looks for a receiver to pair with.
Pairing == esb.at \in {"search", "look", "burst"}
Locking ==
    /\ owner.at \in OwnerAts \ {"idle", "flag", "data", "seal"} => owner.locked
    /\ owner.at = "idle" => ~owner.locked
\* While the radio changes its channel nothing that is heard is an answer.
Still ==
    /\ owner.at \in {"tuned", "hop"} \/ Pairing => ~ping.pending /\ ~chan.confirmed
    /\ Pairing => link.state = "pairing" /\ owner.at # "send" /\ ~chan.found
ChannelInv == Locking /\ Still /\ ProofIsHere

-----------------------------------------------------------------------------
(* What is stored *)

\* The address is of a receiver that has answered, is the stored one already,
\* or the console is at it.
Vouched == \/ link.addr \in history.answered \cup {Nobody} \/ console # Unused
           \/ stored.addr = link.addr
\* The receiver is on a channel, and a proof is of one.
Tuning ==
    /\ receiver.channel \in Channels /\ history.proven \in Channels
    /\ rx.kind = "confirm" => rx.value \in Channels
StoreInv ==
    /\ Tuning
    /\ chan.found /\ link.provisional => Vouched
    /\ owner.at = "address" /\ link.provisional => Vouched
    /\ owner.at \in {"address", "channel"} =>
          owner.channel = stored.channel \/ Decoded(owner.channel) = chan.at

-----------------------------------------------------------------------------
(* Commands *)

AckedValue == IF control.acked = "rate" THEN control.ackedRate
              ELSE IF control.acked = "tune" THEN control.channel ELSE 0
CommandInv ==
    /\ control.acked # "normal" => <<control.acked, AckedValue>> \in history.executed
    /\ esb.doing = "command" /\ esb.current =>
          control.received = esb.command /\ Value(esb.command) = esb.value
    /\ esb.at = "publish" /\ esb.doing = "command" /\ esb.current /\ ~esb.err =>
          <<esb.command, esb.value>> \in history.executed
    /\ esb.doing # "nothing" <=> esb.at \in {"execute", "publish"}

-----------------------------------------------------------------------------
(* The transactions of the sleep timeout *)

Triple(token, flag, result) == [token |-> token, flag |-> flag, result |-> result]
Known(token, flag, result) == Triple(token, flag, result) \in history.outcomes
OutcomeInv ==
    /\ wom.pending => wom.cached
    /\ wom.cached => Known(wom.done.token, wom.flag, wom.result)
    /\ esb.at = "publish" /\ esb.doing = "wom" =>
          Known(esb.ask.token, IF esb.err THEN "error" ELSE "result", esb.result)
    /\ owner.at = "send" /\ owner.flag \in WomFlags =>
          Known(owner.data.token, owner.flag, owner.data.result)
    /\ OutcomeIsWhole

\* The receiver asks for one transaction after the other.
Later(ask, token) == ask.token >= token /\ (ask.kind # "none" => ask.token > token)
Tokens ==
    /\ \A t \in history.ran : t <= wom.ask.token
    /\ wom.ask.token <= receiver.ask.token
    /\ receiver.ask.kind # "none" => receiver.ask.token > 0
    /\ wom.ask.token = receiver.ask.token /\ receiver.ask.kind # "none" => wom.ask = receiver.ask
    /\ rx.kind = "wom" => /\ wom.ask.token <= rx.ask.token /\ rx.ask.token <= receiver.ask.token
                          /\ rx.ask.kind # "none"
                          /\ wom.ask.token = rx.ask.token => wom.ask = rx.ask
                          /\ receiver.ask.token = rx.ask.token /\ receiver.ask.kind # "none" => receiver.ask = rx.ask
\* what a PING carried, as long as it can be answered
OnAir ==
    /\ air # NoPing => /\ air.counter = ping.counter
                       /\ wom.sent.flag \in WomFlags => wom.sent = [flag |-> air.flag, token |-> air.data.token]
    /\ rx.kind = "normal" /\ rx.counter = ping.counter /\ wom.sent.flag \in WomFlags
          => Later(receiver.ask, wom.sent.token)
    /\ wom.sent.flag \in WomFlags => wom.sent.token <= receiver.ask.token
    /\ owner.at = "send" /\ owner.flag \in WomFlags => owner.data.token <= receiver.ask.token
\* an entry into sleep or a clearing of the timeout
Acts == wom.ask.kind \in {"clear", "enter"}
Once ==
    /\ esb.doing = "wom" /\ esb.current => wom.requested /\ esb.ask = wom.ask
    /\ wom.cached => wom.flag \in WomFlags /\ wom.done.token <= wom.ask.token
    /\ wom.pending => wom.cached /\ wom.done = wom.ask
    /\ wom.cached /\ wom.done = wom.ask /\ Acts => ~wom.requested
    /\ wom.requested /\ wom.ask.token \in history.ran /\ Acts => esb.doing = "wom" /\ esb.current
    /\ ~wom.requested /\ wom.ask.token \in history.ran /\ Acts =>
          \/ wom.cached /\ wom.done = wom.ask
          \/ Later(receiver.ask, wom.ask.token) /\ (rx.kind = "wom" => rx.ask.token > wom.ask.token)
TransactionInv == Tokens /\ OnAir /\ Once

-----------------------------------------------------------------------------
(* Types *)

\* The values that variables are reset to have their types.
LEMMA Constants ==
    /\ NoAsk \in AskRecords /\ WomLike(NoWom) /\ AirLike(NoPing) /\ RxLike(NoPong)
    /\ Nobody \in Addresses /\ Peer \in Addresses
    /\ NoPing.data \in [result : {NoPing.data.result}, token : Nat]
<1>1. NoAsk \in AskRecords
  BY DEF NoAsk, AskRecords, Asks
<1>2. Unsent \in [flag : Flags, token : Nat] /\ NoData \in [result : {NoData.result}, token : Nat]
  BY DEF Unsent, Flags, NoData
<1>3. WomLike(NoWom)
  BY <1>1, <1>2 DEF WomLike, NoWom, WomFlags
<1>4. AirLike(NoPing)
  BY DEF AirLike, NoPing, Addresses, Flags
<1>5. RxLike(NoPong)
  BY <1>1 DEF RxLike, NoPong
<1> QED
  BY <1>1, <1>2, <1>3, <1>4, <1>5 DEF Addresses, NoPing

\* Closing the radio and dropping the proof keep the types of session and channel.
LEMMA ClosedTyped ==
    ASSUME NEW l \in Links, NEW c, ChanLike(c)
    PROVE  /\ Closed(l) \in Links
           /\ Forgotten(l) \in Links
           /\ ChanLike(Unproven(c))
           /\ ChanLike(ClosedChan(c, l))
           /\ ChanLike([ClosedChan(c, l) EXCEPT !.capable = FALSE])
           /\ \A ch : /\ ChanLike([Unproven(c) EXCEPT !.at = ch])
                      /\ ChanLike([ClosedChan(c, l) EXCEPT !.at = ch])
                      /\ ChanLike([Unproven(ClosedChan(c, l)) EXCEPT !.at = ch])
<1>1. Closed(l) \in Links
  BY DEF Closed, Links, Addresses
<1>2. Forgotten(l) \in Links
  BY <1>1 DEF Forgotten, Links, Addresses
<1>3. \A d : ChanLike(d) => ChanLike(Unproven(d)) /\ \A ch : ChanLike([d EXCEPT !.at = ch])
  BY DEF ChanLike, Unproven
<1>4. ChanLike(ClosedChan(c, l))
  <2>1. ChanLike(Unproven(c))
    BY <1>3
  <2>2. l.provisional \in BOOLEAN
    BY DEF Links
  <2> QED
    BY <2>1, <2>2 DEF ClosedChan, ChanLike
<1>5. ChanLike([ClosedChan(c, l) EXCEPT !.capable = FALSE])
  BY <1>4 DEF ChanLike
<1> QED
  BY <1>1, <1>2, <1>3, <1>4, <1>5

\* How a session begins, closed or opened anew.
Begun(e, h) ==
    /\ link' \in Links /\ ChanLike(chan') /\ PingLike(ping') /\ EsbLike(esb') /\ HistoryLike(history')
    /\ link.state = "pairing" => link'.state = "pairing"
    /\ ~chan'.confirmed /\ ~chan'.found
    /\ ~ping'.pending /\ ping'.counter = ping.counter
    /\ wom' = NoWom /\ air' = NoPing /\ rx' = NoPong
    /\ esb' = [Outdated(e, "wom") EXCEPT !.stale = TRUE]
    /\ history' = [h EXCEPT !.answered = {}, !.ran = {}]

\* What was taken is outdated, and nothing else of the thread changes.
LEMMA OutdatedIs ==
    ASSUME NEW e, EsbLike(e), NEW what
    PROVE  /\ EsbLike(Outdated(e, what))
           /\ EsbLike([Outdated(e, what) EXCEPT !.stale = TRUE])
           /\ \A f \in {Outdated(e, what), [Outdated(e, what) EXCEPT !.stale = TRUE]} :
                 /\ f.at = e.at /\ f.doing = e.doing /\ f.ask = e.ask /\ f.command = e.command
                 /\ f.value = e.value /\ f.err = e.err /\ f.result = e.result
                 /\ f.current <=> e.current /\ e.doing # what
<1>1. e.current \in BOOLEAN
  BY DEF EsbLike
<1>2. (e.current /\ e.doing # what) \in BOOLEAN
  BY <1>1
<1> QED
  BY <1>1, <1>2 DEF EsbLike, Outdated

\* A session, closed or opened, begins with nothing proven, heard or outstanding.
LEMMA Begins ==
    ASSUME Typed, NEW l \in Links, NEW c, ChanLike(c), NEW e, EsbLike(e), NEW h, HistoryLike(h),
           link.state = "pairing" => l.state = "pairing", ~c.confirmed, ~c.found, Session(l, c, e, h)
    PROVE  Begun(e, h)
<1>1. PingLike(ping') /\ ~ping'.pending /\ ping'.counter = ping.counter
  BY DEF Session, Typed, PingLike
<1>2. HistoryLike(history')
  BY DEF Session, HistoryLike
<1>3. EsbLike(esb')
  BY OutdatedIs DEF Session
<1> QED
  BY <1>1, <1>2, <1>3 DEF Session, Begun

\* So does each of the lifecycle functions, from whatever state it is called in.
LEMMA Restarts ==
    ASSUME Typed, NEW e, EsbLike(e), NEW h, HistoryLike(h), NEW l \in Links, l.state = link.state,
           NEW ch, NEW on \in BOOLEAN,
           \/ h = history /\ Deinitialize(l, e)
           \/ h = history /\ e = esb /\ Reopened(on, l, ch)
           \/ Reinitialize(ch, e, h)
           \/ h = history /\ Initialize(e)
    PROVE  Begun(e, h)
<1>1. link \in Links /\ ChanLike(chan)
  BY DEF Typed
<1>2. \A d, x : ChanLike(d) => /\ ~Unproven(d).confirmed /\ ~Unproven(d).found
                               /\ ~[Unproven(d) EXCEPT !.at = x].confirmed /\ ~[Unproven(d) EXCEPT !.at = x].found
  BY DEF ChanLike, Unproven
<1>3. \A d, x : \A m \in Links : ChanLike(d) =>
         /\ ~ClosedChan(d, m).confirmed /\ ~ClosedChan(d, m).found
         /\ ~[ClosedChan(d, m) EXCEPT !.at = x].confirmed /\ ~[ClosedChan(d, m) EXCEPT !.at = x].found
  <2> SUFFICES ASSUME NEW m \in Links, NEW d, NEW x, ChanLike(d)
               PROVE  /\ ~ClosedChan(d, m).confirmed /\ ~ClosedChan(d, m).found
                      /\ ~[ClosedChan(d, m) EXCEPT !.at = x].confirmed /\ ~[ClosedChan(d, m) EXCEPT !.at = x].found
    OBVIOUS
  <2>1. ChanLike(Unproven(d)) /\ ~Unproven(d).confirmed /\ ~Unproven(d).found
    BY ClosedTyped, <1>2, <1>1
  <2> QED
    BY <2>1 DEF ClosedChan, ChanLike
<1>4. \A m \in Links : m.state = "pairing" => /\ Closed(m).state = "pairing"
                                             /\ \A b \in BOOLEAN : [Closed(m) EXCEPT !.on = b].state = "pairing"
  BY DEF Closed, Links
<1>5. \A m \in Links, b \in BOOLEAN : [m EXCEPT !.on = b] \in Links /\ [m EXCEPT !.on = b].state = m.state
  BY DEF Links
<1>6. \A d, x : \A m \in Links : ChanLike(d) /\ (link.state = "pairing" => m.state = "pairing")
         /\ Opens(m, d, x, e, h) => Begun(e, h)
  <2> SUFFICES ASSUME NEW m \in Links, NEW d, NEW x, ChanLike(d), link.state = "pairing" => m.state = "pairing",
                      Opens(m, d, x, e, h)
               PROVE  Begun(e, h)
    OBVIOUS
  <2>1. CASE Session([m EXCEPT !.on = TRUE], [Unproven(d) EXCEPT !.at = Decoded(x)], e, h)
    <3>1. ChanLike([Unproven(d) EXCEPT !.at = Decoded(x)])
      BY ClosedTyped
    <3> QED
      BY <1>2, <1>5, <2>1, <3>1, Begins
  <2>2. CASE Session(Closed(m), ClosedChan(d, m), e, h)
    <3>1. Closed(m) \in Links /\ ChanLike(ClosedChan(d, m))
      BY ClosedTyped
    <3> QED
      BY <1>3, <1>4, <2>2, <3>1, Begins
  <2> QED
    BY <2>1, <2>2 DEF Opens
<1>7. CASE h = history /\ Deinitialize(l, e)
  <2>1. Closed(l) \in Links /\ ChanLike(ClosedChan(chan, l))
    BY <1>1, ClosedTyped
  <2> QED
    BY <1>1, <1>3, <1>4, <1>7, <2>1, Begins DEF Deinitialize
<1>8. CASE h = history /\ e = esb /\ Reopened(on, l, ch)
  <2>1. /\ [Closed(l) EXCEPT !.on = on] \in Links
        /\ ChanLike(ClosedChan(chan, l)) /\ ChanLike([ClosedChan(chan, l) EXCEPT !.at = Decoded(ch)])
    BY <1>1, <1>5, ClosedTyped
  <2>2. CASE on
    BY <1>1, <1>3, <1>4, <1>8, <2>1, <2>2, Begins DEF Reopened
  <2>3. CASE ~on
    BY <1>1, <1>3, <1>4, <1>8, <2>1, <2>3, Begins DEF Reopened
  <2> QED
    BY <2>2, <2>3
<1>9. \A x : Reinitialize(x, e, h) => Begun(e, h)
  BY <1>1, <1>4, <1>6, ClosedTyped DEF Reinitialize
<1>10. CASE h = history /\ Initialize(e)
  BY <1>1, <1>6, <1>9, <1>10 DEF Initialize
<1> QED
  BY <1>7, <1>8, <1>9, <1>10

-----------------------------------------------------------------------------
(* What is heard *)

\* what a PONG that answers does to the channel
LEMMA ProofIs ==
    ASSUME Typed
    PROVE  /\ ChanLike(AfterProof(rx)) /\ ChanLike(Heard(rx))
           /\ \A c \in {AfterProof(rx), Heard(rx)} :
                 /\ c.at = chan.at /\ c.found = chan.found
                 /\ c.confirmed <=> chan.confirmed \/ rx.kind = "confirm"
<1>1. ChanLike(chan) /\ ping.asked \in BOOLEAN /\ chan.legacy \in BOOLEAN /\ chan.capable \in BOOLEAN
  BY DEF Typed, ChanLike, PingLike
<1>2. (chan.legacy \/ (ping.asked /\ ~chan.capable)) \in BOOLEAN
  BY <1>1
<1>3. /\ ChanLike(AfterProof(rx)) /\ AfterProof(rx).at = chan.at /\ AfterProof(rx).found = chan.found
      /\ AfterProof(rx).confirmed <=> chan.confirmed \/ rx.kind = "confirm"
  <2>1. CASE rx.kind = "confirm"
    BY <1>1, <2>1 DEF AfterProof, ChanLike
  <2>2. CASE rx.kind # "confirm"
    BY <1>1, <1>2, <2>2 DEF AfterProof, ChanLike
  <2> QED
    BY <2>1, <2>2
<1>4. /\ ChanLike(Heard(rx)) /\ Heard(rx).at = AfterProof(rx).at /\ Heard(rx).found = AfterProof(rx).found
      /\ Heard(rx).confirmed = AfterProof(rx).confirmed
  <2> HIDE DEF AfterProof
  <2> QED
    BY <1>3 DEF Heard, ChanLike
<1> QED
  BY <1>3, <1>4

LEMMA AdvertisedIs ==
    ASSUME Typed
    PROVE  /\ HistoryLike(Advertised(rx))
           /\ Advertised(rx).proven = IF Answers(rx) /\ rx.kind = "confirm" THEN rx.value ELSE history.proven
           /\ \A h \in {Advertised(rx)} : /\ h.answered = history.answered /\ h.ran = history.ran
                                          /\ h.outcomes = history.outcomes /\ h.executed = history.executed
BY DEF Typed, HistoryLike, Advertised

LEMMA AnsweredIs ==
    ASSUME Typed, NEW r \in SUBSET Nat
    PROVE  /\ HistoryLike(Answered(rx, r))
           /\ \A h \in {Answered(rx, r)} :
                 /\ h.proven = Advertised(rx).proven /\ h.answered = history.answered \cup {link.addr}
                 /\ h.ran = r /\ h.outcomes = history.outcomes /\ h.executed = history.executed
<1>1. link.addr \in Addresses
  BY DEF Typed, Links
<1> QED
  BY <1>1, AdvertisedIs DEF Answered, HistoryLike

\* What all the accepted PONGs have in common.
Hearing(restarted) ==
    /\ ping.pending /\ rx.counter = ping.counter
    /\ ~ping'.pending /\ ping'.counter = ping.counter /\ PingLike(ping')
    /\ link' \in Links /\ link'.addr = link.addr /\ link'.provisional = link.provisional
    /\ ChanLike(chan') /\ chan'.at = chan.at
    /\ chan'.confirmed => history'.proven = chan.at
    /\ history'.proven = Advertised(rx).proven
    /\ HistoryLike(history') /\ history'.answered = history.answered \cup {link.addr}
    /\ history'.outcomes = history.outcomes
    /\ rx' = NoPong
    /\ UNCHANGED <<stored, minutes, owner, console, air, receiver>>

\* An accepted PONG that proves a channel proves the one the radio is on.
LEMMA HearingIs ==
    ASSUME Typed, ProofIsHere, NEW kind, NEW fast \in BOOLEAN, NEW restarted \in BOOLEAN,
           Hears(kind, fast, restarted), ChanLike(chan'), chan'.at = chan.at,
           chan'.confirmed = Heard(rx).confirmed, HistoryLike(history'),
           history'.answered = history.answered \cup {link.addr},
           history'.outcomes = history.outcomes, history'.proven = Advertised(rx).proven
    PROVE  Hearing(restarted)
<1>1. Answers(rx) /\ ~Elsewhere(rx) /\ ping.pending /\ rx.counter = ping.counter
  BY DEF Hears, Accepts, Answers
<1>2. ~ping'.pending /\ ping'.counter = ping.counter /\ PingLike(ping')
  BY DEF Hears, Typed, PingLike
<1>3. link' \in Links /\ link'.addr = link.addr /\ link'.provisional = link.provisional
  BY DEF Hears, Typed, Links
<1>4. chan'.confirmed => history'.proven = chan.at
  <2>1. CASE rx.kind = "confirm"
    BY <1>1, <2>1, AdvertisedIs DEF Elsewhere
  <2>2. CASE rx.kind # "confirm"
    BY <2>2, AdvertisedIs, ProofIs DEF ProofIsHere
  <2> QED
    BY <2>1, <2>2
<1> QED
  BY <1>1, <1>2, <1>3, <1>4 DEF Hears, Hearing
\* The ESB thread stays where it is; what it took may be outdated.
SameThread(e, f) ==
    /\ EsbLike(e) /\ e.at = f.at /\ e.doing = f.doing /\ e.ask = f.ask /\ e.command = f.command
    /\ e.value = f.value /\ e.err = f.err /\ e.result = f.result /\ (e.current => f.current)
Remains == SameThread(esb', esb)

LEMMA RemainsIs ==
    ASSUME Typed, NEW restarted \in BOOLEAN,
           esb' \in {esb, Esb(restarted), Outdated(esb, "wom"), Outdated(Esb(restarted), "wom"),
                     Outdated(Esb(restarted), "command"), Outdated(Outdated(esb, "wom"), "command")}
    PROVE  Remains
<1>1. EsbLike(esb) /\ SameThread(esb, esb)
  BY DEF Typed, SameThread
<1>2. \A e, what : EsbLike(e) => SameThread(Outdated(e, what), e)
  <2> SUFFICES ASSUME NEW e, NEW what, EsbLike(e)
               PROVE  SameThread(Outdated(e, what), e)
    OBVIOUS
  <2> QED
    BY OutdatedIs DEF SameThread
<1>3. \A e, f, g : SameThread(e, f) /\ SameThread(f, g) => SameThread(e, g)
  BY DEF SameThread
<1>4. SameThread(Outdated(esb, "wom"), esb)
  BY <1>1, <1>2
<1>5. SameThread(Esb(restarted), esb)
  BY <1>1, <1>4 DEF Esb
<1>6. \A e, what : SameThread(e, esb) => SameThread(Outdated(e, what), esb)
  BY <1>2, <1>3 DEF SameThread
<1>7. SameThread(esb', esb)
  BY <1>1, <1>4, <1>5, <1>6
<1> QED
  BY <1>7 DEF Remains

LEMMA WomIs ==
    ASSUME Typed, NEW restarted \in BOOLEAN
    PROVE  WomLike(Wom(restarted)) /\ Ran(restarted) \in SUBSET Nat
<1>1. WomLike(wom) /\ history.ran \in SUBSET Nat
  BY DEF Typed, HistoryLike
<1> QED
  BY <1>1, Constants DEF Wom, Ran

\* One lemma for each kind of an accepted PONG: what it changes.
LEMMA HearProofIs ==
    ASSUME Typed, ProofIsHere, NEW fast \in BOOLEAN, NEW restarted \in BOOLEAN, HearProof(fast, restarted)
    PROVE  /\ Hearing(restarted) /\ Remains /\ chan'.found = chan.found
           /\ wom' = Wom(restarted) /\ esb' = Esb(restarted) /\ control' = control
           /\ history'.ran = Ran(restarted) /\ history'.executed = history.executed
<1>1. /\ Hears("confirm", fast, restarted) /\ chan' = Heard(rx) /\ history' = Answered(rx, Ran(restarted))
      /\ wom' = Wom(restarted) /\ esb' = Esb(restarted) /\ control' = control
  BY DEF HearProof
<1>2. /\ HistoryLike(history') /\ history'.answered = history.answered \cup {link.addr}
      /\ history'.outcomes = history.outcomes /\ history'.proven = Advertised(rx).proven
      /\ history'.ran = Ran(restarted) /\ history'.executed = history.executed
  BY <1>1, WomIs, AnsweredIs
<1>3. Hearing(restarted)
  BY <1>1, <1>2, ProofIs, HearingIs
<1> QED
  BY <1>1, <1>2, <1>3, RemainsIs, ProofIs

LEMMA HearMetadataIs ==
    ASSUME Typed, ProofIsHere, NEW fast \in BOOLEAN, NEW restarted \in BOOLEAN, HearMetadata(fast, restarted)
    PROVE  /\ Hearing(restarted) /\ Remains /\ chan'.found = chan.found
           /\ wom' = Wom(restarted) /\ esb' = Esb(restarted) /\ control' = [control EXCEPT !.echo = TRUE]
           /\ history'.ran = Ran(restarted) /\ history'.executed = history.executed
<1>1. /\ Hears("metadata", fast, restarted) /\ chan' = Heard(rx) /\ history' = Answered(rx, Ran(restarted))
      /\ wom' = Wom(restarted) /\ esb' = Esb(restarted) /\ control' = [control EXCEPT !.echo = TRUE]
  BY DEF HearMetadata
<1>2. /\ HistoryLike(history') /\ history'.answered = history.answered \cup {link.addr}
      /\ history'.outcomes = history.outcomes /\ history'.proven = Advertised(rx).proven
      /\ history'.ran = Ran(restarted) /\ history'.executed = history.executed
  BY <1>1, WomIs, AnsweredIs
<1>3. Hearing(restarted)
  BY <1>1, <1>2, ProofIs, HearingIs
<1> QED
  BY <1>1, <1>2, <1>3, RemainsIs, ProofIs

LEMMA HearNormalIs ==
    ASSUME Typed, ProofIsHere, NEW fast \in BOOLEAN, NEW restarted \in BOOLEAN, HearNormal(fast, restarted)
    PROVE  /\ Hearing(restarted) /\ Remains /\ rx.kind = "normal"
           /\ \/ wom' = Wom(restarted)
              \/ wom' = Retired(Wom(restarted))
           /\ WomLike(wom')
           /\ restarted => ~esb'.current \/ esb.doing # "wom"
           /\ history'.ran = Ran(restarted)
           /\ ControlLike(control')
           /\ \/ /\ history'.executed = history.executed
                 /\ control'.received = control.received /\ control'.acked = control.acked
                 /\ esb' = Esb(restarted)
              \/ /\ control'.received = "normal" /\ control'.acked = "normal"
                 /\ history'.executed = {} /\ esb' = Outdated(Esb(restarted), "command")
           /\ control'.rate = control.rate /\ control'.channel = control.channel
           /\ control'.ackedRate = control.ackedRate
<1> DEFINE ends == ~chan.wait /\ ~chan.search
           over == ends /\ control.acked # "normal"
<1>1. /\ Hears("normal", fast, restarted)
      /\ chan' = [Heard(rx) EXCEPT !.found = @ \/ (synced' /\ chan.wait)]
      /\ wom' = IF ends THEN Retired(Wom(restarted)) ELSE Wom(restarted)
      /\ control' = [control EXCEPT !.echo = @ /\ ~ends,
                                    !.received = IF over THEN "normal" ELSE @,
                                    !.acked = IF over THEN "normal" ELSE @,
                                    !.rejected = @ /\ ~over]
      /\ esb' = IF over THEN Outdated(Esb(restarted), "command") ELSE Esb(restarted)
      /\ history' = [Answered(rx, Ran(restarted)) EXCEPT !.executed = IF over THEN {} ELSE @]
  BY DEF HearNormal
<1>2. ChanLike(Heard(rx)) /\ synced' \in BOOLEAN /\ chan.wait \in BOOLEAN /\ Heard(rx).found \in BOOLEAN
  BY <1>1, ProofIs DEF Hears, Typed, ChanLike
<1>3. ChanLike(chan') /\ chan'.at = chan.at /\ chan'.confirmed = Heard(rx).confirmed
  <2>1. (Heard(rx).found \/ (synced' /\ chan.wait)) \in BOOLEAN
    BY <1>2
  <2>2. ChanLike(chan') /\ chan'.at = Heard(rx).at /\ chan'.confirmed = Heard(rx).confirmed
    BY <1>1, <1>2, <2>1 DEF ChanLike
  <2> QED
    BY <2>2, ProofIs
<1>4. /\ HistoryLike(history') /\ history'.answered = history.answered \cup {link.addr}
      /\ history'.outcomes = history.outcomes /\ history'.proven = Advertised(rx).proven
      /\ history'.ran = Ran(restarted)
      /\ history'.executed = IF over THEN {} ELSE history.executed
  <2>1. HistoryLike(Answered(rx, Ran(restarted)))
    BY WomIs, AnsweredIs
  <2> HIDE DEF over
  <2>2. LET h == Answered(rx, Ran(restarted))
        IN  /\ HistoryLike(history') /\ history'.answered = h.answered
            /\ history'.outcomes = h.outcomes /\ history'.proven = h.proven
            /\ history'.ran = h.ran /\ history'.executed = IF over THEN {} ELSE h.executed
    BY <1>1, <2>1 DEF HistoryLike
  <2> QED
    BY <2>2, WomIs, AnsweredIs
<1>5. Hearing(restarted) /\ rx.kind = "normal"
  BY <1>1, <1>3, <1>4, HearingIs DEF Hears
<1>6. Remains
  BY <1>1, RemainsIs
<1>7. WomLike(wom')
  <2>1. WomLike(Wom(restarted))
    BY WomIs
  <2>2. \A w : WomLike(w) => WomLike(Retired(w))
    BY DEF WomLike, Retired
  <2> QED
    BY <1>1, <2>1, <2>2
<1>8. /\ ControlLike(control')
      /\ control'.received = IF over THEN "normal" ELSE control.received
      /\ control'.acked = IF over THEN "normal" ELSE control.acked
      /\ control'.rate = control.rate /\ control'.channel = control.channel
      /\ control'.ackedRate = control.ackedRate
  <2>1. ControlLike(control) /\ control.echo \in BOOLEAN /\ control.rejected \in BOOLEAN
    BY DEF Typed, ControlLike
  <2>2. (control.echo /\ ~ends) \in BOOLEAN /\ (control.rejected /\ ~over) \in BOOLEAN
    BY <2>1
  <2> HIDE DEF ends, over
  <2> QED
    BY <1>1, <2>1, <2>2 DEF ControlLike
<1>9. restarted => ~esb'.current \/ esb.doing # "wom"
  <2>1. EsbLike(esb)
    BY DEF Typed
  <2>2. restarted => (Esb(restarted).current => esb.doing # "wom")
    BY <2>1, OutdatedIs DEF Esb
  <2>3. EsbLike(Esb(restarted))
    BY <2>1, OutdatedIs DEF Esb
  <2>4. esb'.current => Esb(restarted).current
    BY <1>1, <2>3, OutdatedIs
  <2> QED
    BY <2>2, <2>4
<1> HIDE DEF over, ends
<1>10. CASE over
  BY <1>1, <1>4, <1>5, <1>6, <1>7, <1>8, <1>9, <1>10
<1>11. CASE ~over
  BY <1>1, <1>4, <1>5, <1>6, <1>7, <1>8, <1>9, <1>11
<1> QED
  BY <1>10, <1>11

LEMMA HearWomIs ==
    ASSUME Typed, ProofIsHere, NEW fast \in BOOLEAN, NEW restarted \in BOOLEAN, HearWom(fast, restarted)
    PROVE  /\ Hearing(restarted) /\ Remains /\ chan'.found = chan.found /\ rx.kind = "wom"
           /\ control' = [control EXCEPT !.echo = FALSE]
           /\ history'.ran = Ran(restarted) /\ history'.executed = history.executed
           /\ WomLike(wom')
           /\ LET w == Wom(restarted)
                  known == w.cached /\ rx.ask = w.done /\ Valid(w, rx.ask)
                  waits == w.requested /\ rx.ask = w.ask
              IN  \/ /\ known /\ wom' = [w EXCEPT !.pending = TRUE] /\ esb' = Esb(restarted)
                  \/ /\ ~known /\ waits /\ wom' = w /\ esb' = Esb(restarted)
                  \/ /\ ~known /\ ~waits /\ esb' = Outdated(esb, "wom")
                     /\ wom' = [w EXCEPT !.ask = rx.ask, !.requested = TRUE, !.pending = FALSE,
                                         !.sent = Unsent]
<1> DEFINE w == Wom(restarted)
           known == w.cached /\ rx.ask = w.done /\ Valid(w, rx.ask)
           waits == w.requested /\ rx.ask = w.ask
<1>1. /\ Hears("wom", fast, restarted) /\ chan' = Heard(rx) /\ history' = Answered(rx, Ran(restarted))
      /\ control' = [control EXCEPT !.echo = FALSE]
  BY DEF HearWom
<1>2. wom' = IF known THEN [w EXCEPT !.pending = TRUE]
             ELSE IF waits THEN w
             ELSE [w EXCEPT !.ask = rx.ask, !.requested = TRUE, !.pending = FALSE, !.sent = Unsent]
  BY Zenon DEF HearWom
<1>3. esb' = IF known \/ waits THEN Esb(restarted) ELSE Outdated(esb, "wom")
  BY Zenon DEF HearWom
<1>4. /\ HistoryLike(history') /\ history'.answered = history.answered \cup {link.addr}
      /\ history'.outcomes = history.outcomes /\ history'.proven = Advertised(rx).proven
      /\ history'.ran = Ran(restarted) /\ history'.executed = history.executed
  BY <1>1, WomIs, AnsweredIs
<1>5. Hearing(restarted) /\ rx.kind = "wom"
  BY <1>1, <1>4, ProofIs, HearingIs DEF Hears
<1>6. Remains /\ chan'.found = chan.found
  BY <1>1, <1>3, RemainsIs, ProofIs
<1>7. WomLike(wom')
  <2>1. WomLike(w) /\ rx.ask \in AskRecords /\ Unsent \in [flag : Flags, token : Nat]
    BY WomIs DEF Typed, RxLike, Unsent, Flags
  <2> HIDE DEF known, waits, w
  <2> QED
    BY <1>2, <2>1 DEF WomLike
<1> HIDE DEF known, waits
<1>8. \/ /\ known /\ wom' = [w EXCEPT !.pending = TRUE] /\ esb' = Esb(restarted)
      \/ /\ ~known /\ waits /\ wom' = w /\ esb' = Esb(restarted)
      \/ /\ ~known /\ ~waits /\ esb' = Outdated(esb, "wom")
         /\ wom' = [w EXCEPT !.ask = rx.ask, !.requested = TRUE, !.pending = FALSE, !.sent = Unsent]
  <2> HIDE DEF w
  <2> QED
    BY <1>2, <1>3
<1> QED
  BY <1>1, <1>4, <1>5, <1>6, <1>7, <1>8 DEF known, waits

LEMMA HearCommandIs ==
    ASSUME Typed, ProofIsHere, NEW fast \in BOOLEAN, NEW restarted \in BOOLEAN, HearCommand(fast, restarted)
    PROVE  /\ Hearing(restarted) /\ Remains /\ chan'.found = chan.found /\ rx.kind \in Commands
           /\ wom' = NoWom /\ (~esb'.current \/ esb.doing # "wom")
           /\ history'.ran = {} /\ history'.executed = history.executed
           /\ ControlLike(control')
           /\ \/ control' = [control EXCEPT !.echo = FALSE]
              \/ /\ Replaces(rx) /\ control' = Received(rx)
                 /\ ~esb'.current \/ esb.doing # "command"
<1>1. /\ Hears(rx.kind, fast, restarted) /\ rx.kind \in Commands /\ chan' = Heard(rx)
      /\ wom' = NoWom /\ history' = Answered(rx, {})
  BY DEF HearCommand
<1>2. /\ HistoryLike(history') /\ history'.answered = history.answered \cup {link.addr}
      /\ history'.outcomes = history.outcomes /\ history'.proven = Advertised(rx).proven
      /\ history'.ran = {} /\ history'.executed = history.executed
  BY <1>1, AnsweredIs
<1>3. Hearing(restarted)
  BY <1>1, <1>2, ProofIs, HearingIs
<1>4. Remains /\ chan'.found = chan.found
  BY <1>1, RemainsIs, ProofIs DEF HearCommand
<1>5. EsbLike(esb) /\ EsbLike(Outdated(esb, "wom")) /\ ControlLike(control)
  BY OutdatedIs DEF Typed
<1> DEFINE e == Outdated(esb, "wom")
<1>6. /\ EsbLike(e) /\ (~e.current \/ esb.doing # "wom")
      /\ e.doing = esb.doing
      /\ LET f == Outdated(e, "command")
         IN  (~f.current \/ esb.doing # "wom") /\ (~f.current \/ esb.doing # "command")
  <2>1. EsbLike(e) /\ e.doing = esb.doing /\ (~e.current \/ esb.doing # "wom")
    BY <1>5, OutdatedIs
  <2> HIDE DEF e
  <2>2. LET f == Outdated(e, "command") IN f.current => e.current /\ e.doing # "command"
    BY <2>1, OutdatedIs
  <2> QED
    BY <2>1, <2>2
<1> HIDE DEF e
<1>7. CASE Replaces(rx)
  <2>1. control' = Received(rx) /\ esb' = Outdated(e, "command")
    BY <1>7 DEF HearCommand, e
  <2>2. ControlLike(Received(rx))
    BY <1>1, <1>5 DEF Received, ControlLike
  <2>3. (~esb'.current \/ esb.doing # "wom") /\ (~esb'.current \/ esb.doing # "command")
    BY <1>6, <2>1
  <2> QED
    BY <1>1, <1>2, <1>3, <1>4, <1>7, <2>1, <2>2, <2>3
<1>8. CASE ~Replaces(rx)
  <2>1. control' = [control EXCEPT !.echo = FALSE] /\ esb' = e
    BY <1>8 DEF HearCommand, e
  <2>2. ControlLike(control')
    BY <1>5, <2>1 DEF ControlLike
  <2> QED
    BY <1>1, <1>2, <1>3, <1>4, <1>6, <2>1, <2>2
<1> QED
  BY <1>7, <1>8

-----------------------------------------------------------------------------
(* Types, step by step *)

\* Every actor keeps the types.
LEMMA HeardTyped ==
    ASSUME Typed, ProofIsHere, Interrupt
    PROVE  Typed'
<1>1. ASSUME NEW restarted \in BOOLEAN, Hearing(restarted), Remains, WomLike(wom'), ControlLike(control')
      PROVE  Typed'
  <2>1. /\ link' \in Links /\ ChanLike(chan') /\ PingLike(ping') /\ HistoryLike(history') /\ rx' = NoPong
        /\ UNCHANGED <<stored, owner, console, air, receiver>>
    BY <1>1 DEF Hearing
  <2>2. EsbLike(esb')
    BY <1>1 DEF Remains, SameThread
  <2> QED
    BY <1>1, <2>1, <2>2, Constants DEF Typed
<1>2. CASE Discard
  <2>1. ChanLike(chan') /\ HistoryLike(history') /\ rx' = NoPong
    BY <1>2, ProofIs, AdvertisedIs DEF Discard, Typed
  <2> QED
    BY <1>2, <2>1, Constants DEF Discard, Typed, remote, threads, world
<1>3. CASE Redirect
  <2>1. ChanLike(chan') /\ PingLike(ping') /\ HistoryLike(history')
    BY <1>3, AdvertisedIs DEF Redirect, Typed, ChanLike, PingLike
  <2> QED
    BY <1>3, <2>1, Constants DEF Redirect, Typed, remote, threads, world
<1>4. ASSUME NEW fast \in BOOLEAN, NEW restarted \in BOOLEAN,
             \/ HearProof(fast, restarted)
             \/ HearNormal(fast, restarted)
             \/ HearMetadata(fast, restarted)
             \/ HearWom(fast, restarted)
             \/ HearCommand(fast, restarted)
      PROVE  Typed'
  <2>1. ControlLike(control) /\ ControlLike([control EXCEPT !.echo = TRUE])
                             /\ ControlLike([control EXCEPT !.echo = FALSE])
    BY DEF Typed, ControlLike
  <2>2. WomLike(Wom(restarted))
    BY WomIs
  <2>3. CASE HearProof(fast, restarted)
    BY <1>1, <2>1, <2>2, <2>3, HearProofIs
  <2>4. CASE HearNormal(fast, restarted)
    BY <1>1, <2>4, HearNormalIs
  <2>5. CASE HearMetadata(fast, restarted)
    BY <1>1, <2>1, <2>2, <2>5, HearMetadataIs
  <2>6. CASE HearWom(fast, restarted)
    BY <1>1, <2>1, <2>6, HearWomIs
  <2>7. CASE HearCommand(fast, restarted)
    BY <1>1, <2>7, Constants, HearCommandIs
  <2> QED
    BY <1>4, <2>3, <2>4, <2>5, <2>6, <2>7
<1> QED
  BY <1>2, <1>3, <1>4 DEF Interrupt

LEMMA BegunTyped ==
    ASSUME Typed, NEW e, NEW h, Begun(e, h), StoredLike(stored'), console' \in Consoles,
           OwnerLike(owner'), owner'.data \in [result : {owner'.data.result}, token : Nat],
           control' = control, receiver' = receiver
    PROVE  Typed'
BY Constants DEF Typed, Begun

LEMMA OwnerTyped ==
    ASSUME Typed, Owner \/ Expired
    PROVE  Typed'
<1> USE DEF threads, remote, radio, medium, world
<1>1. /\ OwnerLike(owner) /\ ChanLike(chan) /\ PingLike(ping) /\ StoredLike(stored)
      /\ owner.data \in [result : {owner.data.result}, token : Nat]
  BY DEF Typed
<1>2. /\ \A pc \in OwnerAts : OwnerLike(At(pc)) /\ At(pc).data = owner.data
      /\ OwnerLike(Leave) /\ Leave.data = owner.data /\ OwnerLike(Sent) /\ Sent.data = NoData
      /\ \A pc \in OwnerAts, b \in BOOLEAN : /\ OwnerLike([At(pc) EXCEPT !.probed = b])
                                             /\ [At(pc) EXCEPT !.probed = b].data = owner.data
  BY <1>1 DEF At, Leave, Sent, OwnerLike, OwnerAts, Flags
<1>3. NoData \in [result : {NoData.result}, token : Nat]
  BY DEF NoData
<1>4. ASSUME UNCHANGED <<link, stored, control, wom, esb, console, air, receiver, history>>,
             ChanLike(chan'), PingLike(ping'), rx' \in {rx, NoPong}, OwnerLike(owner'),
             owner'.data = owner.data
      PROVE  Typed'
  BY <1>4, Constants DEF Typed
<1>5. CASE PollHeld
  <2>1. ChanLike(chan') /\ PingLike(ping') /\ OwnerLike(owner') /\ owner'.data = owner.data
    BY <1>1, <1>5 DEF PollHeld, ChanLike, PingLike, OwnerLike
  <2> QED
    BY <1>4, <1>5, <2>1 DEF PollHeld
<1>6. CASE PollFound
  <2>1. OwnerLike(owner') /\ owner'.data = owner.data
    BY <1>1, <1>6 DEF PollFound, At, OwnerLike, OwnerAts
  <2> QED
    BY <1>1, <1>4, <1>6, <2>1 DEF PollFound
<1>7. CASE StoreAddress
  <2>1. StoredLike(stored') /\ OwnerLike(owner') /\ owner'.data = owner.data
    BY <1>1, <1>2, <1>7 DEF StoreAddress, StoredLike, Typed, Links, OwnerAts
  <2> QED
    BY <1>1, <1>7, <2>1 DEF StoreAddress, Typed
<1>8. CASE StoreChannel
  <2>1. StoredLike(stored') /\ OwnerLike(owner') /\ owner'.data = owner.data
    BY <1>1, <1>2, <1>8 DEF StoreChannel, StoredLike, OwnerAts
  <2> QED
    BY <1>1, <1>8, <2>1 DEF StoreChannel, Typed
<1>9. CASE Settle
  <2>1. ChanLike(chan') /\ OwnerLike(owner') /\ owner'.data = owner.data
    BY <1>1, <1>2, <1>9 DEF Settle, ChanLike
  <2>2. link' \in Links
    <3>1. link \in Links /\ (link.pairing /\ ~link.provisional) \in BOOLEAN
      BY DEF Typed, Links
    <3> QED
      BY <1>9, <3>1 DEF Settle, Links
  <2> QED
    BY <1>1, <1>9, <2>1, <2>2 DEF Settle, Typed
<1>10. CASE PollSearch
  <2>1. OwnerLike(owner') /\ owner'.data = owner.data
    <3>1. (owner.probed /\ chan.search) \in BOOLEAN
      BY <1>1 DEF OwnerLike, ChanLike
    <3> QED
      BY <1>1, <1>10, <3>1 DEF PollSearch, At, OwnerLike, OwnerAts
  <2>2. PingLike(ping') /\ rx' \in {rx, NoPong}
    BY <1>1, <1>10 DEF PollSearch, PingLike
  <2>3. ChanLike(chan')
    <3>1. (chan.confirmed /\ chan.wait) \in BOOLEAN /\ (chan.legacy /\ chan.wait) \in BOOLEAN
      BY <1>1 DEF ChanLike
    <3> QED
      BY <1>1, <1>10, <3>1 DEF PollSearch, ChanLike
  <2> QED
    BY <1>4, <1>10, <2>1, <2>2, <2>3 DEF PollSearch
<1>11. CASE FollowRedirect
  <2>1. ChanLike(chan') /\ PingLike(ping') /\ rx' = NoPong
    BY <1>1, <1>11 DEF FollowRedirect, ChanLike, PingLike
  <2>2. OwnerLike(owner') /\ owner'.data = owner.data
    BY <1>1, <1>2, <1>11 DEF FollowRedirect, OwnerAts
  <2> QED
    BY <1>4, <1>11, <2>1, <2>2 DEF FollowRedirect
<1>12. CASE Tuned
  <2>1. ChanLike(chan') /\ OwnerLike(owner') /\ owner'.data = owner.data
    BY <1>1, <1>2, <1>12 DEF Tuned, ChanLike, OwnerAts
  <2> QED
    BY <1>1, <1>4, <1>12, <2>1 DEF Tuned
<1>13. CASE Expired
  <2>1. ChanLike(chan') /\ PingLike(ping')
    BY <1>1, <1>13 DEF Expired, HopUnproven, ChanLike, PingLike
  <2>2. OwnerLike(owner') /\ owner'.data = owner.data
    BY <1>1, <1>2, <1>13 DEF Expired, OwnerAts
  <2> QED
    BY <1>4, <1>13, <2>1, <2>2 DEF Expired
<1>14. CASE Probe \/ Wait \/ ReadFlag \/ PingDue
  <2>1. Echo \in Flags
    BY DEF Echo, Flags, Typed, WomLike, ControlLike
  <2>2. OwnerLike(owner') /\ owner'.data = owner.data
    <3>1. CASE Probe \/ Wait
      BY <1>1, <1>2, <3>1 DEF Probe, Wait, OwnerAts
    <3>2. CASE ReadFlag
      BY <1>1, <2>1, <3>2 DEF ReadFlag, OwnerAts, OwnerLike
    <3>3. CASE PingDue
      BY <1>1, <3>3 DEF PingDue, OwnerAts, OwnerLike
    <3> QED
      BY <1>14, <3>1, <3>2, <3>3
  <2> QED
    BY <1>1, <1>4, <1>14, <2>2 DEF Probe, Wait, ReadFlag, PingDue
<1>15. CASE Hop
  <2>1. ChanLike(chan') /\ rx' = NoPong
    BY <1>1, <1>15 DEF Hop, ChanLike
  <2>2. OwnerLike(owner') /\ owner'.data = owner.data
    BY <1>1, <1>2, <1>15 DEF Hop, OwnerAts
  <2> QED
    BY <1>1, <1>4, <1>15, <2>1, <2>2 DEF Hop
<1>16. CASE ReadData
  <2>1. Outcome \in [result : {Outcome.result}, token : Nat]
    BY DEF Outcome, Typed, WomLike, AskRecords
  <2>2. OwnerLike(owner') /\ owner'.data \in {Outcome, NoData}
    BY <1>1, <1>16 DEF ReadData, OwnerLike, OwnerAts
  <2> QED
    BY <1>3, <1>16, <2>1, <2>2 DEF ReadData, Typed
<1>17. CASE SealPing
  <2>1. Outcome \in [result : {Outcome.result}, token : Nat]
    BY DEF Outcome, Typed, WomLike, AskRecords
  <2>2. Masked(owner.flag) \in Flags /\ wom.flag \in Flags /\ "normal" \in Flags
    BY <1>1 DEF Masked, OwnerLike, Flags, Typed, WomLike
  <2>3. OwnerLike(Prepared(owner)) /\ Prepared(owner).data \in {owner.data, Outcome, NoData}
    BY <1>1, <2>2 DEF Prepared, OwnerLike
  <2>4. OwnerLike(owner') /\ owner'.data \in {owner.data, Outcome, NoData}
    <3>1. owner' \in {Leave, Sent, [Prepared(owner) EXCEPT !.at = "send", !.locked = TRUE]}
      BY <1>17 DEF SealPing
    <3>2. \A o : OwnerLike(o) => LET p == [o EXCEPT !.at = "send", !.locked = TRUE]
                                 IN  OwnerLike(p) /\ p.data = o.data
      BY DEF OwnerLike, OwnerAts
    <3> QED
      BY <1>2, <2>3, <3>1, <3>2
  <2> QED
    BY <1>1, <1>3, <1>17, <2>1, <2>4 DEF SealPing, Typed
<1>18. CASE SendPing
  <2>1. PingLike(ping')
    <3>1. \A n, b : b \in BOOLEAN => PingLike([pending |-> TRUE, counter |-> n, asked |-> b])
      BY DEF PingLike
    <3>2. (owner.flag = "confirm") \in BOOLEAN
      OBVIOUS
    <3>3. PingLike([ping EXCEPT !.pending = FALSE])
      BY <1>1 DEF PingLike
    <3> QED
      BY <1>18, <3>1, <3>2, <3>3 DEF SendPing
  <2>2. AirLike(air') /\ air'.data \in [result : {air'.data.result}, token : Nat]
    BY <1>1, <1>18 DEF SendPing, OwnerLike, AirLike, Typed, Links
  <2>3. WomLike(wom')
    <3>1. CASE wom' = wom
      BY <3>1 DEF Typed
    <3>2. CASE wom' = [wom EXCEPT !.sent = [flag |-> owner.flag,
                token |-> IF owner.flag \in WomFlags THEN owner.data.token ELSE 0]]
      <4>1. [flag |-> owner.flag, token |-> IF owner.flag \in WomFlags THEN owner.data.token ELSE 0]
               \in [flag : Flags, token : Nat]
        BY <1>1 DEF OwnerLike
      <4> QED
        BY <3>2, <4>1 DEF Typed, WomLike
    <3> QED
      BY <1>18, <3>1, <3>2 DEF SendPing
  <2>4. owner' = Sent /\ UNCHANGED <<link, chan, stored, control, esb, console, rx, receiver, history>>
    BY <1>18 DEF SendPing
  <2> QED
    BY <1>2, <1>3, <2>1, <2>2, <2>3, <2>4 DEF Typed
<1>19. CASE Recover
  <2>1. PICK on \in BOOLEAN : Reopened(on, link, stored.channel)
    BY <1>19 DEF Recover
  <2>2. Begun(esb, history)
    BY <2>1, Restarts DEF Typed
  <2> QED
    BY <1>1, <1>2, <1>3, <1>19, <2>2, BegunTyped DEF Recover, Typed
<1> QED
  BY <1>5, <1>6, <1>7, <1>8, <1>9, <1>10, <1>11, <1>12, <1>13, <1>14, <1>15, <1>16, <1>17, <1>18, <1>19 DEF Owner

LEMMA EsbIs ==
    ASSUME Typed
    PROVE  /\ EsbLike(Asleep) /\ Asleep.at = "idle" /\ Asleep.doing = "nothing"
           /\ \A pc \in EsbAts : LET e == To(pc)
                                 IN  EsbLike(e) /\ e.at = pc /\ e.doing = esb.doing /\ e.current = esb.current
           /\ \A b \in BOOLEAN : LET e == CommandDone(b)
                                 IN  /\ EsbLike(e) /\ e.at = "publish" /\ e.doing = esb.doing /\ e.err = b
                                     /\ e.command = esb.command /\ e.value = esb.value
                                     /\ e.current = esb.current
           /\ LET h == Executed(history)
              IN  /\ HistoryLike(h) /\ h.executed = history.executed \cup {<<esb.command, esb.value>>}
                  /\ h.proven = history.proven /\ h.outcomes = history.outcomes
<1>1. EsbLike(esb) /\ HistoryLike(history)
  BY DEF Typed
<1>2. EsbLike(Asleep) /\ Asleep.at = "idle" /\ Asleep.doing = "nothing"
  BY Constants DEF Asleep, EsbLike, EsbAts
<1>3. \A pc \in EsbAts : LET e == To(pc)
                         IN  EsbLike(e) /\ e.at = pc /\ e.doing = esb.doing /\ e.current = esb.current
  BY <1>1 DEF To, EsbLike
<1>4. \A b \in BOOLEAN : LET e == CommandDone(b)
                         IN  /\ EsbLike(e) /\ e.at = "publish" /\ e.doing = esb.doing /\ e.err = b
                             /\ e.command = esb.command /\ e.value = esb.value /\ e.current = esb.current
  BY <1>1 DEF CommandDone, EsbLike, EsbAts
<1>5. LET h == Executed(history)
      IN  /\ HistoryLike(h) /\ h.executed = history.executed \cup {<<esb.command, esb.value>>}
          /\ h.proven = history.proven /\ h.outcomes = history.outcomes
  BY <1>1 DEF Executed, HistoryLike
<1> QED
  BY <1>2, <1>3, <1>4, <1>5

\* where the pairing opens or closes the radio, and where it does not
LEMMA PairingIs ==
    ASSUME Typed, PairBegin \/ PairConfirm \/ PairStart
    PROVE  /\ UNCHANGED <<stored, control, owner, console, receiver>>
           /\ \/ \E e : EsbLike(e) /\ Begun(e, history) /\ ~Locked
                        /\ \/ PairBegin /\ e.at = "search" /\ link.state = "pairing" /\ esb.at = "idle"
                              /\ e.doing = esb.doing
                           \/ PairConfirm /\ e.at = "join" /\ e.doing = esb.doing
                           \/ PairStart /\ e = Asleep
              \/ /\ UNCHANGED <<wom, air, rx, history>> /\ chan' = chan
                 /\ link' \in {link, [link EXCEPT !.pairing = FALSE]}
                 /\ ping' \in {ping, [ping EXCEPT !.pending = FALSE]}
                 /\ \/ PairBegin /\ esb' = To("join") /\ esb.at = "idle"
                    \/ PairConfirm /\ esb' = To("start") /\ esb.at = "confirm"
                    \/ PairStart /\ esb' = Asleep /\ esb.at = "start"
<1>1. link \in Links /\ ChanLike(chan) /\ EsbLike(esb) /\ HistoryLike(history)
  BY DEF Typed
<1>2. CASE PairBegin
  <2>1. UNCHANGED <<stored, control, owner, console, receiver>> /\ esb.at = "idle" /\ link.state = "pairing"
    BY <1>2 DEF PairBegin
  <2>2. CASE link.addr # Nobody
    BY <1>2, <2>1, <2>2 DEF PairBegin
  <2>3. CASE link.addr = Nobody
    <3> DEFINE e == [To("search") EXCEPT !.current = TRUE]
    <3>1. Initialize(e) /\ ~Locked
      BY <1>2, <2>3 DEF PairBegin
    <3>2. EsbLike(e) /\ e.at = "search" /\ e.doing = esb.doing
      <4>1. EsbLike(To("search")) /\ To("search").at = "search" /\ To("search").doing = esb.doing
        BY EsbIs DEF EsbAts
      <4> QED
        BY <4>1 DEF EsbLike
    <3> HIDE DEF e
    <3>3. Begun(e, history)
      BY <1>1, <3>1, <3>2, Restarts
    <3> QED
      BY <1>2, <2>1, <3>1, <3>2, <3>3
  <2> QED
    BY <2>2, <2>3
<1>3. CASE PairConfirm
  <2> DEFINE l == [link EXCEPT !.pairing = FALSE]
             m == [Closed(l) EXCEPT !.provisional = TRUE, !.pairing = TRUE]
  <2>1. UNCHANGED <<stored, control, owner, console, receiver>> /\ esb.at = "confirm"
    BY <1>3 DEF PairConfirm
  <2>2. CASE link.disabled \/ esb.stale \/ link.addr = Nobody
    BY <1>3, <2>1, <2>2 DEF PairConfirm
  <2>3. CASE ~(link.disabled \/ esb.stale \/ link.addr = Nobody)
    <3>1. Session(m, ClosedChan(chan, l), To("join"), history) /\ ~Locked
      BY <1>3, <2>3, Zenon DEF PairConfirm
    <3>2. l \in Links /\ l.state = link.state
      BY <1>1 DEF Links
    <3>3. m \in Links /\ (link.state = "pairing" => m.state = "pairing")
      <4>1. Closed(l) \in Links /\ (l.state = "pairing" => Closed(l).state = "pairing")
        <5>1. \A k \in Links : k.state = "pairing" => Closed(k).state = "pairing"
          BY DEF Closed, Links
        <5> HIDE DEF l
        <5> QED
          BY <3>2, <1>1, <5>1, ClosedTyped
      <4> HIDE DEF l
      <4> QED
        BY <3>2, <4>1 DEF Links
    <3>4. ChanLike(ClosedChan(chan, l)) /\ ~ClosedChan(chan, l).confirmed /\ ~ClosedChan(chan, l).found
      <4> HIDE DEF l
      <4>1. ChanLike(Unproven(chan)) /\ ~Unproven(chan).confirmed /\ ~Unproven(chan).found
            /\ l.provisional \in BOOLEAN
        BY <1>1, <3>2 DEF Unproven, ChanLike, Links
      <4>2. (Unproven(chan).capable /\ ~l.provisional) \in BOOLEAN
        BY <4>1 DEF ChanLike
      <4> QED
        BY <4>1, <4>2 DEF ClosedChan, ChanLike
    <3>5. EsbLike(To("join")) /\ To("join").at = "join" /\ To("join").doing = esb.doing
      BY EsbIs DEF EsbAts
    <3> HIDE DEF m, l
    <3>6. Begun(To("join"), history)
      BY <1>1, <3>1, <3>3, <3>4, <3>5, Begins
    <3> QED
      BY <1>3, <2>1, <3>1, <3>5, <3>6
  <2> QED
    BY <2>2, <2>3
<1>4. CASE PairStart
  <2>1. UNCHANGED <<stored, control, owner, console, receiver>> /\ esb.at = "start"
    BY <1>4 DEF PairStart
  <2>2. CASE ~link.disabled /\ link.addr # Nobody /\ link.state # "pairing"
    <3>1. Initialize(Asleep) /\ ~Locked
      BY <1>4, <2>2 DEF PairStart
    <3>2. Begun(Asleep, history)
      BY <1>1, <3>1, EsbIs, Restarts
    <3> QED
      BY <1>4, <2>1, <3>1, <3>2, EsbIs
  <2>3. CASE ~(~link.disabled /\ link.addr # Nobody /\ link.state # "pairing")
    BY <1>4, <2>1, <2>3 DEF PairStart, Stays
  <2> QED
    BY <2>2, <2>3
<1> QED
  BY <1>2, <1>3, <1>4

LEMMA ForgottenIs ==
    ASSUME NEW l \in Links, NEW c, ChanLike(c)
    PROVE  /\ Forgotten(l).state = "pairing" /\ Forgotten(l).addr = Nobody
           /\ LET d == [ClosedChan(c, l) EXCEPT !.capable = FALSE] IN ~d.confirmed /\ ~d.found
<1>1. Closed(l) \in Links
  BY ClosedTyped
<1>2. Forgotten(l).state = "pairing" /\ Forgotten(l).addr = Nobody
  <2> HIDE DEF Closed
  <2> QED
    BY <1>1 DEF Forgotten, Links
<1>3. ChanLike(ClosedChan(c, l)) /\ ~ClosedChan(c, l).confirmed /\ ~ClosedChan(c, l).found
  <2>1. ChanLike(Unproven(c)) /\ ~Unproven(c).confirmed /\ ~Unproven(c).found /\ l.provisional \in BOOLEAN
    BY DEF Unproven, ChanLike, Links
  <2>2. (Unproven(c).capable /\ ~l.provisional) \in BOOLEAN
    BY <2>1 DEF ChanLike
  <2> QED
    BY <2>1, <2>2 DEF ClosedChan, ChanLike
<1>4. \A d : ChanLike(d) => LET e == [d EXCEPT !.capable = FALSE]
                            IN  e.confirmed = d.confirmed /\ e.found = d.found
  BY DEF ChanLike
<1> QED
  BY <1>2, <1>3, <1>4

\* what the execution of a command changes: itself, a session, the stored pairing
LEMMA ExecuteIs ==
    ASSUME Typed, CommandExecute
    PROVE  /\ UNCHANGED <<control, owner, console, receiver>> /\ esb.doing = "command"
           /\ \E b \in BOOLEAN, h \in {history, Executed(history)} :
                 /\ b \/ h = Executed(history)
                 /\ EsbLike(CommandDone(b)) /\ HistoryLike(h)
                 /\ \/ Begun(CommandDone(b), h) /\ ~Locked /\ StoredLike(stored')
                    \/ /\ esb' = CommandDone(b) /\ history' = h /\ UNCHANGED <<link, chan, ping, wom, air, rx>>
                       /\ \/ stored' = stored
                          \/ ~HasPair /\ stored' = [stored EXCEPT !.addr = Nobody]
<1> USE DEF remote, radio
<1>1. /\ EsbLike(esb) /\ ChanLike(chan) /\ HistoryLike(history) /\ StoredLike(stored) /\ link \in Links
  BY DEF Typed
<1>2. UNCHANGED <<control, owner, console, receiver>> /\ esb.doing = "command"
  BY DEF CommandExecute
<1>3. /\ \A b \in BOOLEAN : EsbLike(CommandDone(b))
      /\ HistoryLike(history) /\ HistoryLike(Executed(history))
  BY <1>1, EsbIs
<1>4. CASE /\ UNCHANGED <<link, chan, ping, stored, wom, air, rx>>
           /\ \/ esb' = CommandDone(FALSE) /\ history' = Executed(history)
              \/ esb' = CommandDone(TRUE) /\ history' = history
  BY <1>2, <1>3, <1>4
<1>5. CASE ~Locked /\ stored' = [stored EXCEPT !.channel = esb.value]
           /\ Reinitialize(esb.value, CommandDone(FALSE), Executed(history))
  <2>1. StoredLike(stored')
    BY <1>1, <1>5 DEF StoredLike
  <2>2. Begun(CommandDone(FALSE), Executed(history))
    BY <1>1, <1>3, <1>5, Restarts
  <2> QED
    BY <1>2, <1>3, <1>5, <2>1, <2>2
<1>6. CASE ~Locked /\ stored' = [stored EXCEPT !.addr = Nobody] /\ HasPair
           /\ Session(Forgotten(link), [ClosedChan(chan, link) EXCEPT !.capable = FALSE],
                      CommandDone(FALSE), Executed(history))
  <2>1. StoredLike(stored')
    BY <1>1, <1>6, Constants DEF StoredLike
  <2>2. Begun(CommandDone(FALSE), Executed(history))
    BY <1>1, <1>3, <1>6, ForgottenIs, Begins, ClosedTyped
  <2> QED
    BY <1>2, <1>3, <1>6, <2>1, <2>2
<1>7. CASE ~Locked /\ stored' = [stored EXCEPT !.addr = Nobody] /\ ~HasPair /\ esb' = CommandDone(FALSE)
           /\ history' = Executed(history) /\ UNCHANGED <<link, chan, ping, wom, air, rx>>
  BY <1>2, <1>3, <1>7
<1> QED
  BY <1>4, <1>5, <1>6, <1>7 DEF CommandExecute

LEMMA ExpiredIs ==
    ASSUME Typed, PollExpired
    PROVE  /\ Begun(esb, history)
           /\ owner.at = "idle" /\ UNCHANGED <<stored, control, owner, console, receiver>>
<1>1. [link EXCEPT !.pairing = FALSE] \in Links /\ [link EXCEPT !.pairing = FALSE].state = link.state
  BY DEF Typed, Links
<1> QED
  BY <1>1, Restarts DEF PollExpired, Typed

LEMMA EsbTyped ==
    ASSUME Typed, EsbThread \/ PingTimeout \/ PollExpired
    PROVE  Typed'
<1> USE DEF threads, remote, radio, medium, world
<1>1. /\ EsbLike(esb) /\ ChanLike(chan) /\ PingLike(ping) /\ HistoryLike(history) /\ WomLike(wom)
      /\ OwnerLike(owner) /\ owner.data \in [result : {owner.data.result}, token : Nat]
      /\ StoredLike(stored) /\ console \in Consoles /\ ControlLike(control) /\ link \in Links
  BY DEF Typed
<1>2. ASSUME UNCHANGED <<stored, owner, console, air, receiver>>, link' \in Links, rx' = rx,
             ChanLike(chan'), PingLike(ping'), ControlLike(control'), WomLike(wom'), EsbLike(esb'),
             HistoryLike(history')
      PROVE  Typed'
  BY <1>2 DEF Typed
<1>3. CASE WomBegin
  <2>1. EsbLike(esb')
    BY <1>1, <1>3 DEF WomBegin, Asleep, EsbLike, EsbAts, WomLike
  <2>2. HistoryLike(history')
    BY <1>1, <1>3 DEF WomBegin, HistoryLike, WomLike, AskRecords
  <2> QED
    BY <1>1, <1>2, <1>3, <2>1, <2>2 DEF WomBegin
<1>4. CASE WomExecute
  <2>1. \E err \in BOOLEAN : \E result : WomDone(err, result)
    BY <1>4 DEF WomExecute
  <2>2. EsbLike(esb')
    BY <1>1, <2>1 DEF WomDone, EsbLike, EsbAts
  <2>3. HistoryLike(history')
    BY <1>1, <2>1 DEF WomDone, HistoryLike
  <2> QED
    BY <1>1, <1>2, <1>4, <2>2, <2>3 DEF WomExecute
<1>5. CASE WomPublish
  <2>1. WomLike(wom')
    BY <1>1, <1>5 DEF WomPublish, WomLike, EsbLike, WomFlags
  <2> QED
    BY <1>1, <1>2, <1>5, <2>1, EsbIs DEF WomPublish
<1>6. CASE CommandBegin
  <2>1. EsbLike(esb')
    BY <1>1, <1>6, Constants DEF CommandBegin, Asleep, EsbLike, EsbAts, ControlLike
  <2> QED
    BY <1>1, <1>2, <1>6, <2>1 DEF CommandBegin
<1>7. CASE CommandExecute
  <2>1. UNCHANGED <<control, owner, console, receiver>>
    BY <1>7, ExecuteIs
  <2>2. ASSUME NEW b \in BOOLEAN, NEW h, HistoryLike(h), Begun(CommandDone(b), h), StoredLike(stored')
        PROVE  Typed'
    BY <1>1, <2>1, <2>2, BegunTyped
  <2>3. ASSUME NEW b \in BOOLEAN, NEW h, HistoryLike(h), esb' = CommandDone(b), history' = h, UNCHANGED <<link, chan, ping, wom, air, rx>>,
               stored' \in {stored, [stored EXCEPT !.addr = Nobody]}
        PROVE  Typed'
    <3>1. StoredLike(stored')
      BY <1>1, <2>3, Constants DEF StoredLike
    <3> QED
      BY <1>1, <2>1, <2>3, <3>1, EsbIs DEF Typed
  <2> QED
    BY <1>7, <2>2, <2>3, ExecuteIs
<1>8. CASE CommandPublish
  <2>1. ControlLike(control')
    <3>1. CASE Publishes(esb)
      <4>1. control' = [control EXCEPT !.rejected = esb.err,
                  !.acked = IF esb.err THEN @ ELSE esb.command,
                  !.ackedRate = IF ~esb.err /\ esb.command = "rate" THEN esb.value ELSE @]
        BY <1>8, <3>1 DEF CommandPublish
      <4> QED
        BY <1>1, <4>1 DEF ControlLike, EsbLike
    <3>2. CASE ~Publishes(esb)
      BY <1>1, <1>8, <3>2 DEF CommandPublish
    <3> QED
      BY <3>1, <3>2
  <2> QED
    BY <1>1, <1>2, <1>8, <2>1, EsbIs DEF CommandPublish
<1>9. CASE PairBegin \/ PairConfirm \/ PairStart
  <2>1. CASE \E e : Begun(e, history)
    BY <1>1, <1>9, <2>1, PairingIs, BegunTyped
  <2>2. CASE ~\E e : Begun(e, history)
    <3>1. /\ UNCHANGED <<stored, control, owner, console, receiver, wom, air, rx, history>> /\ chan' = chan
          /\ link' \in {link, [link EXCEPT !.pairing = FALSE]}
          /\ ping' \in {ping, [ping EXCEPT !.pending = FALSE]}
          /\ esb' \in {To("join"), To("start"), Asleep}
      BY <1>9, <2>2, PairingIs
    <3>2. link' \in Links /\ PingLike(ping')
      BY <1>1, <3>1 DEF Links, PingLike
    <3>3. EsbLike(esb')
      BY <3>1, EsbIs DEF EsbAts
    <3> QED
      BY <1>1, <1>2, <3>1, <3>2, <3>3
  <2> QED
    BY <2>1, <2>2
<1>10. CASE PairSearch
  <2>1. EsbLike(esb')
    <3>1. EsbLike(To("look"))
      BY EsbIs DEF EsbAts
    <3> QED
      BY <1>10, <3>1 DEF PairSearch, EsbLike
  <2>2. link' \in Links /\ ChanLike(chan')
    BY <1>1, <1>10 DEF PairSearch, Links, ChanLike
  <2> QED
    BY <1>1, <1>2, <1>10, <2>1, <2>2 DEF PairSearch, Stays
<1>11. CASE PairLook
  <2>1. EsbLike(esb')
    BY <1>11, EsbIs DEF PairLook, EsbAts
  <2> QED
    BY <1>1, <1>2, <1>11, <2>1 DEF PairLook
<1>12. CASE PairBurst
  <2>1. EsbLike(esb')
    BY <1>12, EsbIs DEF PairBurst, EsbAts
  <2>2. link' \in Links /\ ChanLike(chan')
    <3>1. CASE ~link.on \/ link.disabled \/ esb.stale
      BY <1>1, <1>12, <3>1 DEF PairBurst, Links
    <3>2. CASE ~(~link.on \/ link.disabled \/ esb.stale)
      <4>1. /\ chan' \in {chan, [chan EXCEPT !.at = Candidate(NextCandidate), !.index = NextCandidate]}
            /\ \E r \in Strangers \cup {Nobody, Peer} : link' = [link EXCEPT !.addr = r]
        BY <1>12, <3>2 DEF PairBurst
      <4>2. ChanLike(chan')
        BY <1>1, <4>1 DEF ChanLike
      <4>3. link' \in Links
        BY <1>1, <4>1 DEF Links, Addresses
      <4> QED
        BY <4>2, <4>3
    <3> QED
      BY <3>1, <3>2
  <2> QED
    BY <1>1, <1>2, <1>12, <2>1, <2>2 DEF PairBurst, Stays
<1>13. CASE PairJoin
  <2>1. EsbLike(esb')
    BY <1>13, EsbIs DEF PairJoin, EsbAts
  <2>2. link' \in Links
    BY <1>1, <1>13 DEF PairJoin, Links
  <2> QED
    BY <1>1, <1>2, <1>13, <2>1, <2>2 DEF PairJoin, Stays
<1>14. CASE PingTimeout
  <2>1. PingLike(ping')
    BY <1>1, <1>14 DEF PingTimeout, PingLike
  <2> QED
    BY <1>1, <1>2, <1>14, <2>1 DEF PingTimeout
<1>15. CASE PollExpired
  BY <1>1, <1>15, ExpiredIs, BegunTyped
<1> QED
  BY <1>3, <1>4, <1>5, <1>6, <1>7, <1>8, <1>9, <1>10, <1>11, <1>12, <1>13, <1>14, <1>15 DEF EsbThread

LEMMA ConsoleTyped ==
    ASSUME Typed, Console
    PROVE  Typed'
<1> USE DEF threads, remote, radio, medium, world
<1>1. /\ EsbLike(esb) /\ ChanLike(chan) /\ PingLike(ping) /\ HistoryLike(history) /\ WomLike(wom)
      /\ OwnerLike(owner) /\ owner.data \in [result : {owner.data.result}, token : Nat]
      /\ StoredLike(stored) /\ console \in Consoles /\ ControlLike(control) /\ link \in Links
  BY DEF Typed
<1>2. ASSUME NEW addr \in Addresses, NEW then \in {"assign", "write", "idle"}, ConsolePair(addr, then)
      PROVE  Typed'
  <2>1. console' \in Consoles
    BY <1>2 DEF ConsolePair, Consoles
  <2>2. CASE HasPair
    <3>1. Begun(esb, history)
      BY <1>1, <1>2, <2>2, Restarts DEF ConsolePair
    <3> QED
      BY <1>1, <1>2, <2>1, <3>1, BegunTyped DEF ConsolePair
  <2>3. CASE ~HasPair
    BY <1>2, <2>1, <2>3 DEF ConsolePair, Typed
  <2> QED
    BY <2>2, <2>3
<1>3. CASE ConsoleForget
  <2>1. console' \in Consoles
    BY <1>1, <1>3 DEF ConsoleForget, Consoles
  <2>2. link' \in Links /\ ChanLike(chan')
    BY <1>1, <1>3, Constants DEF ConsoleForget, Links, ChanLike
  <2> QED
    BY <1>3, <2>1, <2>2 DEF ConsoleForget, Typed
<1>4. CASE ConsoleAssign
  <2>1. console' \in Consoles /\ link' \in Links
    BY <1>1, <1>4 DEF ConsoleAssign, Consoles, Links
  <2> QED
    BY <1>4, <2>1 DEF ConsoleAssign, Typed
<1>5. CASE ConsoleWrite
  <2>1. console' \in Consoles /\ StoredLike(stored')
    BY <1>1, <1>5, Constants DEF ConsoleWrite, Unused, Consoles, StoredLike, Links
  <2> QED
    BY <1>5, <2>1 DEF ConsoleWrite, Typed
<1>6. ASSUME NEW b \in BOOLEAN
      PROVE  LET l == [link EXCEPT !.disabled = b] IN l \in Links /\ l.state = link.state
  BY <1>1 DEF Links
<1>7. CASE ConsoleDisable
  <2>1. Deinitialize([link EXCEPT !.disabled = TRUE], esb)
    BY <1>7 DEF ConsoleDisable
  <2>2. Begun(esb, history)
    BY <1>1, <1>6, <2>1, Restarts
  <2> QED
    BY <1>1, <1>7, <2>2, BegunTyped DEF ConsoleDisable
<1>8. CASE ConsoleEnable
  <2>1. PICK on \in BOOLEAN : Reopened(on, [link EXCEPT !.disabled = ~on], stored.channel)
    BY <1>8 DEF ConsoleEnable
  <2>2. Begun(esb, history)
    <3> DEFINE l == [link EXCEPT !.disabled = ~on]
    <3>1. l \in Links /\ l.state = link.state /\ Reopened(on, l, stored.channel)
      BY <1>6, <2>1
    <3> HIDE DEF l
    <3> QED
      BY <1>1, <2>1, <3>1, Restarts
  <2> QED
    BY <1>1, <1>8, <2>2, BegunTyped DEF ConsoleEnable
<1>9. ASSUME NEW ch, ConsoleChannel(ch)
      PROVE  Typed'
  <2>1. PICK on \in BOOLEAN : Reopened(on, link, ch)
    BY <1>9 DEF ConsoleChannel
  <2>2. Begun(esb, history)
    BY <1>1, <2>1, Restarts
  <2>3. StoredLike(stored')
    BY <1>1, <1>9 DEF ConsoleChannel, StoredLike
  <2> QED
    BY <1>1, <1>9, <2>2, <2>3, BegunTyped DEF ConsoleChannel
<1>10. ASSUME NEW m, ConsoleMinutes(m)
       PROVE  Typed'
  BY <1>10 DEF ConsoleMinutes, Typed
<1> QED
  BY <1>2, <1>3, <1>4, <1>5, <1>7, <1>8, <1>9, <1>10 DEF Console, Addresses

LEMMA WorldTyped ==
    ASSUME Typed, World
    PROVE  Typed'
<1> USE DEF threads, remote, radio, medium, world
<1>1. ReceiverLike(receiver) /\ air.counter = air.counter /\ receiver.ask \in AskRecords
  BY DEF Typed, ReceiverLike
<1>2. ASSUME NEW kind \in {"confirm", "normal", "metadata", "wom"} \cup Commands, NEW value,
             NEW ask \in AskRecords, Reply(kind, value, ask), ReceiverLike(receiver')
      PROVE  Typed'
  <2>1. RxLike(rx')
    BY <1>2 DEF Reply, RxLike
  <2> QED
    BY <1>2, <2>1, Constants DEF Reply, Typed
<1>3. CASE ReplyProof \/ ReplyMetadata \/ ReplyWom
  BY <1>1, <1>2, <1>3, Constants DEF ReplyProof, ReplyMetadata, ReplyWom
<1>4. CASE ReplyNormal
  <2>1. Reply("normal", 0, NoAsk)
    BY <1>4 DEF ReplyNormal
  <2>2. receiver' = [receiver EXCEPT !.ask.kind =
          IF air.flag \in WomFlags /\ air.data.token = receiver.ask.token THEN "none" ELSE @]
    BY <1>4 DEF ReplyNormal
  <2>3. ReceiverLike(receiver')
    BY <1>1, <2>2 DEF ReceiverLike, AskRecords
  <2> QED
    BY <1>2, <2>1, <2>3, Constants
<1>5. ASSUME NEW c \in Commands, NEW v, ReplyCommand(c, v)
      PROVE  Typed'
  BY <1>1, <1>2, <1>5, Constants DEF ReplyCommand
<1>6. ASSUME NEW kind \in Asks, NextAsk(kind)
      PROVE  Typed'
  <2>1. ReceiverLike(receiver')
    BY <1>1, <1>6 DEF NextAsk, ReceiverLike, AskRecords
  <2> QED
    BY <1>6, <2>1 DEF NextAsk, Typed
<1>7. ASSUME NEW ch, Move(ch)
      PROVE  Typed'
  <2>1. ReceiverLike(receiver')
    BY <1>1, <1>7 DEF Move, ReceiverLike
  <2> QED
    BY <1>7, <2>1 DEF Move, Typed
<1>8. CASE Hold
  BY <1>8 DEF Hold, Typed
<1> QED
  BY <1>3, <1>4, <1>5, <1>6, <1>7, <1>8 DEF World, Commands

LEMMA TypedStep == Typed /\ ProofIsHere /\ Next => Typed'
BY HeardTyped, OwnerTyped, EsbTyped, ConsoleTyped, WorldTyped DEF Next

-----------------------------------------------------------------------------
(* The channel *)

\* A thread of the ESB radio at e looks for a receiver to pair with.
Looks(e) == e.at \in {"search", "look", "burst"}

LEMMA BegunEsb ==
    ASSUME NEW e, EsbLike(e), NEW h, HistoryLike(h), Begun(e, h)
    PROVE  /\ esb'.at = e.at /\ esb'.doing = e.doing /\ esb'.ask = e.ask /\ esb'.command = e.command
           /\ esb'.value = e.value /\ esb'.err = e.err /\ esb'.result = e.result
           /\ esb'.current <=> e.current /\ e.doing # "wom"
           /\ history'.proven = h.proven /\ history'.answered = {} /\ history'.ran = {}
           /\ history'.outcomes = h.outcomes /\ history'.executed = h.executed
<1>1. /\ history'.proven = h.proven /\ history'.answered = {} /\ history'.ran = {}
      /\ history'.outcomes = h.outcomes /\ history'.executed = h.executed
  BY DEF Begun, HistoryLike
<1>2. (e.current /\ e.doing # "wom") \in BOOLEAN
  BY DEF EsbLike
<1>3. /\ esb'.at = e.at /\ esb'.doing = e.doing /\ esb'.ask = e.ask /\ esb'.command = e.command
      /\ esb'.value = e.value /\ esb'.err = e.err /\ esb'.result = e.result
      /\ esb'.current <=> e.current /\ e.doing # "wom"
  BY <1>2 DEF Begun, EsbLike, Outdated
<1> QED
  BY <1>1, <1>3

\* A session begins with no proof, so it has none of another channel.
LEMMA ChannelBegun ==
    ASSUME Typed, NEW e, EsbLike(e), NEW h, HistoryLike(h), Begun(e, h), Locking',
           Looks(e) => link.state = "pairing" /\ owner'.at # "send"
    PROVE  ChannelInv'
BY BegunEsb DEF Begun, Looks, ChannelInv, Still, Pairing, ProofIsHere

LEMMA ChannelHeard ==
    ASSUME Typed, ChannelInv, Interrupt
    PROVE  ChannelInv'
<1>1. ASSUME NEW restarted \in BOOLEAN, Hearing(restarted), Remains
      PROVE  ChannelInv'
  <2>1. owner' = owner /\ ping.pending /\ ~ping'.pending /\ chan'.at = chan.at
        /\ (chan'.confirmed => history'.proven = chan.at)
    BY <1>1 DEF Hearing
  <2>2. esb'.at = esb.at
    BY <1>1 DEF Remains, SameThread
  <2> QED
    BY <2>1, <2>2 DEF ChannelInv, Locking, Still, Pairing, ProofIsHere
<1>2. CASE Discard
  <2>1. /\ owner' = owner /\ esb' = esb /\ link' = link /\ ping' = ping
        /\ chan' = IF Answers(rx) THEN AfterProof(rx) ELSE chan
        /\ history' = Advertised(rx) /\ ~(Answers(rx) /\ Elsewhere(rx))
    BY <1>2 DEF Discard, threads
  <2>2. CASE Answers(rx)
    <3>1. ping.pending /\ chan' = AfterProof(rx)
      BY <2>1, <2>2 DEF Answers
    <3>2. chan'.at = chan.at /\ (rx.kind = "confirm" => rx.value = chan.at)
      BY <2>1, <2>2, <3>1, ProofIs DEF Elsewhere
    <3>3. chan'.confirmed => history'.proven = chan.at
      BY <2>1, <2>2, <3>1, <3>2, ProofIs, AdvertisedIs DEF ChannelInv, ProofIsHere
    <3> QED
      BY <2>1, <3>1, <3>2, <3>3 DEF ChannelInv, Locking, Still, Pairing, ProofIsHere
  <2>3. CASE ~Answers(rx)
    BY <2>1, <2>3, AdvertisedIs DEF ChannelInv, Locking, Still, Pairing, ProofIsHere
  <2> QED
    BY <2>2, <2>3
<1>3. CASE Redirect
  <2>1. owner' = owner /\ esb' = esb /\ link' = link /\ ping.pending
    BY <1>3 DEF Redirect, threads, Answers
  <2>2. ~chan'.confirmed
    BY <1>3 DEF Redirect, Typed, ChanLike
  <2> QED
    BY <2>1, <2>2 DEF ChannelInv, Locking, Still, Pairing, ProofIsHere
<1>4. Typed /\ ProofIsHere
  BY DEF ChannelInv
<1>5. ASSUME NEW fast \in BOOLEAN, NEW restarted \in BOOLEAN,
             \/ HearProof(fast, restarted)
             \/ HearNormal(fast, restarted)
             \/ HearMetadata(fast, restarted)
             \/ HearWom(fast, restarted)
             \/ HearCommand(fast, restarted)
      PROVE  Hearing(restarted) /\ Remains
  BY <1>4, <1>5, HearProofIs, HearNormalIs, HearMetadataIs, HearWomIs, HearCommandIs
<1> QED
  BY <1>1, <1>2, <1>3, <1>5 DEF Interrupt

\* The connection thread drops the proof and the outstanding PING before it changes
\* the channel, and while it changes it nothing is outstanding that could be answered.
LEMMA ChannelOwner ==
    ASSUME Typed, ChannelInv, Owner \/ Expired
    PROVE  ChannelInv'
<1> USE DEF threads, remote, radio, medium, world
<1>1. ChanLike(chan) /\ PingLike(ping) /\ OwnerLike(owner) /\ link \in Links
  BY DEF Typed
<1>2. /\ \A pc \in OwnerAts : At(pc).at = pc /\ At(pc).locked
      /\ Leave.at = "idle" /\ ~Leave.locked /\ Sent.at = "idle" /\ ~Sent.locked
      /\ \A pc \in OwnerAts, b \in BOOLEAN : [At(pc) EXCEPT !.probed = b].at = pc /\ [At(pc) EXCEPT !.probed = b].locked
  BY <1>1 DEF At, Leave, Sent, OwnerLike, OwnerAts
<1>3. ASSUME Locking', esb' = esb, link'.state = link.state, history' = history,
             chan'.confirmed => chan.confirmed /\ chan'.at = chan.at,
             chan'.found => chan.found, ping'.pending => ping.pending,
             owner'.at \in {"tuned", "hop"} => ~ping'.pending /\ ~chan'.confirmed,
             owner'.at = "send" => owner.at = "send" \/ link.state # "pairing"
      PROVE  ChannelInv'
  BY <1>3 DEF ChannelInv, Still, Pairing, ProofIsHere
<1>4. CASE PollHeld
  <2>1. owner'.at = "idle" /\ ~owner'.locked
    BY <1>1, <1>4 DEF PollHeld, Serves, ChannelInv, Locking, OwnerLike
  <2>2. chan'.confirmed = chan.confirmed /\ chan'.at = chan.at /\ chan'.found = chan.found /\ ~ping'.pending
    BY <1>1, <1>4 DEF PollHeld, ChanLike, PingLike
  <2> QED
    BY <1>3, <1>4, <2>1, <2>2 DEF PollHeld, Locking, OwnerAts
<1>5. CASE PollFound
  <2>1. owner'.at = "address" /\ owner'.locked
    BY <1>1, <1>5 DEF PollFound, At, OwnerLike, OwnerAts
  <2> QED
    BY <1>3, <1>5, <2>1 DEF PollFound, Locking, OwnerAts
<1>6. CASE StoreAddress \/ StoreChannel \/ Probe \/ Wait
  <2>1. owner' \in {Leave, At("channel"), At("settle"), At("flag")}
    BY <1>6 DEF StoreAddress, StoreChannel, Probe, Wait
  <2>2. owner'.at \in {"idle", "channel", "settle", "flag"} /\ (owner'.at = "idle" <=> ~owner'.locked)
    BY <1>2, <2>1 DEF OwnerAts
  <2> QED
    BY <1>3, <1>6, <2>2 DEF StoreAddress, StoreChannel, Probe, Wait, Locking, OwnerAts
<1>7. CASE Settle
  <2>1. link'.state = link.state
    BY <1>1, <1>7 DEF Settle, Links
  <2>2. chan'.confirmed = chan.confirmed /\ chan'.at = chan.at /\ ~chan'.found
    BY <1>1, <1>7 DEF Settle, ChanLike
  <2> QED
    BY <1>2, <1>3, <1>7, <2>1, <2>2 DEF Settle, Locking, OwnerAts
<1>8. CASE PollSearch
  <2>1. owner'.at \in {"redirect", "deadline"} /\ owner'.locked
    BY <1>1, <1>8 DEF PollSearch, At, OwnerLike
  <2>2. /\ chan'.confirmed => chan.confirmed
        /\ chan'.at = chan.at /\ (chan'.found => chan.found) /\ (ping'.pending => ping.pending)
    BY <1>1, <1>8 DEF PollSearch, ChanLike, PingLike
  <2> QED
    BY <1>3, <1>8, <2>1, <2>2 DEF PollSearch, Locking, OwnerAts
<1>9. CASE FollowRedirect
  <2>1. owner'.at \in {"tuned", "idle"} /\ (owner'.at = "idle" <=> ~owner'.locked)
    BY <1>2, <1>9 DEF FollowRedirect, OwnerAts
  <2>2. ~chan'.confirmed /\ ~chan'.found /\ ~ping'.pending
    BY <1>1, <1>9 DEF FollowRedirect, ChanLike, PingLike
  <2> QED
    BY <1>3, <1>9, <2>1, <2>2 DEF FollowRedirect, Locking, OwnerAts
<1>10. CASE Tuned
  <2>1. owner'.at = "flag" /\ owner'.locked
    BY <1>2, <1>10 DEF Tuned, OwnerAts
  <2>2. chan'.confirmed = chan.confirmed /\ chan'.found = chan.found /\ ~chan.confirmed
    BY <1>1, <1>10 DEF Tuned, ChanLike, ChannelInv, Still
  <2> QED
    BY <1>3, <1>10, <2>1, <2>2 DEF Tuned, Locking, OwnerAts
<1>11. CASE Expired
  <2>0. owner' \in {[At("flag") EXCEPT !.probed = FALSE], At("hop")}
    BY <1>11 DEF Expired
  <2>1. owner'.at \in {"flag", "hop"} /\ owner'.locked
    <3>1. LET o == [At("flag") EXCEPT !.probed = FALSE] IN o.at = "flag" /\ o.locked
      BY <1>2 DEF OwnerAts
    <3>2. At("hop").at = "hop" /\ At("hop").locked
      BY <1>2 DEF OwnerAts
    <3> QED
      BY <2>0, <3>1, <3>2
  <2>2. /\ chan'.confirmed => chan.confirmed
        /\ chan'.at = chan.at /\ chan'.found = chan.found /\ (ping'.pending => ping.pending)
    BY <1>1, <1>11 DEF Expired, HopUnproven, ChanLike, PingLike
  <2>3. owner'.at = "hop" => ~chan'.confirmed /\ ~ping'.pending
    <3>1. [At("flag") EXCEPT !.probed = FALSE].at = "flag"
      BY <1>2 DEF OwnerAts
    <3> QED
      BY <1>1, <1>11, <3>1 DEF Expired, HopUnproven, ChanLike, PingLike
  <2> QED
    BY <1>3, <1>11, <2>1, <2>2, <2>3 DEF Expired, Locking, OwnerAts
<1>12. CASE Hop
  <2>1. owner'.at = "flag" /\ owner'.locked
    BY <1>2, <1>12 DEF Hop, OwnerAts
  <2>2. chan'.confirmed = chan.confirmed /\ chan'.found = chan.found /\ ~chan.confirmed
    BY <1>1, <1>12 DEF Hop, ChanLike, ChannelInv, Still
  <2> QED
    BY <1>3, <1>12, <2>1, <2>2 DEF Hop, Locking, OwnerAts
<1>13. CASE PingDue \/ ReadFlag \/ ReadData
  <2>1. owner'.at \in {"flag", "data", "seal"}
    BY <1>1, <1>13 DEF PingDue, ReadFlag, ReadData, OwnerLike
  <2> QED
    BY <1>3, <1>13, <2>1 DEF PingDue, ReadFlag, ReadData, Locking, OwnerAts
<1>14. CASE SealPing
  <2>1. CASE owner' \in {Leave, Sent}
    BY <1>2, <1>3, <1>14, <2>1 DEF SealPing, Locking, OwnerAts
  <2>2. CASE owner' = [Prepared(owner) EXCEPT !.at = "send", !.locked = TRUE] /\ link.state # "pairing"
    <3>1. OwnerLike(Prepared(owner))
      <4>1. \A d : \A f \in Flags : OwnerLike([owner EXCEPT !.flag = f]) /\ OwnerLike([owner EXCEPT !.flag = f, !.data = d])
        BY <1>1 DEF OwnerLike
      <4>2. Masked(owner.flag) \in Flags /\ wom.flag \in Flags /\ "normal" \in Flags
        BY <1>1 DEF Masked, OwnerLike, Flags, Typed, WomLike
      <4> QED
        BY <4>1, <4>2 DEF Prepared
    <3>2. owner'.at = "send" /\ owner'.locked
      <4> HIDE DEF Prepared
      <4> QED
        BY <2>2, <3>1 DEF OwnerLike
    <3> QED
      BY <1>3, <1>14, <2>2, <3>2 DEF SealPing, Locking, OwnerAts
  <2> QED
    BY <1>14, <2>1, <2>2 DEF SealPing
<1>15. CASE SendPing
  <2>1. owner'.at = "idle" /\ ~owner'.locked /\ owner.at = "send"
    BY <1>2, <1>15 DEF SendPing
  <2> QED
    BY <1>15, <2>1 DEF SendPing, ChannelInv, Locking, Still, Pairing, ProofIsHere
<1>16. CASE Recover
  <2>1. PICK on \in BOOLEAN : Reopened(on, link, stored.channel)
    BY <1>16 DEF Recover
  <2>2. Begun(esb, history) /\ EsbLike(esb) /\ HistoryLike(history)
    BY <1>1, <2>1, Restarts DEF Typed
  <2>3. owner'.at = "idle" /\ Locking'
    BY <1>2, <1>16 DEF Recover, Locking, OwnerAts
  <2>4. Looks(esb) => link.state = "pairing"
    BY DEF Looks, ChannelInv, Still, Pairing
  <2> QED
    BY <2>2, <2>3, <2>4, ChannelBegun
<1> QED
  BY <1>4, <1>5, <1>6, <1>7, <1>8, <1>9, <1>10, <1>11, <1>12, <1>13, <1>14, <1>15, <1>16 DEF Owner

LEMMA ChannelKept ==
    ASSUME Typed, ChannelInv, owner' = owner, history'.proven = history.proven,
           chan'.confirmed => chan.confirmed /\ chan'.at = chan.at, chan'.found => chan.found,
           ping'.pending => ping.pending,
           Looks(esb)' => Looks(esb) /\ (link.state = "pairing" => link'.state = "pairing")
    PROVE  ChannelInv'
BY DEF ChannelInv, Locking, Still, Pairing, ProofIsHere, Looks

\* The ESB thread changes the channel only while it pairs, in a session of its own.
LEMMA ChannelEsb ==
    ASSUME Typed, ChannelInv, EsbThread \/ PingTimeout \/ PollExpired
    PROVE  ChannelInv'
<1> USE DEF threads, remote, radio, medium, world
<1>1. /\ EsbLike(esb) /\ ChanLike(chan) /\ PingLike(ping) /\ HistoryLike(history) /\ link \in Links
  BY DEF Typed
<1>2. Looks(esb) => link.state = "pairing" /\ owner.at # "send" /\ ~chan.confirmed /\ ~chan.found /\ ~ping.pending
  BY DEF Looks, ChannelInv, Still, Pairing
<1>3. ASSUME owner' = owner, NEW e, EsbLike(e), NEW h, HistoryLike(h), Begun(e, h), Looks(e) => Looks(esb)
      PROVE  ChannelInv'
  BY <1>2, <1>3, ChannelBegun DEF ChannelInv, Locking
<1>4. CASE WomBegin \/ WomExecute \/ WomPublish \/ CommandBegin \/ CommandPublish
  <2>1. owner' = owner /\ chan' = chan /\ ping' = ping /\ link' = link
    BY <1>4 DEF WomBegin, WomExecute, WomPublish, CommandBegin, CommandPublish
  <2>2. history'.proven = history.proven
    <3>1. CASE WomBegin
      BY <1>1, <3>1 DEF WomBegin, HistoryLike
    <3>2. CASE WomExecute
      <4>1. \E err \in BOOLEAN : \E result : WomDone(err, result)
        BY <3>2 DEF WomExecute
      <4> QED
        BY <1>1, <4>1 DEF WomDone, HistoryLike
    <3> QED
      BY <1>4, <3>1, <3>2 DEF WomPublish, CommandBegin, CommandPublish
  <2>3. ~Looks(esb')
    <3>1. CASE WomBegin
      BY <3>1 DEF WomBegin, Asleep, Looks
    <3>2. CASE WomExecute
      <4>1. \E err \in BOOLEAN : \E result : WomDone(err, result)
        BY <3>2 DEF WomExecute
      <4> QED
        BY <1>1, <4>1 DEF WomDone, EsbLike, Looks
    <3>3. CASE WomPublish \/ CommandPublish
      BY <3>3, EsbIs DEF WomPublish, CommandPublish, Looks
    <3>4. CASE CommandBegin
      BY <3>4 DEF CommandBegin, Asleep, Looks
    <3> QED
      BY <1>4, <3>1, <3>2, <3>3, <3>4
  <2> QED
    BY <2>1, <2>2, <2>3, ChannelKept DEF Looks
<1>5. CASE CommandExecute
  <2>1. owner' = owner
    BY <1>5, ExecuteIs
  <2>2. ASSUME NEW b \in BOOLEAN, NEW h \in {history, Executed(history)}, HistoryLike(h), Begun(CommandDone(b), h)
        PROVE  ChannelInv'
    BY <1>1, <1>3, <2>1, <2>2, EsbIs DEF Looks
  <2>3. ASSUME NEW b \in BOOLEAN, NEW h \in {history, Executed(history)}, esb' = CommandDone(b), history' = h,
               UNCHANGED <<link, chan, ping>>
        PROVE  ChannelInv'
    BY <2>1, <2>3, EsbIs, ChannelKept DEF Looks
  <2> QED
    BY <1>5, <2>2, <2>3, ExecuteIs
<1>6. CASE PairBegin \/ PairConfirm \/ PairStart
  <2>1. owner' = owner
    BY <1>6, PairingIs
  <2>2. ASSUME NEW e, EsbLike(e), Begun(e, history), e.at = "search", link.state = "pairing", ~Locked
        PROVE  ChannelInv'
    BY <1>1, <2>1, <2>2, ChannelBegun DEF Locked, ChannelInv, Locking, OwnerAts
  <2>3. ASSUME NEW e, EsbLike(e), Begun(e, history), ~Looks(e)
        PROVE  ChannelInv'
    BY <1>1, <1>3, <2>1, <2>3
  <2>4. CASE /\ UNCHANGED <<wom, air, rx, history>> /\ chan' = chan
             /\ link' \in {link, [link EXCEPT !.pairing = FALSE]}
             /\ ping' \in {ping, [ping EXCEPT !.pending = FALSE]}
             /\ \/ esb' = To("join") /\ esb.at = "idle"
                \/ esb' = To("start") /\ esb.at = "confirm"
                \/ esb' = Asleep /\ esb.at = "start"
    <3>1. ~Looks(esb')
      BY <2>4, EsbIs DEF Looks, EsbAts
    <3>2. ping'.pending => ping.pending
      BY <1>1, <2>4 DEF PingLike
    <3> QED
      BY <2>1, <2>4, <3>1, <3>2, ChannelKept DEF Looks
  <2> QED
    BY <1>6, <2>2, <2>3, <2>4, PairingIs, EsbIs DEF Looks
<1>7. CASE PairSearch \/ PairLook
  <2>1. owner' = owner /\ ping' = ping /\ history' = history /\ Looks(esb)
    BY <1>7 DEF PairSearch, PairLook, Stays, Looks
  <2>2. chan'.at = chan.at /\ chan'.confirmed = chan.confirmed /\ chan'.found = chan.found /\ link'.state = link.state
    BY <1>1, <1>7 DEF PairSearch, PairLook, ChanLike, Links
  <2> QED
    BY <2>1, <2>2, ChannelKept
<1>8. CASE PairBurst
  <2>1. owner' = owner /\ ping' = ping /\ history' = history /\ Looks(esb)
    BY <1>8 DEF PairBurst, Stays, Looks
  <2>2. chan'.confirmed = chan.confirmed /\ chan'.found = chan.found
    <3>1. chan' \in {chan, [chan EXCEPT !.at = Candidate(NextCandidate), !.index = NextCandidate]}
      BY <1>8 DEF PairBurst
    <3> QED
      BY <1>1, <3>1 DEF ChanLike
  <2>3. link'.state = link.state
    BY <1>1, <1>8 DEF PairBurst, Links
  <2> QED
    BY <1>2, <2>1, <2>2, <2>3, ChannelKept
<1>9. CASE PairJoin
  <2>1. owner' = owner /\ ping' = ping /\ history' = history /\ chan' = chan /\ esb' = To("start")
    BY <1>9 DEF PairJoin, Stays
  <2>2. ~Looks(esb')
    BY <2>1, EsbIs DEF Looks, EsbAts
  <2> QED
    BY <2>1, <2>2, ChannelKept DEF Looks
<1>10. CASE PingTimeout
  <2>1. ~ping'.pending
    BY <1>1, <1>10 DEF PingTimeout, PingLike
  <2> QED
    BY <1>10, <2>1, ChannelKept DEF PingTimeout, Looks
<1>11. CASE PollExpired
  BY <1>1, <1>3, <1>11, ExpiredIs
<1> QED
  BY <1>4, <1>5, <1>6, <1>7, <1>8, <1>9, <1>10, <1>11 DEF EsbThread

\* what the console changes: a pairing, a session, or nothing of the link
LEMMA ConsoleIs ==
    ASSUME Typed, Console
    PROVE  /\ UNCHANGED <<owner, receiver, control>>
           /\ \/ /\ Begun(esb, history)
                 /\ StoredLike(stored') /\ stored'.addr = stored.addr /\ ~Locked
                 /\ console' = console \/ console' # Unused
              \/ /\ ConsoleForget \/ ConsoleAssign
                 /\ UNCHANGED <<stored, ping, wom, air, rx, esb, history>>
                 /\ chan' \in {chan, [chan EXCEPT !.capable = FALSE]}
                 /\ \/ link' = [link EXCEPT !.addr = console.addr] /\ console' # Unused
                    \/ link' = [link EXCEPT !.state = "pairing", !.addr = Nobody]
              \/ /\ UNCHANGED <<link, chan, ping, wom, air, rx, esb, history>>
                 /\ \/ stored' = stored /\ (console' = console \/ console' # Unused \/ ~HasPair)
                    \/ ConsoleWrite
<1> USE DEF threads, remote, radio, medium, world
<1>1. link \in Links /\ EsbLike(esb) /\ HistoryLike(history) /\ StoredLike(stored) /\ console \in Consoles
  BY DEF Typed
<1>2. ASSUME NEW b \in BOOLEAN
      PROVE  LET l == [link EXCEPT !.disabled = b] IN l \in Links /\ l.state = link.state
  BY <1>1 DEF Links
<1>3. ASSUME NEW addr, NEW then, ConsolePair(addr, then)
      PROVE  \/ /\ Begun(esb, history) /\ stored' = stored /\ ~Locked
                /\ console' # Unused
             \/ /\ UNCHANGED <<link, chan, ping, wom, air, rx, esb, history, stored>> /\ ~HasPair
  <2>1. CASE HasPair
    <3>1. Deinitialize(link, esb) /\ console' = [at |-> "forget", then |-> then, addr |-> addr]
      BY <1>3, <2>1 DEF ConsolePair
    <3>2. Begun(esb, history)
      BY <1>1, <3>1, Restarts
    <3>3. console'.at = "forget" /\ Unused.at = "idle"
      BY <3>1 DEF Unused
    <3> QED
      BY <1>3, <3>2, <3>3 DEF ConsolePair
  <2>2. CASE ~HasPair
    BY <1>3, <2>2 DEF ConsolePair
  <2> QED
    BY <2>1, <2>2
<1>4. ASSUME NEW addr, NEW then, ConsolePair(addr, then)
      PROVE  UNCHANGED <<owner, receiver, control>>
  BY <1>4 DEF ConsolePair
<1>5. CASE ConsoleForget
  BY <1>5 DEF ConsoleForget
<1>6. CASE ConsoleAssign
  <2>1. console'.at = "write"
    BY <1>1, <1>6 DEF ConsoleAssign, Consoles
  <2> QED
    BY <1>6, <2>1 DEF ConsoleAssign, Unused
<1>7. CASE ConsoleWrite
  BY <1>7 DEF ConsoleWrite
<1>8. CASE ConsoleDisable
  <2>1. Deinitialize([link EXCEPT !.disabled = TRUE], esb)
    BY <1>8 DEF ConsoleDisable
  <2>2. Begun(esb, history)
    BY <1>1, <1>2, <2>1, Restarts
  <2> QED
    BY <1>1, <1>8, <2>2 DEF ConsoleDisable
<1>9. CASE ConsoleEnable
  <2>1. PICK on \in BOOLEAN : Reopened(on, [link EXCEPT !.disabled = ~on], stored.channel)
    BY <1>9 DEF ConsoleEnable
  <2> DEFINE l == [link EXCEPT !.disabled = ~on]
  <2>2. l \in Links /\ l.state = link.state /\ Reopened(on, l, stored.channel)
    BY <1>2, <2>1
  <2> HIDE DEF l
  <2>3. Begun(esb, history)
    BY <1>1, <2>2, Restarts
  <2> QED
    BY <1>1, <1>9, <2>3 DEF ConsoleEnable
<1>10. ASSUME NEW ch, ConsoleChannel(ch)
       PROVE  /\ UNCHANGED <<owner, receiver, control, console>>
              /\ Begun(esb, history)
              /\ StoredLike(stored') /\ stored'.addr = stored.addr /\ ~Locked
  <2>1. PICK on \in BOOLEAN : Reopened(on, link, ch)
    BY <1>10 DEF ConsoleChannel
  <2>2. Begun(esb, history)
    BY <1>1, <2>1, Restarts
  <2>3. StoredLike(stored') /\ stored'.addr = stored.addr
    BY <1>1, <1>10 DEF ConsoleChannel, StoredLike
  <2> QED
    BY <1>10, <2>2, <2>3 DEF ConsoleChannel
<1>11. ASSUME NEW m, ConsoleMinutes(m)
       PROVE  UNCHANGED <<owner, receiver, control, console, link, chan, ping, wom, air, rx, esb, history, stored>>
  BY <1>11 DEF ConsoleMinutes
<1> QED
  BY <1>1, <1>3, <1>4, <1>5, <1>6, <1>7, <1>8, <1>9, <1>10, <1>11 DEF Console

LEMMA ChannelConsole ==
    ASSUME Typed, ChannelInv, Console
    PROVE  ChannelInv'
<1>1. ChanLike(chan) /\ link \in Links /\ owner' = owner
  BY ConsoleIs DEF Typed
<1>2. Looks(esb) => link.state = "pairing"
  BY DEF Looks, ChannelInv, Still, Pairing
<1>3. CASE Begun(esb, history)
  <2>1. EsbLike(esb) /\ HistoryLike(history) /\ Locking'
    BY <1>1 DEF Typed, ChannelInv, Locking
  <2>2. ~Looks(esb) \/ owner.at # "send"
    BY DEF Looks, ChannelInv, Still, Pairing
  <2> QED
    BY <1>1, <1>2, <1>3, <2>1, <2>2, ChannelBegun
<1>4. CASE /\ UNCHANGED <<stored, ping, wom, air, rx, esb, history>>
           /\ chan' \in {chan, [chan EXCEPT !.capable = FALSE]}
           /\ \/ link' = [link EXCEPT !.addr = console.addr]
              \/ link' = [link EXCEPT !.state = "pairing", !.addr = Nobody]
  <2>1. chan'.at = chan.at /\ chan'.confirmed = chan.confirmed /\ chan'.found = chan.found
    BY <1>1, <1>4 DEF ChanLike
  <2>2. link.state = "pairing" => link'.state = "pairing"
    BY <1>1, <1>4 DEF Links
  <2> QED
    BY <1>1, <1>4, <2>1, <2>2, ChannelKept DEF Looks
<1>5. CASE UNCHANGED <<link, chan, ping, wom, air, rx, esb, history>>
  BY <1>1, <1>5, ChannelKept DEF Looks
<1> QED
  BY <1>3, <1>4, <1>5, ConsoleIs

LEMMA ChannelWorld ==
    ASSUME Typed, ChannelInv, World
    PROVE  ChannelInv'
<1>1. UNCHANGED <<link, chan, ping, esb, owner, history>>
  BY DEF World, ReplyProof, ReplyNormal, ReplyMetadata, ReplyWom, ReplyCommand, Reply, NextAsk, Move, Hold,
         radio, threads
<1> QED
  BY <1>1, ChannelKept DEF Looks

LEMMA ChannelStep == Typed /\ ChannelInv /\ [Next]_vars => Typed' /\ ChannelInv'
<1>1. Typed /\ ChannelInv /\ Next => Typed' /\ ChannelInv'
  BY TypedStep, ChannelHeard, ChannelOwner, ChannelEsb, ChannelConsole, ChannelWorld DEF Next, ChannelInv
<1>2. Typed /\ ChannelInv /\ UNCHANGED vars => Typed' /\ ChannelInv'
  <2> USE DEF vars, Typed, ChannelInv, Locking, Still, Pairing, ProofIsHere
  <2> QED
    OBVIOUS
<1> QED
  BY <1>1, <1>2

LEMMA ChannelInit == Init => Typed /\ ChannelInv
<1> SUFFICES ASSUME Init PROVE Typed /\ ChannelInv
  OBVIOUS
<1>1. stored \in [addr : {Nobody, Peer}, channel : {Preset, Default}]
  BY DEF Init
<1>2. link \in Links /\ StoredLike(stored)
  BY <1>1 DEF Init, Links, Addresses, StoredLike
<1>3. ChanLike(chan) /\ PingLike(ping) /\ ControlLike(control)
  BY DEF Init, ChanLike, PingLike, ControlLike
<1>4. OwnerLike(owner) /\ owner.data \in [result : {owner.data.result}, token : Nat]
  BY DEF Init, Free, OwnerLike, OwnerAts, Flags, NoData
<1>5. EsbLike(esb) /\ console \in Consoles
  BY Constants DEF Init, Asleep, EsbLike, EsbAts, Unused, Consoles
<1>6. ReceiverLike(receiver)
  <2>1. receiver.proves \in BOOLEAN /\ receiver.ask = NoAsk /\ receiver \in [channel : {receiver.channel}, proves : BOOLEAN, ask : {NoAsk}]
    BY DEF Init
  <2> QED
    BY <2>1, Constants DEF ReceiverLike
<1>7. HistoryLike(history)
  BY DEF Init, HistoryLike
<1>8. Typed
  BY <1>2, <1>3, <1>4, <1>5, <1>6, <1>7, Constants DEF Init, Typed
<1>9. ChannelInv
  BY DEF Init, Free, Asleep, ChannelInv, Locking, Still, Pairing, ProofIsHere, OwnerAts
<1> QED
  BY <1>8, <1>9

\* No PONG that is read late, before, during or after a tune, confirms the
\* next channel: a proof that stands is of the channel the radio is on.
THEOREM ProofHere == Spec => []ProofIsHere
<1>1. Init => Typed /\ ChannelInv
  BY ChannelInit
<1>2. Typed /\ ChannelInv /\ [Next]_vars => (Typed /\ ChannelInv)'
  BY ChannelStep
<1>3. Typed /\ ChannelInv => ProofIsHere
  BY DEF ChannelInv
<1> QED
  BY <1>1, <1>2, <1>3, PTL DEF Spec

-----------------------------------------------------------------------------
(* Commands *)

\* The commands and what of them was executed are left alone, but for one that
\* the ESB thread executes, and the thread takes none.
LEMMA CommandKept ==
    ASSUME CommandInv,
           control'.received = control.received, control'.acked = control.acked, control'.rate = control.rate,
           control'.channel = control.channel, control'.ackedRate = control.ackedRate,
           history.executed \subseteq history'.executed,
           esb'.doing # "nothing" <=> esb'.at \in {"execute", "publish"},
           esb'.doing = "command" => /\ esb.doing = "command"
                                     /\ esb'.current => esb.current
                                     /\ esb'.command = esb.command /\ esb'.value = esb.value
                                     /\ \/ esb'.at # "publish" \/ esb'.err
                                        \/ esb.at = "publish" /\ ~esb.err
                                        \/ <<esb.command, esb.value>> \in history'.executed
    PROVE  CommandInv'
BY DEF CommandInv, AckedValue, Value

LEMMA CommandBegun ==
    ASSUME CommandInv, control' = control, NEW e, EsbLike(e), NEW h, HistoryLike(h), Begun(e, h),
           history.executed \subseteq h.executed,
           e.doing # "nothing" <=> e.at \in {"execute", "publish"},
           e.doing = "command" => /\ esb.doing = "command"
                                  /\ e.current => esb.current
                                  /\ e.command = esb.command /\ e.value = esb.value
                                  /\ \/ e.at # "publish" \/ e.err
                                     \/ esb.at = "publish" /\ ~esb.err
                                     \/ <<esb.command, esb.value>> \in h.executed
    PROVE  CommandInv'
BY BegunEsb, CommandKept

\* A NORMAL forgets the executions together with the acknowledgement; another command
\* outdates the execution of the one it replaces.
LEMMA CommandHeard ==
    ASSUME Typed, ProofIsHere, CommandInv, Interrupt
    PROVE  CommandInv'
<1>1. ControlLike(control) /\ EsbLike(esb)
  BY DEF Typed
<1>2. ASSUME Remains, control'.received = control.received, control'.acked = control.acked,
             control'.rate = control.rate, control'.channel = control.channel,
             control'.ackedRate = control.ackedRate, history'.executed = history.executed
      PROVE  CommandInv'
  <2>1. /\ esb'.at = esb.at /\ esb'.doing = esb.doing /\ esb'.command = esb.command
        /\ esb'.value = esb.value /\ esb'.err = esb.err
        /\ esb'.current => esb.current
    BY <1>2 DEF Remains, SameThread
  <2> QED
    BY <1>2, <2>1, CommandKept DEF CommandInv
<1>3. CASE Discard \/ Redirect
  <2>1. esb' = esb /\ control' = control /\ history'.executed = history.executed
    BY <1>3, AdvertisedIs DEF Discard, Redirect, threads, remote
  <2> QED
    BY <2>1, CommandKept DEF CommandInv
<1>4. ASSUME NEW fast \in BOOLEAN, NEW restarted \in BOOLEAN, HearNormal(fast, restarted)
      PROVE  CommandInv'
  <2>1. Remains /\ control'.rate = control.rate /\ control'.channel = control.channel
        /\ control'.ackedRate = control.ackedRate
    BY <1>4, HearNormalIs
  <2>2. CASE history'.executed = history.executed /\ control'.received = control.received
             /\ control'.acked = control.acked
    BY <1>2, <2>1, <2>2
  <2>3. CASE control'.received = "normal" /\ control'.acked = "normal" /\ esb' = Outdated(Esb(restarted), "command")
    <3>1. EsbLike(Esb(restarted))
      BY <1>1, OutdatedIs DEF Esb
    <3>2. esb'.at = esb.at /\ esb'.doing = esb.doing
      BY <2>1 DEF Remains, SameThread
    <3>3. ~esb'.current \/ esb'.doing # "command"
      <4>1. esb'.current => Esb(restarted).doing # "command"
        BY <2>3, <3>1, OutdatedIs
      <4>2. esb'.doing = Esb(restarted).doing
        BY <2>3, <3>1, OutdatedIs
      <4> QED
        BY <4>1, <4>2
    <3> QED
      BY <2>3, <3>2, <3>3 DEF CommandInv
  <2> QED
    BY <1>4, <2>2, <2>3, HearNormalIs
<1>5. ASSUME NEW fast \in BOOLEAN, NEW restarted \in BOOLEAN,
             \/ HearProof(fast, restarted) \/ HearMetadata(fast, restarted) \/ HearWom(fast, restarted)
      PROVE  CommandInv'
  <2>1. /\ Remains /\ history'.executed = history.executed
        /\ control' \in {control, [control EXCEPT !.echo = TRUE], [control EXCEPT !.echo = FALSE]}
    BY <1>5, HearProofIs, HearMetadataIs, HearWomIs
  <2> QED
    BY <1>1, <1>2, <2>1 DEF ControlLike
<1>6. ASSUME NEW fast \in BOOLEAN, NEW restarted \in BOOLEAN, HearCommand(fast, restarted)
      PROVE  CommandInv'
  <2>1. Remains /\ history'.executed = history.executed /\ rx.kind \in Commands
    BY <1>6, HearCommandIs
  <2>2. CASE control' = [control EXCEPT !.echo = FALSE]
    BY <1>1, <1>2, <2>1, <2>2 DEF ControlLike
  <2>3. CASE control' = Received(rx) /\ (~esb'.current \/ esb.doing # "command")
    <3>1. esb'.at = esb.at /\ esb'.doing = esb.doing
      BY <2>1 DEF Remains, SameThread
    <3>2. control'.acked # "normal" => control'.acked = control.acked /\ AckedValue' = AckedValue
      BY <1>1, <2>3 DEF Received, Revalued, AckedValue, ControlLike
    <3> QED
      BY <2>1, <2>3, <3>1, <3>2 DEF CommandInv
  <2> QED
    BY <1>6, <2>2, <2>3, HearCommandIs
<1> QED
  BY <1>3, <1>4, <1>5, <1>6 DEF Interrupt

LEMMA CommandEsb ==
    ASSUME Typed, CommandInv, EsbThread \/ PingTimeout \/ PollExpired
    PROVE  CommandInv'
<1> USE DEF threads, remote, radio, medium, world
<1>1. /\ EsbLike(esb) /\ HistoryLike(history) /\ ControlLike(control) /\ link \in Links
  BY DEF Typed
<1>2. esb.doing # "nothing" <=> esb.at \in {"execute", "publish"}
  BY DEF CommandInv
<1>3. CASE WomBegin
  <2>1. control' = control /\ esb'.at = "execute" /\ esb'.doing = "wom" /\ history'.executed = history.executed
    BY <1>1, <1>3 DEF WomBegin, Asleep, HistoryLike
  <2> QED
    BY <2>1, CommandKept
<1>4. CASE WomExecute
  <2>1. /\ control' = control /\ esb.doing = "wom"
        /\ \E err \in BOOLEAN : \E result : WomDone(err, result)
    BY <1>4 DEF WomExecute
  <2>2. esb'.at = "publish" /\ esb'.doing = "wom" /\ history'.executed = history.executed
    BY <1>1, <2>1 DEF WomDone, EsbLike, HistoryLike
  <2> QED
    BY <2>1, <2>2, CommandKept
<1>5. CASE WomPublish
  <2>1. control' = control /\ history' = history /\ esb' = Asleep
    BY <1>5 DEF WomPublish
  <2> QED
    BY <2>1, EsbIs, CommandKept
<1>6. CASE CommandBegin
  <2>1. /\ control' = control /\ history' = history /\ esb'.at = "execute" /\ esb'.doing = "command"
        /\ esb'.command = control.received /\ esb'.value = Value(control.received)
    BY <1>6 DEF CommandBegin, Asleep
  <2> QED
    BY <2>1 DEF CommandInv, AckedValue, Value
<1>7. CASE CommandExecute
  <2>1. control' = control /\ esb.doing = "command"
    BY <1>7 DEF CommandExecute
  <2>2. ASSUME NEW b \in BOOLEAN, NEW h, h = Executed(history) \/ (h = history /\ b),
               \/ Begun(CommandDone(b), h)
               \/ esb' = CommandDone(b) /\ history' = h
        PROVE  CommandInv'
    <3>1. HistoryLike(h) /\ history.executed \subseteq h.executed
          /\ (b \/ <<esb.command, esb.value>> \in h.executed)
      BY <1>1, <2>2, EsbIs
    <3> DEFINE e == CommandDone(b)
    <3>2. EsbLike(e) /\ e.at = "publish" /\ e.doing = esb.doing /\ e.err = b /\ e.command = esb.command
          /\ e.value = esb.value /\ e.current = esb.current
      BY EsbIs
    <3> HIDE DEF e
    <3>3. CASE Begun(e, h)
      BY <2>1, <3>1, <3>2, <3>3, CommandBegun
    <3>4. CASE esb' = e /\ history' = h
      BY <2>1, <3>1, <3>2, <3>4, CommandKept
    <3> QED
      BY <2>2, <3>3, <3>4 DEF e
  <2> QED
    BY <1>7, <2>2, ExecuteIs
<1>8. CASE CommandPublish
  <2>1. history' = history /\ esb' = Asleep /\ esb.at = "publish" /\ esb.doing = "command"
    BY <1>8 DEF CommandPublish
  <2>2. CASE esb.current /\ ~esb.err
    <3>1. control' = [control EXCEPT !.rejected = esb.err,
                  !.acked = IF esb.err THEN @ ELSE esb.command,
                  !.ackedRate = IF ~esb.err /\ esb.command = "rate" THEN esb.value ELSE @]
      BY <1>8, <2>2 DEF CommandPublish, Publishes
    <3>2. control'.acked = esb.command /\ AckedValue' = Value(esb.command)
      <4>1. Value(esb.command) = esb.value
        BY <2>1, <2>2 DEF CommandInv
      <4> QED
        BY <1>1, <2>2, <3>1, <4>1 DEF ControlLike, AckedValue, Value
    <3>3. <<esb.command, Value(esb.command)>> \in history.executed
      BY <2>1, <2>2 DEF CommandInv
    <3> QED
      BY <2>1, <3>2, <3>3, EsbIs DEF CommandInv
  <2>3. CASE ~(esb.current /\ ~esb.err)
    <3>1. control' \in {control, [control EXCEPT !.rejected = esb.err]}
      <4>1. CASE esb.err /\ esb.current
        <5>1. control' = [control EXCEPT !.rejected = esb.err, !.acked = @, !.ackedRate = @]
          BY <1>8, <4>1 DEF CommandPublish, Publishes
        <5> QED
          BY <1>1, <5>1 DEF ControlLike
      <4>2. CASE ~esb.current
        BY <1>8, <4>2 DEF CommandPublish, Publishes
      <4> QED
        BY <2>3, <4>1, <4>2
    <3>2. /\ control'.received = control.received /\ control'.acked = control.acked /\ control'.rate = control.rate
          /\ control'.channel = control.channel /\ control'.ackedRate = control.ackedRate
      BY <1>1, <3>1 DEF ControlLike
    <3> QED
      BY <2>1, <3>2, EsbIs, CommandKept
  <2> QED
    BY <2>2, <2>3
<1>9. CASE PairBegin \/ PairConfirm \/ PairStart
  <2>1. control' = control
    BY <1>9, PairingIs
  <2>2. ASSUME NEW e, EsbLike(e), Begun(e, history),
               \/ PairBegin /\ e.at = "search" /\ e.doing = esb.doing
               \/ PairConfirm /\ e.at = "join" /\ e.doing = esb.doing
               \/ PairStart /\ e = Asleep
        PROVE  CommandInv'
    <3>1. e.doing = "nothing" /\ e.at \notin {"execute", "publish"}
      BY <1>2, <2>2, EsbIs DEF PairBegin, PairConfirm
    <3> QED
      BY <1>1, <2>1, <2>2, <3>1, CommandBegun
  <2>3. CASE /\ history' = history
             /\ \/ esb' = To("join") /\ esb.at = "idle"
                \/ esb' = To("start") /\ esb.at = "confirm"
                \/ esb' = Asleep /\ esb.at = "start"
    <3>1. esb'.doing = "nothing" /\ esb'.at \notin {"execute", "publish"}
      BY <1>2, <2>3, EsbIs DEF EsbAts
    <3> QED
      BY <2>1, <2>3, <3>1, CommandKept
  <2> QED
    BY <1>9, <2>2, <2>3, PairingIs
<1>10. CASE PairSearch \/ PairLook \/ PairBurst \/ PairJoin
  <2>1. control' = control /\ history' = history /\ esb.doing = "nothing"
    BY <1>2, <1>10 DEF PairSearch, PairLook, PairBurst, PairJoin, Stays
  <2>2. esb'.doing = esb.doing /\ esb'.at \notin {"execute", "publish"}
    <3>1. esb' = [To("look") EXCEPT !.stale = FALSE] \/ esb' \in {To("burst"), To("confirm"), To("start"), To("look")}
      BY <1>10 DEF PairSearch, PairLook, PairBurst, PairJoin
    <3>2. EsbLike(To("look"))
      BY EsbIs DEF EsbAts
    <3>3. LET e == [To("look") EXCEPT !.stale = FALSE] IN e.doing = esb.doing /\ e.at = "look"
      BY <3>2, EsbIs DEF EsbLike, EsbAts
    <3> QED
      BY <3>1, <3>3, EsbIs DEF EsbAts
  <2> QED
    BY <2>1, <2>2, CommandKept
<1>11. CASE PingTimeout
  BY <1>11, CommandKept DEF PingTimeout, CommandInv
<1>12. CASE PollExpired
  BY <1>1, <1>2, <1>12, ExpiredIs, CommandBegun
<1> QED
  BY <1>3, <1>4, <1>5, <1>6, <1>7, <1>8, <1>9, <1>10, <1>11, <1>12 DEF EsbThread

\* The connection thread and the world leave the ESB thread alone, unless the
\* radio is opened anew.
LEMMA OwnerIs ==
    ASSUME Typed, Owner \/ Expired
    PROVE  /\ UNCHANGED <<control, console, receiver>>
           /\ \/ Recover /\ Begun(esb, history) /\ owner' = Sent /\ stored' = stored
              \/ ~Recover /\ UNCHANGED <<esb, history>>
<1> USE DEF threads, remote, radio, medium, world
<1>1. CASE Recover
  <2>1. PICK on \in BOOLEAN : Reopened(on, link, stored.channel)
    BY <1>1 DEF Recover
  <2>2. Begun(esb, history)
    BY <2>1, Restarts DEF Typed
  <2> QED
    BY <1>1, <2>2 DEF Recover
<1>2. CASE ~Recover /\ (PollHeld \/ PollFound \/ StoreAddress \/ StoreChannel \/ Settle \/ PollSearch \/ FollowRedirect \/ Tuned)
  BY <1>2 DEF PollHeld, PollFound, StoreAddress, StoreChannel, Settle, PollSearch, FollowRedirect, Tuned
<1>3. CASE ~Recover /\ (Probe \/ Wait \/ Hop \/ PingDue \/ ReadFlag \/ ReadData \/ SealPing \/ SendPing \/ Expired)
  BY <1>3 DEF Probe, Wait, Hop, PingDue, ReadFlag, ReadData, SealPing, SendPing, Expired
<1> QED
  BY <1>1, <1>2, <1>3 DEF Owner

LEMMA WorldIs ==
    ASSUME World
    PROVE  UNCHANGED <<link, chan, ping, stored, control, wom, minutes, owner, esb, console, history>>
BY DEF World, ReplyProof, ReplyNormal, ReplyMetadata, ReplyWom, ReplyCommand, Reply, NextAsk, Move, Hold,
       radio, remote, threads

LEMMA CommandStep == Typed /\ ChannelInv /\ CommandInv /\ [Next]_vars => CommandInv'
<1> SUFFICES ASSUME Typed, ChannelInv, CommandInv, [Next]_vars
             PROVE  CommandInv'
  OBVIOUS
<1>1. EsbLike(esb) /\ HistoryLike(history) /\ ProofIsHere
  BY DEF Typed, ChannelInv
<1>2. esb.doing # "nothing" <=> esb.at \in {"execute", "publish"}
  BY DEF CommandInv
<1>3. CASE Interrupt
  BY <1>1, <1>3, CommandHeard
<1>4. CASE EsbThread \/ PingTimeout \/ PollExpired
  BY <1>4, CommandEsb
<1>5. CASE Owner \/ Expired \/ Console \/ World
  <2>1. control' = control /\ (Begun(esb, history) \/ UNCHANGED <<esb, history>>)
    BY <1>5, OwnerIs, ConsoleIs, WorldIs
  <2> QED
    BY <1>1, <1>2, <2>1, CommandBegun, CommandKept
<1>6. CASE UNCHANGED vars
  BY <1>2, <1>6, CommandKept DEF vars
<1> QED
  BY <1>3, <1>4, <1>5, <1>6 DEF Next

LEMMA CommandInit == Init => CommandInv
BY DEF Init, CommandInv, Asleep

\* An execution that was begun before does not acknowledge what has replaced
\* its command meanwhile: a command that stands acknowledged was executed,
\* with the value it has.
THEOREM AckedExecuted == Spec => []AckedWasExecuted
<1>1. Init => Typed /\ ChannelInv /\ CommandInv
  BY ChannelInit, CommandInit
<1>2. Typed /\ ChannelInv /\ CommandInv /\ [Next]_vars => (Typed /\ ChannelInv /\ CommandInv)'
  BY ChannelStep, CommandStep
<1>3. CommandInv => AckedWasExecuted
  BY DEF CommandInv, AckedValue, AckedWasExecuted, Value
<1> QED
  BY <1>1, <1>2, <1>3, PTL DEF Spec

-----------------------------------------------------------------------------
(* The outcome of a transaction *)

\* what is cached is left alone or dropped
CachedKept ==
    /\ wom'.pending => wom'.cached
    /\ wom'.cached => /\ wom.cached
                      /\ wom'.done = wom.done /\ wom'.flag = wom.flag /\ wom'.result = wom.result

LEMMA CachedIs ==
    ASSUME Typed, OutcomeInv, NEW restarted \in BOOLEAN,
           \/ wom' \in {wom, NoWom, Wom(restarted), Retired(Wom(restarted)),
                        [Wom(restarted) EXCEPT !.ask = rx.ask, !.requested = TRUE, !.pending = FALSE, !.sent = Unsent]}
           \/ Wom(restarted).cached /\ wom' = [Wom(restarted) EXCEPT !.pending = TRUE]
    PROVE  CachedKept
<1>1. WomLike(wom) /\ WomLike(NoWom) /\ ~NoWom.cached /\ ~NoWom.pending
  BY Constants DEF Typed, NoWom
<1>2. \A w : WomLike(w) =>
         LET v == [w EXCEPT !.ask = rx.ask, !.requested = TRUE, !.pending = FALSE, !.sent = Unsent]
             u == [w EXCEPT !.pending = TRUE]
         IN  /\ v.cached = w.cached /\ v.done = w.done /\ v.flag = w.flag /\ v.result = w.result /\ ~v.pending
             /\ u.cached = w.cached /\ u.done = w.done /\ u.flag = w.flag /\ u.result = w.result
  BY DEF WomLike
<1>3. \A w : WomLike(w) => Retired(w) = w \/ (~Retired(w).cached /\ ~Retired(w).pending)
  BY DEF WomLike, Retired
<1>4. Wom(restarted) \in {wom, NoWom}
  BY DEF Wom
<1>5. wom.pending => wom.cached
  BY DEF OutcomeInv
<1>6. \A w \in {wom, NoWom} : WomLike(w) /\ (w.pending => w.cached)
                              /\ (w.cached => w = wom)
  BY <1>1, <1>5
<1> DEFINE w == Wom(restarted)
<1>7. WomLike(w) /\ (w.pending => w.cached) /\ (w.cached => w = wom)
  BY <1>4, <1>6
<1> HIDE DEF w
<1>8. CASE wom' \in {wom, NoWom, w}
  BY <1>1, <1>5, <1>7, <1>8 DEF CachedKept
<1>9. CASE wom' = Retired(w)
  BY <1>3, <1>7, <1>9 DEF CachedKept
<1>10. CASE wom' = [w EXCEPT !.ask = rx.ask, !.requested = TRUE, !.pending = FALSE, !.sent = Unsent]
  BY <1>2, <1>7, <1>10 DEF CachedKept
<1>11. CASE w.cached /\ wom' = [w EXCEPT !.pending = TRUE]
  BY <1>2, <1>7, <1>11 DEF CachedKept
<1> QED
  BY <1>8, <1>9, <1>10, <1>11 DEF w

LEMMA OutcomeKept ==
    ASSUME OutcomeInv, CachedKept, history.outcomes \subseteq history'.outcomes,
           esb'.at = "publish" /\ esb'.doing = "wom" =>
               /\ esb.at = "publish" /\ esb.doing = "wom"
               /\ esb'.ask = esb.ask /\ esb'.err = esb.err /\ esb'.result = esb.result,
           owner'.at = "send" => owner' = owner, air' \in {air, NoPing}
    PROVE  OutcomeInv'
<1>1. NoPing.flag \notin WomFlags
  BY DEF NoPing, WomFlags
<1>2. /\ wom'.pending => wom'.cached
      /\ wom'.cached => Known(wom.done.token, wom.flag, wom.result)
      /\ wom'.cached => wom'.done = wom.done /\ wom'.flag = wom.flag /\ wom'.result = wom.result
  BY DEF CachedKept, OutcomeInv
<1>3. OutcomeIsWhole'
  BY <1>1 DEF OutcomeInv, OutcomeIsWhole
<1> QED
  BY <1>2, <1>3 DEF OutcomeInv, Known, Triple

LEMMA OutcomeBegun ==
    ASSUME Typed, OutcomeInv, NEW e, EsbLike(e), NEW h, HistoryLike(h), Begun(e, h),
           history.outcomes \subseteq h.outcomes,
           e.at = "publish" /\ e.doing = "wom" => e = esb,
           owner'.at = "send" => owner' = owner
    PROVE  OutcomeInv'
<1>1. wom' = NoWom /\ air' = NoPing
  BY DEF Begun
<1>2. CachedKept
  BY <1>1, CachedIs
<1> QED
  BY <1>1, <1>2, BegunEsb, OutcomeKept

LEMMA OutcomeHeard ==
    ASSUME Typed, ProofIsHere, OutcomeInv, Interrupt
    PROVE  OutcomeInv'
<1>1. CASE Discard \/ Redirect
  <2>1. history'.outcomes = history.outcomes /\ UNCHANGED <<wom, esb, owner, air>>
    BY <1>1, AdvertisedIs DEF Discard, Redirect, remote, threads
  <2> QED
    BY <2>1, CachedIs, OutcomeKept
<1>2. ASSUME NEW restarted \in BOOLEAN, Hearing(restarted), Remains, CachedKept
      PROVE  OutcomeInv'
  BY <1>2, OutcomeKept DEF Hearing, Remains, SameThread
<1>3. ASSUME NEW fast \in BOOLEAN, NEW restarted \in BOOLEAN,
             \/ HearProof(fast, restarted)
             \/ HearNormal(fast, restarted)
             \/ HearMetadata(fast, restarted)
             \/ HearWom(fast, restarted)
             \/ HearCommand(fast, restarted)
      PROVE  OutcomeInv'
  <2>1. CASE HearProof(fast, restarted) \/ HearMetadata(fast, restarted)
    BY <1>2, <2>1, CachedIs, HearProofIs, HearMetadataIs
  <2>2. CASE HearNormal(fast, restarted)
    BY <1>2, <2>2, CachedIs, HearNormalIs
  <2>3. CASE HearWom(fast, restarted)
    <3>1. CachedKept
      BY <2>3, CachedIs, HearWomIs
    <3> QED
      BY <1>2, <2>3, <3>1, HearWomIs
  <2>4. CASE HearCommand(fast, restarted)
    BY <1>2, <2>4, CachedIs, HearCommandIs
  <2> QED
    BY <1>3, <2>1, <2>2, <2>3, <2>4
<1> QED
  BY <1>1, <1>3 DEF Interrupt

\* what a PING carries is the outcome that is pending when it is sealed
LEMMA SealedIs ==
    ASSUME OwnerLike(owner), owner' = [Prepared(owner) EXCEPT !.at = "send", !.locked = TRUE]
    PROVE  /\ owner'.at = "send"
           /\ \/ owner'.flag \notin WomFlags
              \/ wom.pending /\ owner'.flag = wom.flag /\ owner'.data = Outcome
<1>1. CASE Masked(owner.flag) \notin WomFlags
  <2>1. owner' = [owner EXCEPT !.flag = Masked(owner.flag), !.at = "send", !.locked = TRUE]
    BY <1>1 DEF Prepared, OwnerLike
  <2> QED
    BY <1>1, <2>1 DEF OwnerLike
<1>2. CASE Masked(owner.flag) \in WomFlags /\ wom.pending
  <2>1. owner' = [owner EXCEPT !.flag = wom.flag, !.data = Outcome, !.at = "send", !.locked = TRUE]
    BY <1>2 DEF Prepared, OwnerLike
  <2> QED
    BY <1>2, <2>1 DEF OwnerLike
<1>3. CASE Masked(owner.flag) \in WomFlags /\ ~wom.pending
  <2>1. owner' = [owner EXCEPT !.flag = "normal", !.data = NoData, !.at = "send", !.locked = TRUE]
    BY <1>3 DEF Prepared, OwnerLike
  <2> QED
    BY <2>1 DEF OwnerLike, WomFlags
<1> QED
  BY <1>1, <1>2, <1>3

\* What is sealed into a PING is the cached outcome, whatever was read before.
LEMMA OutcomeOwner ==
    ASSUME Typed, OutcomeInv, Owner \/ Expired
    PROVE  OutcomeInv'
<1> USE DEF threads, remote, radio, medium, world
<1>1. OwnerLike(owner) /\ WomLike(wom) /\ EsbLike(esb) /\ HistoryLike(history)
  BY DEF Typed
<1>2. ASSUME UNCHANGED <<wom, esb, air, history>>, owner'.at # "send"
      PROVE  OutcomeInv'
  BY <1>2, CachedIs, OutcomeKept
<1>3. /\ \A pc \in OwnerAts : At(pc).at = pc /\ Leave.at = "idle" /\ Sent.at = "idle"
      /\ \A pc \in OwnerAts, b \in BOOLEAN : [At(pc) EXCEPT !.probed = b].at = pc
  BY <1>1 DEF At, Leave, Sent, OwnerLike, OwnerAts
<1>4. CASE Recover
  BY <1>1, <1>3, <1>4, OwnerIs, OutcomeBegun DEF OwnerAts
<1>5. CASE PollHeld \/ PollFound \/ PollSearch \/ PingDue \/ ReadFlag \/ ReadData
  <2>1. owner'.at # "send"
    BY <1>1, <1>5 DEF PollHeld, PollFound, PollSearch, PingDue, ReadFlag, ReadData, At, Serves, OwnerLike
  <2> QED
    BY <1>2, <1>5, <2>1 DEF PollHeld, PollFound, PollSearch, PingDue, ReadFlag, ReadData
<1>6. CASE StoreAddress \/ StoreChannel \/ Settle \/ FollowRedirect \/ Probe \/ Wait
  <2>1. owner' \in {Leave, At("channel"), At("settle"), At("flag"), At("tuned")}
    BY <1>6 DEF StoreAddress, StoreChannel, Settle, FollowRedirect, Probe, Wait
  <2>2. owner'.at # "send"
    BY <1>3, <2>1 DEF OwnerAts
  <2> QED
    BY <1>2, <1>6, <2>2 DEF StoreAddress, StoreChannel, Settle, FollowRedirect, Probe, Wait
<1>7. CASE Tuned \/ Hop \/ Expired
  <2>1. owner' \in {[At("flag") EXCEPT !.probed = FALSE], At("hop")}
    BY <1>7 DEF Tuned, Hop, Expired
  <2>2. [At("flag") EXCEPT !.probed = FALSE].at = "flag" /\ At("hop").at = "hop"
    BY <1>3 DEF OwnerAts
  <2>3. owner'.at # "send"
    BY <2>1, <2>2
  <2> QED
    BY <1>2, <1>7, <2>3 DEF Tuned, Hop, Expired
<1>8. CASE SealPing
  <2>1. UNCHANGED <<wom, esb, air, history>>
    BY <1>8 DEF SealPing
  <2>2. CASE owner' \in {Leave, Sent}
    BY <1>2, <1>3, <2>1, <2>2 DEF OwnerAts
  <2>3. CASE owner' = [Prepared(owner) EXCEPT !.at = "send", !.locked = TRUE]
    <3>1. \/ owner'.flag \notin WomFlags
          \/ wom.pending /\ owner'.flag = wom.flag /\ owner'.data = Outcome
      BY <1>1, <2>3, SealedIs
    <3>2. owner'.flag \in WomFlags => Known(owner'.data.token, owner'.flag, owner'.data.result)
      BY <3>1 DEF OutcomeInv, Outcome
    <3> QED
      BY <2>1, <3>2 DEF OutcomeInv, OutcomeIsWhole, Known, Triple
  <2> QED
    BY <1>8, <2>2, <2>3 DEF SealPing
<1>9. CASE SendPing
  <2>1. UNCHANGED <<esb, history>> /\ owner'.at = "idle" /\ owner.at = "send"
    BY <1>3, <1>9 DEF SendPing, OwnerAts
  <2>2. wom' = wom \/ \E s : wom' = [wom EXCEPT !.sent = s]
    BY <1>9 DEF SendPing
  <2>3. wom'.pending = wom.pending /\ wom'.cached = wom.cached /\ wom'.done = wom.done
        /\ wom'.flag = wom.flag /\ wom'.result = wom.result
    BY <1>1, <2>2 DEF WomLike
  <2>4. air' = air \/ (air'.flag = owner.flag /\ air'.data = owner.data)
    BY <1>9 DEF SendPing
  <2>5. OutcomeIsWhole'
    BY <2>1, <2>4 DEF OutcomeInv, OutcomeIsWhole, Known, Triple
  <2> QED
    BY <2>1, <2>3, <2>5 DEF OutcomeInv, Known, Triple
<1> QED
  BY <1>4, <1>5, <1>6, <1>7, <1>8, <1>9 DEF Owner

LEMMA OutcomeEsb ==
    ASSUME Typed, CommandInv, OutcomeInv, EsbThread \/ PingTimeout \/ PollExpired
    PROVE  OutcomeInv'
<1> USE DEF threads, remote, radio, medium, world
<1>1. /\ EsbLike(esb) /\ HistoryLike(history) /\ WomLike(wom) /\ link \in Links
  BY DEF Typed
<1>2. esb.doing # "nothing" <=> esb.at \in {"execute", "publish"}
  BY DEF CommandInv
<1>3. ASSUME UNCHANGED <<wom, owner, air>>, history.outcomes \subseteq history'.outcomes,
             esb'.at # "publish" \/ esb'.doing # "wom"
      PROVE  OutcomeInv'
  BY <1>3, CachedIs, OutcomeKept
<1>4. CASE WomBegin \/ CommandBegin
  <2>1. esb'.at = "execute" /\ history'.outcomes = history.outcomes
    BY <1>1, <1>4 DEF WomBegin, CommandBegin, Asleep, HistoryLike
  <2> QED
    BY <1>3, <1>4, <2>1 DEF WomBegin, CommandBegin
<1>5. CASE WomExecute
  <2>1. UNCHANGED <<wom, owner, air>>
    BY <1>5 DEF WomExecute
  <2>2. PICK err \in BOOLEAN : \E result : WomDone(err, result)
    BY <1>5 DEF WomExecute
  <2>3. PICK result : WomDone(err, result)
    BY <2>2
  <2>4. esb'.ask = esb.ask /\ esb'.err = err /\ esb'.result = result
    BY <1>1, <2>3 DEF WomDone, EsbLike
  <2>5. history'.outcomes = history.outcomes \cup
          {[token |-> esb.ask.token, flag |-> IF err THEN "error" ELSE "result", result |-> result]}
    BY <1>1, <2>3 DEF WomDone, HistoryLike
  <2>6. OutcomeIsWhole'
    BY <2>1, <2>5 DEF OutcomeInv, OutcomeIsWhole
  <2> QED
    BY <2>1, <2>4, <2>5, <2>6 DEF OutcomeInv, Known, Triple
<1>6. CASE WomPublish
  <2>1. UNCHANGED <<owner, air, history>> /\ esb' = Asleep
    BY <1>6 DEF WomPublish
  <2>2. CASE Publishes(esb)
    <3>1. wom' = [wom EXCEPT !.requested = FALSE, !.cached = TRUE, !.done = esb.ask,
                             !.result = esb.result, !.flag = IF esb.err THEN "error" ELSE "result",
                             !.pending = TRUE]
      BY <1>6, <2>2 DEF WomPublish
    <3>2. wom'.cached /\ wom'.done = esb.ask /\ wom'.result = esb.result
          /\ wom'.flag = IF esb.err THEN "error" ELSE "result"
      BY <1>1, <3>1 DEF WomLike
    <3>3. Known(esb.ask.token, IF esb.err THEN "error" ELSE "result", esb.result)
      BY <1>6 DEF WomPublish, OutcomeInv
    <3> QED
      BY <2>1, <3>2, <3>3, EsbIs DEF OutcomeInv, OutcomeIsWhole, Known, Triple
  <2>3. CASE ~Publishes(esb)
    BY <1>3, <1>6, <2>1, <2>3, EsbIs DEF WomPublish
  <2> QED
    BY <2>2, <2>3
<1>7. CASE CommandExecute
  <2>1. owner' = owner /\ esb.doing = "command"
    BY <1>7 DEF CommandExecute
  <2>2. ASSUME NEW e \in {CommandDone(TRUE), CommandDone(FALSE)}, NEW h \in {history, Executed(history)},
               \/ Begun(e, h)
               \/ esb' = e /\ history' = h /\ UNCHANGED <<wom, air>>
        PROVE  OutcomeInv'
    <3>1. EsbLike(e) /\ e.doing # "wom" /\ HistoryLike(h) /\ h.outcomes = history.outcomes
      BY <1>1, <2>1, EsbIs
    <3>2. CASE Begun(e, h)
      BY <2>1, <3>1, <3>2, OutcomeBegun
    <3>3. CASE esb' = e /\ history' = h /\ UNCHANGED <<wom, air>>
      BY <1>3, <2>1, <3>1, <3>3
    <3> QED
      BY <2>2, <3>2, <3>3
  <2> QED
    BY <1>7, <2>2, ExecuteIs
<1>8. CASE CommandPublish
  BY <1>3, <1>8, EsbIs DEF CommandPublish
<1>9. CASE PairBegin \/ PairConfirm \/ PairStart
  <2>1. owner' = owner
    BY <1>9, PairingIs
  <2>2. ASSUME NEW e, EsbLike(e), Begun(e, history), e.at \in {"search", "join", "idle"}
        PROVE  OutcomeInv'
    BY <1>1, <2>1, <2>2, OutcomeBegun
  <2>3. CASE UNCHANGED <<wom, air, history>> /\ esb' \in {To("join"), To("start"), Asleep}
    BY <1>3, <2>1, <2>3, EsbIs DEF EsbAts
  <2> QED
    BY <1>9, <2>2, <2>3, PairingIs, EsbIs
<1>10. CASE PairSearch \/ PairLook \/ PairBurst \/ PairJoin
  <2>1. UNCHANGED <<wom, owner, air, history>>
    BY <1>10 DEF PairSearch, PairLook, PairBurst, PairJoin, Stays
  <2>2. esb'.at # "publish"
    <3>1. esb' = [To("look") EXCEPT !.stale = FALSE] \/ esb' \in {To("burst"), To("confirm"), To("start"), To("look")}
      BY <1>10 DEF PairSearch, PairLook, PairBurst, PairJoin
    <3>2. EsbLike(To("look"))
      BY EsbIs DEF EsbAts
    <3>3. LET e == [To("look") EXCEPT !.stale = FALSE] IN e.at = "look"
      BY <3>2, EsbIs DEF EsbLike, EsbAts
    <3> QED
      BY <3>1, <3>3, EsbIs DEF EsbAts
  <2> QED
    BY <1>3, <2>1, <2>2
<1>11. CASE PingTimeout
  BY <1>11, CachedIs, OutcomeKept DEF PingTimeout
<1>12. CASE PollExpired
  BY <1>1, <1>12, ExpiredIs, OutcomeBegun
<1> QED
  BY <1>4, <1>5, <1>6, <1>7, <1>8, <1>9, <1>10, <1>11, <1>12 DEF EsbThread

LEMMA OutcomeStep == Typed /\ ChannelInv /\ CommandInv /\ OutcomeInv /\ [Next]_vars => OutcomeInv'
<1> SUFFICES ASSUME Typed, ChannelInv, CommandInv, OutcomeInv, [Next]_vars
             PROVE  OutcomeInv'
  OBVIOUS
<1>1. EsbLike(esb) /\ HistoryLike(history) /\ ProofIsHere
  BY DEF Typed, ChannelInv
<1>2. CASE Interrupt
  BY <1>1, <1>2, OutcomeHeard
<1>3. CASE EsbThread \/ PingTimeout \/ PollExpired
  BY <1>3, OutcomeEsb
<1>4. CASE Owner \/ Expired
  BY <1>4, OutcomeOwner
<1>5. CASE Console
  <2>1. owner' = owner /\ (Begun(esb, history) \/ UNCHANGED <<wom, air, esb, history>>)
    BY <1>5, ConsoleIs
  <2> QED
    BY <1>1, <2>1, CachedIs, OutcomeBegun, OutcomeKept
<1>6. CASE World
  <2>1. UNCHANGED <<owner, wom, esb, history>>
    BY <1>6, WorldIs
  <2>2. air' \in {air, NoPing}
    BY <1>6 DEF World, ReplyProof, ReplyNormal, ReplyMetadata, ReplyWom, ReplyCommand, Reply, NextAsk, Move, Hold,
           medium
  <2> QED
    BY <2>1, <2>2, CachedIs, OutcomeKept
<1>7. CASE UNCHANGED vars
  BY <1>7, CachedIs, OutcomeKept DEF vars
<1> QED
  BY <1>2, <1>3, <1>4, <1>5, <1>6, <1>7 DEF Next

LEMMA OutcomeInit == Init => OutcomeInv
BY DEF Init, OutcomeInv, OutcomeIsWhole, Asleep, Free, NoWom, NoPing, WomFlags

\* The flag and the data of a PING are read apart, and a transaction may end
\* between them: what leaves has flag, result and token of one transaction.
THEOREM OutcomeWhole == Spec => []OutcomeIsWhole
<1>1. Init => Typed /\ ChannelInv /\ CommandInv /\ OutcomeInv
  BY ChannelInit, CommandInit, OutcomeInit
<1>2. Typed /\ ChannelInv /\ CommandInv /\ OutcomeInv /\ [Next]_vars
          => (Typed /\ ChannelInv /\ CommandInv /\ OutcomeInv)'
  BY ChannelStep, CommandStep, OutcomeStep
<1>3. OutcomeInv => OutcomeIsWhole
  BY DEF OutcomeInv
<1> QED
  BY <1>1, <1>2, <1>3, PTL DEF Spec

-----------------------------------------------------------------------------
(* What is stored *)

LEMMA EvenOnesIs == ToSet(EvenOnes(Band)) \subseteq Channels /\ Default \in Channels
<1>1. Band \in Nat /\ Default \in Channels
  BY RadioAssumption
<1>2. \A i \in 1..(Band \div 2 + 1) : 2 * (i - 1) \in 0..Band
  BY <1>1
<1> QED
  BY <1>1, <1>2 DEF ToSet, EvenOnes, Channels

\* The receiver stays in the band, and so does what it proves.
LEMMA TuningStep == Typed /\ ProofIsHere /\ Tuning /\ Next => Tuning'
<1> SUFFICES ASSUME Typed, ProofIsHere, Tuning, Next
             PROVE  Tuning'
  OBVIOUS
<1> USE DEF threads, remote, radio, medium, world
<1>1. NoPong.kind # "confirm"
  BY DEF NoPong
<1>2. ASSUME receiver' = receiver, history'.proven \in Channels, rx' \in {rx, NoPong}
      PROVE  Tuning'
  BY <1>1, <1>2 DEF Tuning
<1>3. EsbLike(esb) /\ HistoryLike(history) /\ ReceiverLike(receiver)
  BY DEF Typed
<1>4. CASE Interrupt
  <2>1. Advertised(rx).proven \in Channels
    BY AdvertisedIs DEF Tuning
  <2>2. CASE Discard \/ Redirect
    BY <1>2, <2>1, <2>2 DEF Discard, Redirect
  <2>3. ASSUME NEW fast \in BOOLEAN, NEW restarted \in BOOLEAN,
               \/ HearProof(fast, restarted)
               \/ HearNormal(fast, restarted)
               \/ HearMetadata(fast, restarted)
               \/ HearWom(fast, restarted)
               \/ HearCommand(fast, restarted)
        PROVE  Hearing(restarted)
    BY <2>3, HearProofIs, HearNormalIs, HearMetadataIs, HearWomIs, HearCommandIs
  <2> QED
    BY <1>2, <1>4, <2>1, <2>2, <2>3 DEF Interrupt, Hearing
<1>5. ASSUME NEW e, EsbLike(e), NEW h, HistoryLike(h), Begun(e, h), h.proven = history.proven, receiver' = receiver
      PROVE  Tuning'
  BY <1>2, <1>5, BegunEsb DEF Begun, Tuning
<1>6. ASSUME UNCHANGED <<receiver, rx>>, history'.proven = history.proven
      PROVE  Tuning'
  BY <1>2, <1>6 DEF Tuning
<1>7. CASE PollExpired
  BY <1>3, <1>5, <1>7, ExpiredIs
<1>8. CASE Owner \/ Expired
  <2>1. CASE Recover
    BY <1>3, <1>5, <1>8, <2>1, OwnerIs
  <2>2. CASE ~Recover
    <3>1. receiver' = receiver /\ history' = history
      BY <1>8, <2>2, OwnerIs
    <3>2. rx' \in {rx, NoPong}
      BY <1>8, <2>2 DEF Owner, PollHeld, PollFound, StoreAddress, StoreChannel, Settle, PollSearch, FollowRedirect,
             Tuned, Probe, Wait, Hop, PingDue, ReadFlag, ReadData, SealPing, SendPing, Expired
    <3> QED
      BY <1>2, <3>1, <3>2 DEF Tuning
  <2> QED
    BY <2>1, <2>2
<1>9. CASE PingTimeout
  BY <1>6, <1>9 DEF PingTimeout
<1>10. CASE WomBegin \/ WomExecute \/ WomPublish \/ CommandBegin \/ CommandPublish
  <2>1. UNCHANGED <<receiver, rx>>
    BY <1>10 DEF WomBegin, WomExecute, WomPublish, CommandBegin, CommandPublish
  <2>2. history' = history \/ (\E r : history' = [history EXCEPT !.ran = r]) \/ (\E o : history' = [history EXCEPT !.outcomes = o])
    BY <1>10 DEF WomBegin, WomExecute, WomPublish, CommandBegin, CommandPublish, WomDone
  <2> QED
    BY <1>3, <1>6, <2>1, <2>2 DEF HistoryLike
<1>11. CASE CommandExecute
  <2>1. receiver' = receiver
    BY <1>11, ExecuteIs
  <2>2. ASSUME NEW b \in BOOLEAN, NEW h \in {history, Executed(history)}, HistoryLike(h),
               \/ Begun(CommandDone(b), h)
               \/ history' = h /\ rx' = rx
        PROVE  Tuning'
    BY <1>3, <1>5, <1>6, <2>1, <2>2, EsbIs
  <2> QED
    BY <1>11, <2>2, ExecuteIs
<1>12. CASE PairBegin \/ PairConfirm \/ PairStart
  <2>1. receiver' = receiver
    BY <1>12, PairingIs
  <2>2. (\E e : EsbLike(e) /\ Begun(e, history)) \/ UNCHANGED <<rx, history>>
    BY <1>12, PairingIs
  <2> QED
    BY <1>3, <1>5, <1>6, <2>1, <2>2
<1>13. CASE PairSearch \/ PairLook \/ PairBurst \/ PairJoin
  BY <1>6, <1>13 DEF PairSearch, PairLook, PairBurst, PairJoin, Stays
<1>14. CASE Console
  <2>1. receiver' = receiver /\ (Begun(esb, history) \/ UNCHANGED <<rx, history>>)
    BY <1>14, ConsoleIs
  <2> QED
    BY <1>3, <1>5, <1>6, <2>1
<1>15. CASE World
  <2>1. history' = history
    BY <1>15, WorldIs
  <2>2. receiver'.channel \in Channels
    <3>1. CASE receiver' = receiver
      BY <3>1 DEF Tuning
    <3>2. CASE ReplyNormal \/ \E kind \in Asks : NextAsk(kind)
      <4>1. \E k : receiver' = [receiver EXCEPT !.ask = k] \/ receiver' = [receiver EXCEPT !.ask.kind = k]
        BY <3>2 DEF ReplyNormal, NextAsk
      <4> QED
        BY <1>3, <4>1 DEF ReceiverLike, Tuning
    <3>3. CASE \E ch \in ToSet(EvenOnes(Band)) : Move(ch)
      BY <1>3, <3>3, EvenOnesIs DEF Move, ReceiverLike
    <3> QED
      BY <1>15, <3>1, <3>2, <3>3 DEF World, ReplyProof, ReplyMetadata, ReplyWom, ReplyCommand, Hold
  <2>3. rx' = rx \/ (rx'.kind = "confirm" => rx'.value = receiver.channel)
    BY <1>15 DEF World, ReplyProof, ReplyNormal, ReplyMetadata, ReplyWom, ReplyCommand, Reply, NextAsk, Move, Hold
  <2> QED
    BY <2>1, <2>2, <2>3 DEF Tuning
<1> QED
  BY <1>4, <1>7, <1>8, <1>9, <1>10, <1>11, <1>12, <1>13, <1>14, <1>15 DEF Next, EsbThread

\* No pairing and no channel is found, nobody is about to store one.
LEMMA StoreBegun ==
    ASSUME Tuning', NEW e, NEW h, Begun(e, h), owner'.at \notin {"address", "channel"}
    PROVE  StoreInv'
BY DEF Begun, StoreInv

LEMMA StoreKept ==
    ASSUME StoreInv, Tuning', stored' = stored, console' = console,
           link'.provisional => link.provisional, link'.addr = link.addr,
           history'.answered = history.answered,
           chan'.found => chan.found,
           owner'.at = "address" => owner.at = "address",
           owner'.at \in {"address", "channel"} => /\ owner.at \in {"address", "channel"}
                                                   /\ owner'.channel = owner.channel /\ chan'.at = chan.at
    PROVE  StoreInv'
BY DEF StoreInv, Vouched

LEMMA StoreHeard ==
    ASSUME Typed, ProofIsHere, StoreInv, Tuning', Interrupt
    PROVE  StoreInv'
<1>1. CASE Discard
  <2>1. history'.answered = history.answered /\ chan'.at = chan.at /\ chan'.found = chan.found
    BY <1>1, AdvertisedIs, ProofIs DEF Discard
  <2> QED
    BY <1>1, <2>1, StoreKept DEF Discard, threads
<1>2. CASE Redirect
  <2>1. history'.answered = history.answered /\ chan'.at = chan.at /\ ~chan'.found
    BY <1>2, AdvertisedIs DEF Redirect, Typed, ChanLike
  <2> QED
    BY <1>2, <2>1, StoreKept DEF Redirect, threads
<1>3. ASSUME NEW restarted \in BOOLEAN, Hearing(restarted)
      PROVE  StoreInv'
  BY <1>3 DEF Hearing, StoreInv, Vouched
<1>4. ASSUME NEW fast \in BOOLEAN, NEW restarted \in BOOLEAN,
             \/ HearProof(fast, restarted)
             \/ HearNormal(fast, restarted)
             \/ HearMetadata(fast, restarted)
             \/ HearWom(fast, restarted)
             \/ HearCommand(fast, restarted)
      PROVE  StoreInv'
  BY <1>3, <1>4, HearProofIs, HearNormalIs, HearMetadataIs, HearWomIs, HearCommandIs
<1> QED
  BY <1>1, <1>2, <1>4 DEF Interrupt

\* The poll stores what it has found, unless the session ends before: then it stores nothing.
LEMMA StoreOwner ==
    ASSUME Typed, ProofIsHere, StoreInv, Tuning', Owner \/ Expired
    PROVE  StoreInv'
<1> USE DEF threads, remote, radio, medium, world
<1>1. OwnerLike(owner) /\ ChanLike(chan) /\ link \in Links /\ StoredLike(stored)
  BY DEF Typed
<1>2. /\ \A pc \in OwnerAts : At(pc).at = pc /\ At(pc).channel = owner.channel
      /\ Leave.at = "idle" /\ Sent.at = "idle"
      /\ \A pc \in OwnerAts, b \in BOOLEAN : [At(pc) EXCEPT !.probed = b].at = pc
  BY <1>1 DEF At, Leave, Sent, OwnerLike, OwnerAts
<1>3. ASSUME UNCHANGED <<link, stored, console, history>>, chan'.found => chan.found,
             owner'.at \notin {"address", "channel"}
      PROVE  StoreInv'
  BY <1>3, StoreKept
<1>4. CASE Recover
  BY <1>2, <1>4, OwnerIs, StoreBegun
<1>5. CASE PollHeld \/ PollSearch \/ PingDue \/ ReadFlag \/ ReadData
  <2>1. owner'.at \notin {"address", "channel"}
    BY <1>1, <1>5 DEF PollHeld, PollSearch, PingDue, ReadFlag, ReadData, At, Serves, OwnerLike
  <2>2. chan'.found => chan.found
    BY <1>1, <1>5 DEF PollHeld, PollSearch, PingDue, ReadFlag, ReadData, ChanLike
  <2> QED
    BY <1>3, <1>5, <2>1, <2>2 DEF PollHeld, PollSearch, PingDue, ReadFlag, ReadData
<1>6. CASE PollFound
  <2>1. owner'.at = "address"
    BY <1>1, <1>6 DEF PollFound, At, OwnerLike, OwnerAts
  <2>2. owner'.channel = stored.channel \/ Decoded(owner'.channel) = chan.at
    <3> DEFINE ch == IF chan.confirmed /\ (link.provisional \/ Decoded(stored.channel) # chan.at)
                     THEN IF chan.at = Default THEN Preset ELSE chan.at
                     ELSE stored.channel
    <3>1. owner'.channel = ch
      BY <1>1, <1>6 DEF PollFound, At, OwnerLike, OwnerAts
    <3>2. chan.confirmed => chan.at \in Channels
      BY DEF ProofIsHere, StoreInv, Tuning
    <3>3. Preset \notin Channels /\ Decoded(Preset) = Default
      BY RadioAssumption DEF Preset, Channels, Decoded
    <3>4. chan.confirmed => Decoded(IF chan.at = Default THEN Preset ELSE chan.at) = chan.at
      BY <3>2, <3>3 DEF Decoded
    <3> QED
      BY <3>1, <3>4
  <2>3. chan.found
    BY <1>6 DEF PollFound
  <2> QED
    BY <1>6, <2>1, <2>2, <2>3 DEF PollFound, StoreInv, Vouched
<1>7. CASE StoreAddress
  <2>1. owner'.at = "channel" /\ owner'.channel = owner.channel /\ owner.at = "address"
    BY <1>2, <1>7 DEF StoreAddress, OwnerAts
  <2>2. stored'.channel = stored.channel /\ (stored' = stored \/ (link.provisional /\ stored'.addr = link.addr))
    BY <1>1, <1>7 DEF StoreAddress, StoredLike
  <2> QED
    BY <1>7, <2>1, <2>2 DEF StoreAddress, StoreInv, Vouched
<1>8. CASE StoreChannel
  <2>1. owner'.at = "settle"
    BY <1>2, <1>8 DEF StoreChannel, OwnerAts
  <2>2. stored'.addr = stored.addr
    BY <1>1, <1>8 DEF StoreChannel, StoredLike
  <2> QED
    BY <1>8, <2>1, <2>2 DEF StoreChannel, StoreInv, Vouched
<1>9. CASE Settle
  <2>1. owner'.at = "idle"
    BY <1>2, <1>9 DEF Settle
  <2>2. ~chan'.found
    BY <1>1, <1>9 DEF Settle, ChanLike
  <2> QED
    BY <2>1, <2>2 DEF StoreInv
<1>10. CASE FollowRedirect \/ Probe \/ Wait
  <2>1. owner' \in {Leave, At("flag"), At("tuned")}
    BY <1>10 DEF FollowRedirect, Probe, Wait
  <2>2. owner'.at \notin {"address", "channel"}
    BY <1>2, <2>1 DEF OwnerAts
  <2>3. chan'.found => chan.found
    BY <1>1, <1>10 DEF FollowRedirect, Probe, Wait, ChanLike
  <2> QED
    BY <1>3, <1>10, <2>2, <2>3 DEF FollowRedirect, Probe, Wait
<1>11. CASE Tuned \/ Hop \/ Expired
  <2>1. owner' \in {[At("flag") EXCEPT !.probed = FALSE], At("hop")}
    BY <1>11 DEF Tuned, Hop, Expired
  <2>2. [At("flag") EXCEPT !.probed = FALSE].at = "flag" /\ At("hop").at = "hop"
    BY <1>2 DEF OwnerAts
  <2>3. owner'.at \notin {"address", "channel"}
    BY <2>1, <2>2
  <2>4. chan'.found => chan.found
    BY <1>1, <1>11 DEF Tuned, Hop, Expired, HopUnproven, ChanLike
  <2> QED
    BY <1>3, <1>11, <2>3, <2>4 DEF Tuned, Hop, Expired
<1>12. CASE SealPing
  <2>1. CASE owner' \in {Leave, Sent}
    BY <1>2, <1>3, <1>12, <2>1 DEF SealPing
  <2>2. CASE owner' = [Prepared(owner) EXCEPT !.at = "send", !.locked = TRUE]
    <3>1. owner'.at = "send"
      BY <1>1, <2>2, SealedIs
    <3> QED
      BY <1>3, <1>12, <3>1 DEF SealPing
  <2> QED
    BY <1>12, <2>1, <2>2 DEF SealPing
<1>13. CASE SendPing
  <2>1. owner'.at = "idle"
    BY <1>2, <1>13 DEF SendPing
  <2> QED
    BY <1>3, <1>13, <2>1 DEF SendPing
<1> QED
  BY <1>4, <1>5, <1>6, <1>7, <1>8, <1>9, <1>10, <1>11, <1>12, <1>13 DEF Owner

LEMMA StoreEsb ==
    ASSUME Typed, ChannelInv, StoreInv, Tuning', EsbThread \/ PingTimeout \/ PollExpired
    PROVE  StoreInv'
<1> USE DEF threads, remote, radio, medium, world
<1>1. /\ EsbLike(esb) /\ HistoryLike(history) /\ ChanLike(chan) /\ link \in Links /\ StoredLike(stored)
  BY DEF Typed
<1>2. ~Locked => owner.at \notin {"address", "channel"}
  BY DEF Locked, ChannelInv, Locking, OwnerAts
<1>3. ASSUME NEW e, NEW h, Begun(e, h), owner' = owner, ~Locked \/ owner.at = "idle"
      PROVE  StoreInv'
  BY <1>2, <1>3, StoreBegun
<1>4. ASSUME UNCHANGED <<link, chan, stored, owner, console>>, history'.answered = history.answered
      PROVE  StoreInv'
  BY <1>4, StoreKept
<1>5. CASE WomBegin \/ WomExecute \/ WomPublish \/ CommandBegin \/ CommandPublish
  <2>1. UNCHANGED <<link, chan, stored, owner, console>>
    BY <1>5 DEF WomBegin, WomExecute, WomPublish, CommandBegin, CommandPublish
  <2>2. history' = history \/ (\E r : history' = [history EXCEPT !.ran = r]) \/ (\E o : history' = [history EXCEPT !.outcomes = o])
    BY <1>5 DEF WomBegin, WomExecute, WomPublish, CommandBegin, CommandPublish, WomDone
  <2> QED
    BY <1>1, <1>4, <2>1, <2>2 DEF HistoryLike
<1>6. CASE CommandExecute
  <2>1. UNCHANGED <<owner, console>>
    BY <1>6, ExecuteIs
  <2>2. ASSUME NEW h \in {history, Executed(history)}, history' = h, UNCHANGED <<link, chan>>,
               \/ stored' = stored
               \/ ~HasPair /\ stored' = [stored EXCEPT !.addr = Nobody]
        PROVE  StoreInv'
    <3>1. history'.answered = history.answered
      BY <1>1, <2>2 DEF Executed, HistoryLike
    <3>2. CASE ~HasPair /\ stored' = [stored EXCEPT !.addr = Nobody]
      <4>1. link.addr = Nobody /\ stored'.channel = stored.channel
        BY <1>1, <3>2 DEF HasPair, StoredLike
      <4> QED
        BY <2>1, <2>2, <3>1, <4>1 DEF StoreInv, Vouched
    <3> QED
      BY <1>4, <2>1, <2>2, <3>1, <3>2
  <2> QED
    BY <1>3, <1>6, <2>1, <2>2, ExecuteIs
<1>7. CASE PairBegin \/ PairConfirm \/ PairStart
  <2>1. UNCHANGED <<stored, owner, console>>
    BY <1>7, PairingIs
  <2>2. ASSUME NEW e, Begun(e, history), ~Locked
        PROVE  StoreInv'
    BY <1>3, <2>1, <2>2
  <2>3. CASE history' = history /\ chan' = chan /\ link' \in {link, [link EXCEPT !.pairing = FALSE]}
    <3>1. link'.addr = link.addr /\ link'.provisional = link.provisional
      BY <1>1, <2>3 DEF Links
    <3> QED
      BY <2>1, <2>3, <3>1, StoreKept
  <2> QED
    BY <1>7, <2>2, <2>3, PairingIs
<1>8. CASE PairSearch \/ PairLook \/ PairJoin
  <2>1. UNCHANGED <<stored, owner, console, history>>
    BY <1>8 DEF PairSearch, PairLook, PairJoin, Stays
  <2>2. chan'.at = chan.at /\ chan'.found = chan.found /\ link'.addr = link.addr /\ link'.provisional = link.provisional
    BY <1>1, <1>8 DEF PairSearch, PairLook, PairJoin, ChanLike, Links
  <2> QED
    BY <2>1, <2>2, StoreKept
<1>9. CASE PairBurst
  <2>1. owner' = owner /\ ~Locked
    BY <1>9 DEF PairBurst
  <2>2. ~chan.found
    BY <1>9 DEF PairBurst, ChannelInv, Still, Pairing
  <2>3. ~chan'.found
    BY <1>1, <1>9, <2>2 DEF PairBurst, ChanLike
  <2> QED
    BY <1>2, <2>1, <2>3 DEF StoreInv
<1>10. CASE PingTimeout
  BY <1>4, <1>10 DEF PingTimeout
<1>11. CASE PollExpired
  BY <1>3, <1>11, ExpiredIs
<1> QED
  BY <1>5, <1>6, <1>7, <1>8, <1>9, <1>10, <1>11 DEF EsbThread

LEMMA StoreConsole ==
    ASSUME Typed, ChannelInv, StoreInv, Tuning', Console
    PROVE  StoreInv'
<1>1. owner' = owner /\ ChanLike(chan) /\ link \in Links /\ StoredLike(stored)
  BY ConsoleIs DEF Typed
<1>2. CASE Begun(esb, history) /\ ~Locked
  BY <1>1, <1>2, StoreBegun DEF Locked, ChannelInv, Locking, OwnerAts
<1>3. CASE /\ UNCHANGED <<stored, history>>
           /\ chan' \in {chan, [chan EXCEPT !.capable = FALSE]}
           /\ \/ link' = [link EXCEPT !.addr = console.addr] /\ console' # Unused
              \/ link' = [link EXCEPT !.state = "pairing", !.addr = Nobody]
  <2>1. chan'.at = chan.at /\ chan'.found = chan.found /\ link'.provisional = link.provisional
    BY <1>1, <1>3 DEF ChanLike, Links
  <2>2. console' # Unused \/ link'.addr = Nobody
    BY <1>1, <1>3 DEF Links
  <2> QED
    BY <1>1, <1>3, <2>1, <2>2 DEF StoreInv, Vouched
<1>4. CASE UNCHANGED <<link, chan, history>> /\ stored' = stored /\ (console' = console \/ console' # Unused \/ ~HasPair)
  BY <1>1, <1>4 DEF StoreInv, Vouched, HasPair
<1>5. CASE UNCHANGED <<link, chan, history>> /\ ConsoleWrite
  <2>1. stored'.addr = link.addr /\ stored'.channel = stored.channel
    BY <1>1, <1>5 DEF ConsoleWrite, StoredLike
  <2> QED
    BY <1>1, <1>5, <2>1 DEF StoreInv, Vouched
<1> QED
  BY <1>2, <1>3, <1>4, <1>5, ConsoleIs

LEMMA StoreStep == Typed /\ ChannelInv /\ StoreInv /\ [Next]_vars => StoreInv'
<1> SUFFICES ASSUME Typed, ChannelInv, StoreInv, [Next]_vars
             PROVE  StoreInv'
  OBVIOUS
<1>1. CASE Next
  <2>1. ProofIsHere /\ Tuning'
    BY <1>1, TuningStep DEF ChannelInv, StoreInv
  <2>2. World => StoreInv'
    BY <2>1, WorldIs, StoreKept
  <2> QED
    BY <1>1, <2>1, <2>2, StoreHeard, StoreOwner, StoreEsb, StoreConsole DEF Next
<1>2. CASE UNCHANGED vars
  BY <1>2 DEF vars, StoreInv, Tuning, Vouched
<1> QED
  BY <1>1, <1>2

LEMMA StoreInit == Init => StoreInv
<1> SUFFICES ASSUME Init PROVE StoreInv
  OBVIOUS
<1>1. receiver.channel \in Channels
  BY EvenOnesIs DEF Init
<1>2. 0 \in Channels
  BY RadioAssumption DEF Channels
<1> QED
  BY <1>1, <1>2 DEF Init, NoPong, Free, StoreInv, Tuning

\* What the poll stores was proven in this session: an address only of a
\* receiver that has answered on the paired pipes, a channel only as the
\* receiver has proved it to be on.
THEOREM StoresOnlyProven == Spec => StoresProven
<1> DEFINE Inv == Typed /\ ChannelInv /\ StoreInv
           Step == owner.at \in {"address", "channel"} /\ owner' # owner =>
                      /\ stored'.addr # stored.addr =>
                            stored'.addr \in history.answered \union {Nobody} \/ console # Unused
                      /\ stored'.channel # stored.channel => Decoded(stored'.channel) = history.proven
<1>1. Init => Inv
  BY ChannelInit, StoreInit
<1>2. Inv /\ [Next]_vars => Inv'
  BY ChannelStep, StoreStep
<1>3. Inv /\ [Next]_vars => [Step]_vars
  <2> SUFFICES ASSUME Inv, Next, owner.at \in {"address", "channel"}, owner' # owner
               PROVE  Step
    OBVIOUS
  <2>1. CASE StoreAddress
    <3>1. stored'.channel = stored.channel /\ (stored' = stored \/ (link.provisional /\ stored'.addr = link.addr))
      BY <2>1 DEF StoreAddress, Typed, StoredLike
    <3>2. owner.at = "address"
      BY <2>1 DEF StoreAddress
    <3> QED
      BY <3>1, <3>2 DEF StoreInv, Vouched
  <2>2. CASE StoreChannel
    <3>1. /\ stored'.addr = stored.addr
          /\ stored' = stored \/ (chan.confirmed /\ stored'.channel = owner.channel)
      BY <2>2 DEF StoreChannel, Typed, StoredLike
    <3> QED
      BY <3>1 DEF ChannelInv, ProofIsHere, StoreInv
  <2>3. CASE ~StoreAddress /\ ~StoreChannel
    <3>1. owner' = owner \/ Owner \/ Expired
      <4>1. Interrupt => owner' = owner
        BY DEF Interrupt, Discard, Redirect, HearProof, HearNormal, HearMetadata, HearWom, HearCommand, Hears, threads
      <4>2. EsbThread \/ PingTimeout \/ PollExpired => owner' = owner
        BY ExecuteIs, PairingIs, ExpiredIs
           DEF EsbThread, WomBegin, WomExecute, WomPublish, CommandBegin, CommandPublish, PairSearch, PairLook,
               PairBurst, PairJoin, PingTimeout, threads
      <4> QED
        BY <4>1, <4>2, ConsoleIs, WorldIs DEF Next
    <3>2. ~(Owner \/ Expired)
      BY <2>3 DEF Owner, PollHeld, PollFound, Settle, PollSearch, FollowRedirect, Tuned, Probe, Wait, Hop, PingDue,
         ReadFlag, ReadData, SealPing, SendPing, Recover, Expired, Serves
    <3> QED
      BY <3>1, <3>2
  <2> QED
    BY <2>1, <2>2, <2>3
<1>4. Spec => [][Step]_vars
  BY <1>1, <1>2, <1>3, PTL DEF Spec
<1> QED
  BY <1>4 DEF StoresProven

-----------------------------------------------------------------------------
(* The transactions of the sleep timeout *)

\* The ESB thread executes the transaction that was received last.
Busy(e) == e.doing = "wom" /\ e.current

LEMMA NothingIs ==
    /\ NoWom.ask.token = 0 /\ NoWom.ask.kind = "none" /\ ~NoWom.cached /\ ~NoWom.pending /\ ~NoWom.requested
    /\ NoWom.sent.flag \notin WomFlags /\ Unsent.flag \notin WomFlags
    /\ NoPong.kind \notin {"normal", "wom"}
BY DEF NoWom, NoAsk, Unsent, WomFlags, NoPong

LEMMA BusyIs ==
    ASSUME NEW e, EsbLike(e)
    PROVE  ~Busy(Outdated(e, "wom")) /\ (Busy(Outdated(e, "command")) <=> Busy(e))
<1> DEFINE f == Outdated(e, "wom")
           g == Outdated(e, "command")
<1>1. f.doing = e.doing /\ (f.current <=> e.current /\ e.doing # "wom")
  BY OutdatedIs
<1>2. g.doing = e.doing /\ (g.current <=> e.current /\ e.doing # "command")
  BY OutdatedIs
<1> HIDE DEF f, g
<1>3. ~Busy(f) /\ (Busy(g) <=> Busy(e))
  BY <1>1, <1>2 DEF Busy
<1> QED
  BY <1>3 DEF f, g

LEMMA TransactionKept ==
    ASSUME TransactionInv, wom' = wom, history'.ran = history.ran, receiver' = receiver,
           rx' \in {rx, NoPong}, ping'.counter = ping.counter, air' \in {air, NoPing},
           owner'.at = "send" => owner' = owner,
           Busy(esb') <=> Busy(esb), Busy(esb) => esb'.ask = esb.ask
    PROVE  TransactionInv'
<1>1. Tokens'
  BY NothingIs DEF TransactionInv, Tokens
<1>2. OnAir'
  BY NothingIs DEF TransactionInv, OnAir, Later
<1>3. Once'
  BY NothingIs DEF TransactionInv, Once, Acts, Later, Busy
<1> QED
  BY <1>1, <1>2, <1>3 DEF TransactionInv

LEMMA TransactionReset ==
    ASSUME Typed, TransactionInv, wom' = NoWom, history'.ran = {}, receiver' = receiver,
           rx' = NoPong, ping'.counter = ping.counter, air' \in {air, NoPing},
           owner'.at = "send" => owner' = owner, ~Busy(esb')
    PROVE  TransactionInv'
<1>1. receiver.ask \in AskRecords
  BY DEF Typed, ReceiverLike
<1>2. Tokens'
  BY <1>1, NothingIs DEF TransactionInv, Tokens, AskRecords
<1>3. OnAir'
  BY NothingIs DEF TransactionInv, OnAir, Later
<1>4. Once'
  BY NothingIs DEF TransactionInv, Once, Acts, Later, Busy
<1> QED
  BY <1>2, <1>3, <1>4 DEF TransactionInv

LEMMA TransactionBegun ==
    ASSUME Typed, TransactionInv, NEW e, EsbLike(e), NEW h, HistoryLike(h), Begun(e, h),
           receiver' = receiver, owner'.at = "send" => owner' = owner
    PROVE  TransactionInv'
<1>1. /\ wom' = NoWom /\ rx' = NoPong /\ air' = NoPing /\ ping'.counter = ping.counter /\ history'.ran = {}
      /\ ~Busy(esb')
  BY BegunEsb DEF Begun, Busy
<1> QED
  BY <1>1, TransactionReset

\* An outcome is dropped only when the receiver has seen it: it asks for that
\* transaction no more.
LEMMA RetiredKeeps ==
    ASSUME Typed, TransactionInv, Hearing(FALSE), rx.kind = "normal", wom' = Retired(wom),
           history'.ran = history.ran,
           Busy(esb') <=> Busy(esb), Busy(esb) => esb'.ask = esb.ask
    PROVE  TransactionInv'
<1>1. /\ rx' = NoPong /\ receiver' = receiver /\ owner' = owner /\ air' = air
      /\ rx.counter = ping.counter /\ ping'.counter = ping.counter
  BY DEF Hearing
<1>2. WomLike(wom)
  BY DEF Typed
<1>3. CASE wom' = wom
  BY <1>1, <1>3, TransactionKept
<1>4. CASE wom' # wom
  <2>1. /\ wom.pending /\ wom.sent = [flag |-> wom.flag, token |-> wom.done.token]
        /\ wom' = [wom EXCEPT !.pending = FALSE, !.cached = FALSE]
    BY <1>4 DEF Retired
  <2>2. /\ ~wom'.pending /\ ~wom'.cached /\ wom'.ask = wom.ask /\ wom'.requested = wom.requested
        /\ wom'.sent = wom.sent
    BY <1>2, <2>1 DEF WomLike
  <2>3. Later(receiver.ask, wom.ask.token)
    <3>1. wom.sent.flag \in WomFlags /\ wom.sent.token = wom.ask.token
      BY <2>1 DEF TransactionInv, Once
    <3> QED
      BY <1>1, <3>1 DEF TransactionInv, OnAir
  <2>4. Tokens'
    BY <1>1, <2>2, NothingIs DEF TransactionInv, Tokens
  <2>5. OnAir'
    BY <1>1, <2>2, NothingIs DEF TransactionInv, OnAir, Later
  <2>6. Once'
    BY <1>1, <2>2, <2>3, NothingIs DEF TransactionInv, Once, Acts, Later, Busy
  <2> QED
    BY <2>4, <2>5, <2>6 DEF TransactionInv
<1> QED
  BY <1>3, <1>4

\* A transaction is received: one whose outcome is cached is reported again,
\* one that waits goes on waiting, a new one replaces what there was.
LEMMA ReceivedOnce ==
    ASSUME Typed, ProofIsHere, TransactionInv, NEW fast \in BOOLEAN, NEW restarted \in BOOLEAN,
           HearWom(fast, restarted)
    PROVE  TransactionInv'
<1> DEFINE w == Wom(restarted)
           known == w.cached /\ rx.ask = w.done /\ Valid(w, rx.ask)
           waits == w.requested /\ rx.ask = w.ask
<1>1. /\ Hearing(restarted) /\ Remains /\ rx.kind = "wom" /\ history'.ran = Ran(restarted)
      /\ \/ /\ known /\ wom' = [w EXCEPT !.pending = TRUE] /\ esb' = Esb(restarted)
         \/ /\ ~known /\ waits /\ wom' = w /\ esb' = Esb(restarted)
         \/ /\ ~known /\ ~waits /\ esb' = Outdated(esb, "wom")
            /\ wom' = [w EXCEPT !.ask = rx.ask, !.requested = TRUE, !.pending = FALSE, !.sent = Unsent]
  BY HearWomIs
<1>2. /\ rx' = NoPong /\ receiver' = receiver /\ owner' = owner /\ air' = air
      /\ ping'.counter = ping.counter
  BY <1>1 DEF Hearing
<1>3. WomLike(wom) /\ WomLike(w) /\ EsbLike(esb) /\ rx.ask \in AskRecords /\ receiver.ask \in AskRecords
      /\ history.ran \in SUBSET Nat
  BY WomIs DEF Typed, RxLike, ReceiverLike, HistoryLike
<1>4. restarted => w = NoWom /\ Ran(restarted) = {} /\ Esb(restarted) = Outdated(esb, "wom")
  BY DEF Wom, Ran, Esb
<1>5. ~restarted => w = wom /\ Ran(restarted) = history.ran /\ Esb(restarted) = esb
  BY DEF Wom, Ran, Esb
<1>6. ~Busy(Outdated(esb, "wom"))
  BY <1>3, BusyIs
<1>7. /\ wom.ask.token <= rx.ask.token /\ rx.ask.token <= receiver.ask.token /\ rx.ask.kind # "none"
      /\ wom.ask.token = rx.ask.token => wom.ask = rx.ask
      /\ receiver.ask.token = rx.ask.token /\ receiver.ask.kind # "none" => receiver.ask = rx.ask
  BY <1>1 DEF TransactionInv, Tokens
<1> HIDE DEF w
<1>8. CASE known
  <2>1. ~restarted /\ w = wom /\ wom' = [wom EXCEPT !.pending = TRUE] /\ esb' = esb /\ history'.ran = history.ran
    BY <1>1, <1>4, <1>5, <1>8, NothingIs
  <2>2. wom.cached /\ wom.done = wom.ask
    <3>1. wom.cached /\ wom.done = rx.ask /\ wom.done.token <= wom.ask.token
      BY <1>8, <2>1 DEF TransactionInv, Once
    <3>2. wom.ask.token = rx.ask.token
      BY <1>3, <1>7, <3>1 DEF WomLike, AskRecords
    <3> QED
      BY <1>7, <3>1, <3>2
  <2>3. /\ wom'.pending /\ wom'.cached = wom.cached /\ wom'.ask = wom.ask /\ wom'.requested = wom.requested
        /\ wom'.sent = wom.sent /\ wom'.done = wom.done /\ wom'.flag = wom.flag
    BY <1>3, <2>1 DEF WomLike
  <2>4. Tokens' /\ OnAir'
    BY <1>2, <2>1, <2>3, NothingIs DEF TransactionInv, Tokens, OnAir, Later
  <2>5. Once'
    BY <1>2, <2>1, <2>2, <2>3, NothingIs DEF TransactionInv, Once, Acts, Later
  <2> QED
    BY <2>4, <2>5 DEF TransactionInv
<1>9. CASE ~known /\ waits
  <2>1. ~restarted /\ wom' = wom /\ esb' = esb /\ history'.ran = history.ran
    BY <1>1, <1>4, <1>5, <1>9, NothingIs
  <2> QED
    BY <1>2, <2>1, TransactionKept
<1>10. CASE ~known /\ ~waits
  <2>1. /\ wom'.ask = rx.ask /\ wom'.requested /\ ~wom'.pending /\ wom'.sent = Unsent
        /\ wom'.cached = w.cached /\ wom'.done = w.done /\ wom'.flag = w.flag /\ ~Busy(esb')
    BY <1>1, <1>3, <1>6, <1>10 DEF WomLike
  <2>2. history'.ran \subseteq history.ran /\ (w.cached => w = wom)
    BY <1>1, <1>4, <1>5, NothingIs
  <2>3. Tokens'
    <3>1. \A t \in history'.ran : t <= rx.ask.token
      BY <1>3, <1>7, <2>2 DEF TransactionInv, Tokens, WomLike, AskRecords
    <3> QED
      BY <1>2, <1>7, <2>1, <3>1, NothingIs DEF TransactionInv, Tokens
  <2>4. OnAir'
    BY <1>2, <2>1, NothingIs DEF TransactionInv, OnAir, Later
  <2>5. Acts' /\ wom'.cached => wom'.done # wom'.ask
    BY <1>10, <2>1 DEF Acts, Valid
  <2>6. Acts' => rx.ask.token \notin history'.ran
    <3> SUFFICES ASSUME Acts', rx.ask.token \in history'.ran
                 PROVE  FALSE
      OBVIOUS
    <3>1. ~restarted /\ history'.ran = history.ran /\ w = wom
      BY <1>1, <1>4, <1>5
    <3>2. wom.ask = rx.ask
      <4>1. rx.ask.token <= wom.ask.token
        BY <3>1 DEF TransactionInv, Tokens
      <4> QED
        BY <1>3, <1>7, <4>1 DEF WomLike, AskRecords
    <3>3. Acts /\ ~wom.requested /\ wom.ask.token \in history.ran
      BY <1>10, <2>1, <3>1, <3>2 DEF Acts
    <3>4. ~(wom.cached /\ wom.done = wom.ask)
      BY <2>1, <2>5, <3>1, <3>2
    <3>5. rx.ask.token > wom.ask.token
      BY <1>1, <3>3, <3>4 DEF TransactionInv, Once
    <3> QED
      BY <1>3, <3>2, <3>5 DEF AskRecords
  <2>7. Once'
    <3>1. wom'.cached => wom'.flag \in WomFlags /\ wom'.done.token <= wom'.ask.token
      <4>1. wom.cached => wom.flag \in WomFlags /\ wom.done.token <= wom.ask.token
        BY DEF TransactionInv, Once
      <4>2. wom.done.token \in Nat /\ wom.ask.token \in Nat /\ rx.ask.token \in Nat
        BY <1>3 DEF WomLike, AskRecords
      <4>3. wom'.cached => wom.cached /\ wom'.flag = wom.flag /\ wom'.done = wom.done
        BY <2>1, <2>2
      <4>4. wom.done.token <= wom.ask.token => wom.done.token <= rx.ask.token
        BY <1>7, <4>2
      <4>5. wom'.ask = rx.ask
        BY <2>1
      <4> HIDE DEF known, waits
      <4> QED
        BY <4>1, <4>3, <4>4, <4>5
    <3> QED
      BY <2>1, <2>5, <2>6, <3>1 DEF Once, Busy
  <2> QED
    BY <2>3, <2>4, <2>7 DEF TransactionInv
<1> QED
  BY <1>8, <1>9, <1>10

LEMMA TransactionHeard ==
    ASSUME Typed, ProofIsHere, TransactionInv, Interrupt
    PROVE  TransactionInv'
<1>1. EsbLike(esb)
  BY DEF Typed
<1>2. CASE Discard \/ Redirect
  <2>1. /\ history'.ran = history.ran /\ rx' = NoPong /\ UNCHANGED <<wom, esb, owner, air, receiver>>
        /\ ping'.counter = ping.counter
    BY <1>2, AdvertisedIs DEF Discard, Redirect, remote, threads, Typed, PingLike
  <2> QED
    BY <2>1, TransactionKept
<1>3. ASSUME NEW restarted \in BOOLEAN, Hearing(restarted), wom' = NoWom, history'.ran = {}, ~Busy(esb')
      PROVE  TransactionInv'
  BY <1>3, TransactionReset DEF Hearing
<1>4. ASSUME NEW restarted \in BOOLEAN, Hearing(restarted), wom' = wom, history'.ran = history.ran,
             Busy(esb') <=> Busy(esb), Remains
      PROVE  TransactionInv'
  BY <1>4, TransactionKept DEF Hearing, Remains, SameThread
<1>5. /\ Wom(TRUE) = NoWom /\ Ran(TRUE) = {} /\ Esb(TRUE) = Outdated(esb, "wom")
      /\ Wom(FALSE) = wom /\ Ran(FALSE) = history.ran /\ Esb(FALSE) = esb
  BY DEF Wom, Ran, Esb
<1>6. ~Busy(Outdated(esb, "wom"))
  BY <1>1, BusyIs
<1>7. Busy(Outdated(esb, "command")) <=> Busy(esb)
  BY <1>1, BusyIs
<1>8. ASSUME NEW fast \in BOOLEAN, NEW restarted \in BOOLEAN,
             HearProof(fast, restarted) \/ HearMetadata(fast, restarted)
      PROVE  TransactionInv'
  <2>1. /\ Hearing(restarted) /\ Remains /\ wom' = Wom(restarted) /\ esb' = Esb(restarted)
        /\ history'.ran = Ran(restarted)
    BY <1>8, HearProofIs, HearMetadataIs
  <2>2. CASE restarted
    BY <1>3, <1>5, <1>6, <2>1, <2>2
  <2>3. CASE ~restarted
    BY <1>4, <1>5, <2>1, <2>3
  <2> QED
    BY <2>2, <2>3
<1>9. ASSUME NEW fast \in BOOLEAN, NEW restarted \in BOOLEAN, HearNormal(fast, restarted)
      PROVE  TransactionInv'
  <2>1. /\ Hearing(restarted) /\ Remains /\ rx.kind = "normal" /\ history'.ran = Ran(restarted)
        /\ wom' \in {Wom(restarted), Retired(Wom(restarted))}
        /\ esb' \in {Esb(restarted), Outdated(Esb(restarted), "command")}
        /\ restarted => ~Busy(esb')
    BY <1>9, HearNormalIs DEF Remains, SameThread, Busy
  <2>2. CASE restarted
    <3>1. wom' = NoWom
      BY <1>5, <2>1, <2>2, NothingIs DEF Retired
    <3> QED
      BY <1>3, <1>5, <2>1, <2>2, <3>1
  <2>3. CASE ~restarted
    <3>1. Busy(esb') <=> Busy(esb)
      BY <1>5, <1>7, <2>1, <2>3
    <3> QED
      BY <1>4, <1>5, <2>1, <2>3, <3>1, RetiredKeeps DEF Remains, SameThread
  <2> QED
    BY <2>2, <2>3
<1>10. ASSUME NEW fast \in BOOLEAN, NEW restarted \in BOOLEAN, HearCommand(fast, restarted)
       PROVE  TransactionInv'
  <2>1. /\ Hearing(restarted) /\ Remains /\ wom' = NoWom /\ history'.ran = {}
        /\ ~esb'.current \/ esb.doing # "wom"
    BY <1>10, HearCommandIs
  <2> QED
    BY <1>3, <2>1 DEF Remains, SameThread, Busy
<1> QED
  BY <1>2, <1>8, <1>9, <1>10, ReceivedOnce DEF Interrupt

LEMMA TransactionOwner ==
    ASSUME Typed, TransactionInv, Owner \/ Expired
    PROVE  TransactionInv'
<1> USE DEF threads, remote, radio, medium, world
<1>1. OwnerLike(owner) /\ WomLike(wom) /\ EsbLike(esb) /\ HistoryLike(history) /\ PingLike(ping)
      /\ receiver.ask \in AskRecords /\ owner.data.token \in Nat
  BY DEF Typed, ReceiverLike
<1>2. ASSUME UNCHANGED <<wom, esb, air, history, receiver>>, rx' \in {rx, NoPong}, ping'.counter = ping.counter,
             owner'.at # "send"
      PROVE  TransactionInv'
  BY <1>2, TransactionKept
<1>3. /\ \A pc \in OwnerAts : At(pc).at = pc /\ Leave.at = "idle" /\ Sent.at = "idle"
      /\ \A pc \in OwnerAts, b \in BOOLEAN : [At(pc) EXCEPT !.probed = b].at = pc
  BY <1>1 DEF At, Leave, Sent, OwnerLike, OwnerAts
<1>4. CASE Recover
  BY <1>1, <1>3, <1>4, OwnerIs, TransactionBegun DEF OwnerAts
<1>5. CASE PollHeld \/ PollFound \/ PollSearch \/ PingDue \/ ReadFlag \/ ReadData
  <2>1. owner'.at # "send"
    BY <1>1, <1>5 DEF PollHeld, PollFound, PollSearch, PingDue, ReadFlag, ReadData, At, Serves, OwnerLike
  <2>2. ping'.counter = ping.counter /\ rx' \in {rx, NoPong}
    BY <1>1, <1>5 DEF PollHeld, PollFound, PollSearch, PingDue, ReadFlag, ReadData, PingLike
  <2> QED
    BY <1>2, <1>5, <2>1, <2>2 DEF PollHeld, PollFound, PollSearch, PingDue, ReadFlag, ReadData
<1>6. CASE StoreAddress \/ StoreChannel \/ Settle \/ FollowRedirect \/ Probe \/ Wait
  <2>1. owner' \in {Leave, At("channel"), At("settle"), At("flag"), At("tuned")}
    BY <1>6 DEF StoreAddress, StoreChannel, Settle, FollowRedirect, Probe, Wait
  <2>2. owner'.at # "send"
    BY <1>3, <2>1 DEF OwnerAts
  <2>3. ping'.counter = ping.counter /\ rx' \in {rx, NoPong}
    BY <1>1, <1>6 DEF StoreAddress, StoreChannel, Settle, FollowRedirect, Probe, Wait, PingLike
  <2> QED
    BY <1>2, <1>6, <2>2, <2>3 DEF StoreAddress, StoreChannel, Settle, FollowRedirect, Probe, Wait
<1>7. CASE Tuned \/ Hop \/ Expired
  <2>1. owner' \in {[At("flag") EXCEPT !.probed = FALSE], At("hop")}
    BY <1>7 DEF Tuned, Hop, Expired
  <2>2. [At("flag") EXCEPT !.probed = FALSE].at = "flag" /\ At("hop").at = "hop"
    BY <1>3 DEF OwnerAts
  <2>3. owner'.at # "send"
    BY <2>1, <2>2
  <2>4. ping'.counter = ping.counter /\ rx' \in {rx, NoPong}
    BY <1>1, <1>7 DEF Tuned, Hop, Expired, PingLike
  <2> QED
    BY <1>2, <1>7, <2>3, <2>4 DEF Tuned, Hop, Expired
<1>8. CASE SealPing
  <2>1. UNCHANGED <<wom, esb, air, history, ping, rx, receiver>>
    BY <1>8 DEF SealPing
  <2>2. CASE owner' \in {Leave, Sent}
    BY <1>2, <1>3, <2>1, <2>2 DEF OwnerAts
  <2>3. CASE owner' = [Prepared(owner) EXCEPT !.at = "send", !.locked = TRUE]
    <3>1. \/ owner'.flag \notin WomFlags
          \/ wom.pending /\ owner'.data.token = wom.done.token
      BY <1>1, <2>3, SealedIs DEF Outcome
    <3>2. wom.pending => wom.done.token <= receiver.ask.token
      <4>1. wom.pending => wom.done = wom.ask /\ wom.ask.token <= receiver.ask.token
        BY DEF TransactionInv, Once, Tokens
      <4> QED
        BY <4>1
    <3>3. OnAir'
      BY <2>1, <3>1, <3>2 DEF TransactionInv, OnAir, Later
    <3> QED
      BY <2>1, <3>3 DEF TransactionInv, Tokens, Once, Acts, Later
  <2> QED
    BY <1>8, <2>2, <2>3 DEF SealPing
<1>9. CASE SendPing
  <2>1. /\ UNCHANGED <<esb, history, rx, receiver>> /\ owner'.at = "idle" /\ owner.at = "send"
        /\ InTime((ping.counter + 1) % Counters)
    BY <1>3, <1>9 DEF SendPing, OwnerAts
  <2>2. CASE UNCHANGED <<air, wom>> /\ ping' = [ping EXCEPT !.pending = FALSE]
    <3>1. ping'.counter = ping.counter
      BY <1>1, <2>2 DEF PingLike
    <3> QED
      BY <1>2, <2>1, <2>2, <3>1
  <2>3. CASE ~(UNCHANGED <<air, wom>> /\ ping' = [ping EXCEPT !.pending = FALSE])
    <3> DEFINE counter == (ping.counter + 1) % Counters
               token == IF owner.flag \in WomFlags THEN owner.data.token ELSE 0
    <3>1. /\ ping'.counter = counter /\ air'.counter = counter
          /\ air'.flag = owner.flag /\ air'.data = owner.data
          /\ wom' = [wom EXCEPT !.sent = [flag |-> owner.flag, token |-> token]]
      BY <1>9, <2>3 DEF SendPing
    <3>2. rx.kind = "normal" => rx.counter # counter
      BY <2>1 DEF InTime
    <3> HIDE DEF counter
    <3>3. /\ wom'.sent = [flag |-> owner.flag, token |-> token] /\ wom'.ask = wom.ask /\ wom'.cached = wom.cached
          /\ wom'.done = wom.done /\ wom'.pending = wom.pending /\ wom'.requested = wom.requested
          /\ wom'.flag = wom.flag
      BY <1>1, <3>1 DEF WomLike
    <3>4. owner.flag \in WomFlags => token <= receiver.ask.token
      BY <2>1 DEF TransactionInv, OnAir
    <3>5. OnAir'
      BY <2>1, <3>1, <3>2, <3>3, <3>4 DEF OnAir
    <3>6. Tokens' /\ Once'
      BY <2>1, <3>3 DEF TransactionInv, Tokens, Once, Acts, Later
    <3> QED
      BY <3>5, <3>6 DEF TransactionInv
  <2> QED
    BY <2>2, <2>3
<1> QED
  BY <1>4, <1>5, <1>6, <1>7, <1>8, <1>9 DEF Owner

LEMMA TransactionEsb ==
    ASSUME Typed, CommandInv, TransactionInv, EsbThread \/ PingTimeout \/ PollExpired
    PROVE  TransactionInv'
<1> USE DEF threads, remote, radio, medium, world
<1>1. /\ EsbLike(esb) /\ HistoryLike(history) /\ WomLike(wom) /\ PingLike(ping)
      /\ receiver.ask \in AskRecords
  BY DEF Typed, ReceiverLike
<1>2. esb.doing # "nothing" <=> esb.at \in {"execute", "publish"}
  BY DEF CommandInv
<1>3. ASSUME UNCHANGED <<wom, rx, owner, air, receiver>>, ping'.counter = ping.counter,
             history'.ran = history.ran,
             Busy(esb') <=> Busy(esb), Busy(esb) => esb'.ask = esb.ask
      PROVE  TransactionInv'
  BY <1>3, TransactionKept
<1>4. CASE WomBegin
  <2>1. /\ UNCHANGED <<wom, rx, owner, air, receiver, ping>> /\ wom.requested
        /\ Busy(esb') /\ esb'.ask = wom.ask /\ history'.ran = history.ran \cup {wom.ask.token}
    BY <1>1, <1>4 DEF WomBegin, Asleep, Busy, HistoryLike
  <2>2. Tokens'
    <3>1. wom.ask.token \in Nat
      BY <1>1 DEF WomLike, AskRecords
    <3> QED
      BY <2>1, <3>1 DEF TransactionInv, Tokens
  <2>3. OnAir' /\ Once'
    BY <2>1 DEF TransactionInv, OnAir, Once, Acts, Later, Busy
  <2> QED
    BY <2>2, <2>3 DEF TransactionInv
<1>5. CASE WomExecute
  <2>1. UNCHANGED <<wom, rx, owner, air, receiver, ping>>
    BY <1>5 DEF WomExecute
  <2>2. \E err \in BOOLEAN : \E result : WomDone(err, result)
    BY <1>5 DEF WomExecute
  <2>3. esb'.ask = esb.ask /\ esb'.doing = esb.doing /\ esb'.current = esb.current /\ history'.ran = history.ran
    BY <1>1, <2>2 DEF WomDone, EsbLike, HistoryLike
  <2> QED
    BY <1>3, <2>1, <2>3 DEF Busy
<1>6. CASE WomPublish
  <2>1. UNCHANGED <<rx, owner, air, receiver, ping, history>> /\ esb' = Asleep /\ ~Busy(esb') /\ esb.doing = "wom"
    BY <1>6, EsbIs DEF WomPublish, Busy
  <2>2. CASE Publishes(esb)
    <3>1. wom' = [wom EXCEPT !.requested = FALSE, !.cached = TRUE, !.done = esb.ask,
                             !.result = esb.result, !.flag = IF esb.err THEN "error" ELSE "result",
                             !.pending = TRUE]
      BY <1>6, <2>2 DEF WomPublish
    <3>2. /\ wom'.cached /\ wom'.done = esb.ask /\ wom'.flag \in WomFlags /\ ~wom'.requested
          /\ wom'.ask = wom.ask /\ wom'.sent = wom.sent
      BY <1>1, <3>1 DEF WomLike, WomFlags
    <3>3. esb.ask = wom.ask /\ wom.ask.token \in Nat
      BY <1>1, <2>1, <2>2 DEF TransactionInv, Once, Publishes, WomLike, AskRecords
    <3>4. Tokens' /\ OnAir'
      BY <2>1, <3>2 DEF TransactionInv, Tokens, OnAir, Later
    <3>5. Once'
      BY <2>1, <3>2, <3>3 DEF Once, Acts, Busy
    <3> QED
      BY <3>4, <3>5 DEF TransactionInv
  <2>3. CASE ~Publishes(esb)
    BY <1>3, <1>6, <2>1, <2>3 DEF WomPublish, Publishes, Busy
  <2> QED
    BY <2>2, <2>3
<1>7. CASE CommandBegin
  <2>1. ~Busy(esb) /\ ~Busy(esb')
    BY <1>2, <1>7 DEF CommandBegin, Asleep, Busy
  <2> QED
    BY <1>3, <1>7, <2>1 DEF CommandBegin
<1>8. CASE CommandExecute
  <2>1. UNCHANGED <<owner, receiver>> /\ ~Busy(esb)
    BY <1>8, ExecuteIs DEF Busy
  <2>2. ASSUME NEW b \in BOOLEAN, NEW h \in {history, Executed(history)}, HistoryLike(h),
               EsbLike(CommandDone(b)), Begun(CommandDone(b), h)
        PROVE  TransactionInv'
    BY <2>1, <2>2, TransactionBegun
  <2>3. ASSUME NEW b \in BOOLEAN, NEW h \in {history, Executed(history)}, esb' = CommandDone(b), history' = h,
               UNCHANGED <<link, chan, ping, wom, air, rx>>
        PROVE  TransactionInv'
    <3>1. ~Busy(esb')
      BY <2>1, <2>3, EsbIs DEF Busy
    <3>2. history'.ran = history.ran
      BY <1>1, <2>3 DEF Executed, HistoryLike
    <3> QED
      BY <1>3, <2>1, <2>3, <3>1, <3>2
  <2> QED
    BY <1>8, <2>2, <2>3, ExecuteIs
<1>9. CASE CommandPublish
  <2>1. ~Busy(esb) /\ ~Busy(esb')
    BY <1>9, EsbIs DEF CommandPublish, Busy
  <2> QED
    BY <1>3, <1>9, <2>1 DEF CommandPublish
<1>10. CASE PairBegin \/ PairConfirm \/ PairStart
  <2>1. UNCHANGED <<owner, receiver>>
    BY <1>10, PairingIs
  <2>2. ASSUME NEW e, EsbLike(e), Begun(e, history)
        PROVE  TransactionInv'
    BY <1>1, <2>1, <2>2, TransactionBegun
  <2>3. CASE /\ UNCHANGED <<wom, air, rx, history>> /\ ping' \in {ping, [ping EXCEPT !.pending = FALSE]}
             /\ \/ esb' = To("join") /\ esb.at = "idle"
                \/ esb' = To("start") /\ esb.at = "confirm"
                \/ esb' = Asleep /\ esb.at = "start"
    <3>1. ~Busy(esb) /\ ~Busy(esb')
      BY <1>2, <2>3, EsbIs DEF EsbAts, Busy
    <3>2. ping'.counter = ping.counter
      BY <1>1, <2>3 DEF PingLike
    <3> QED
      BY <1>3, <2>1, <2>3, <3>1, <3>2
  <2> QED
    BY <1>10, <2>2, <2>3, PairingIs
<1>11. CASE PairSearch \/ PairLook \/ PairBurst \/ PairJoin
  <2>1. UNCHANGED <<wom, owner, air, rx, receiver, ping, history>> /\ esb.doing = "nothing"
    BY <1>2, <1>11 DEF PairSearch, PairLook, PairBurst, PairJoin, Stays
  <2>2. esb'.doing = "nothing"
    <3>1. esb' = [To("look") EXCEPT !.stale = FALSE] \/ esb' \in {To("burst"), To("confirm"), To("start"), To("look")}
      BY <1>11 DEF PairSearch, PairLook, PairBurst, PairJoin
    <3>2. EsbLike(To("look"))
      BY EsbIs DEF EsbAts
    <3>3. LET e == [To("look") EXCEPT !.stale = FALSE] IN e.doing = esb.doing
      BY <3>2, EsbIs DEF EsbLike, EsbAts
    <3> QED
      BY <2>1, <3>1, <3>3, EsbIs DEF EsbAts
  <2> QED
    BY <1>3, <2>1, <2>2 DEF Busy
<1>12. CASE PingTimeout
  <2>1. ping'.counter = ping.counter
    BY <1>1, <1>12 DEF PingTimeout, PingLike
  <2> QED
    BY <1>3, <1>12, <2>1 DEF PingTimeout
<1>13. CASE PollExpired
  BY <1>1, <1>13, ExpiredIs, TransactionBegun
<1> QED
  BY <1>4, <1>5, <1>6, <1>7, <1>8, <1>9, <1>10, <1>11, <1>12, <1>13 DEF EsbThread

LEMMA TransactionWorld ==
    ASSUME Typed, TransactionInv, World
    PROVE  TransactionInv'
<1> USE DEF medium, world
<1>1. /\ UNCHANGED <<ping, wom, owner, esb, history>>
      /\ ReceiverLike(receiver) /\ receiver.ask \in AskRecords
      /\ WomLike(wom) /\ wom.ask.token \in Nat
  BY WorldIs DEF Typed, ReceiverLike, WomLike, AskRecords
<1>2. /\ wom.ask.token <= receiver.ask.token
      /\ wom.ask.token = receiver.ask.token /\ receiver.ask.kind # "none" => wom.ask = receiver.ask
      /\ receiver.ask.token \in Nat
  BY <1>1 DEF TransactionInv, Tokens, AskRecords
\* a PONG that ends no transaction and begins none
<1>3. ASSUME NEW kind, NEW value, NEW ask, Reply(kind, value, ask), kind \notin {"normal", "wom"},
             receiver' = receiver
      PROVE  TransactionInv'
  <2>1. air' = NoPing /\ rx'.kind = kind
    BY <1>3 DEF Reply
  <2>2. Tokens' /\ OnAir'
    BY <1>1, <1>3, <2>1 DEF TransactionInv, Tokens, OnAir
  <2>3. Once'
    BY <1>1, <1>3, <2>1 DEF TransactionInv, Once, Acts, Later
  <2> QED
    BY <2>2, <2>3 DEF TransactionInv
<1>4. CASE ReplyProof \/ ReplyMetadata
  BY <1>3, <1>4 DEF ReplyProof, ReplyMetadata
<1>5. ASSUME NEW c \in Commands, NEW v, ReplyCommand(c, v)
      PROVE  TransactionInv'
  BY <1>3, <1>5 DEF ReplyCommand, Commands
<1>6. CASE ReplyWom
  <2>1. /\ receiver' = receiver /\ air' = NoPing /\ rx'.kind = "wom" /\ rx'.ask = receiver.ask
        /\ receiver.ask.kind # "none"
    BY <1>6 DEF ReplyWom, Reply
  <2>2. Tokens' /\ OnAir'
    BY <1>1, <1>2, <2>1 DEF TransactionInv, Tokens, OnAir
  <2>3. Once'
    BY <1>1, <2>1 DEF TransactionInv, Once, Acts, Later
  <2> QED
    BY <2>2, <2>3 DEF TransactionInv
<1>7. CASE ReplyNormal
  <2>1. /\ air # NoPing /\ air' = NoPing /\ rx'.kind = "normal" /\ rx'.counter = air.counter
        /\ receiver' = [receiver EXCEPT !.ask.kind =
              IF air.flag \in WomFlags /\ air.data.token = receiver.ask.token THEN "none" ELSE @]
    BY <1>7 DEF ReplyNormal, Reply, Hearable
  <2>2. /\ receiver'.ask.token = receiver.ask.token
        /\ receiver'.ask.kind = IF air.flag \in WomFlags /\ air.data.token = receiver.ask.token
                                THEN "none" ELSE receiver.ask.kind
        /\ receiver'.ask.kind # "none" => receiver'.ask = receiver.ask
    BY <1>1, <2>1 DEF ReceiverLike, AskRecords
  <2>3. Tokens'
    BY <1>1, <2>1, <2>2 DEF TransactionInv, Tokens
  <2>4. wom.sent.flag \in WomFlags => Later(receiver'.ask, wom.sent.token)
    <3> SUFFICES ASSUME wom.sent.flag \in WomFlags
                 PROVE  Later(receiver'.ask, wom.sent.token)
      OBVIOUS
    <3>1. wom.sent = [flag |-> air.flag, token |-> air.data.token] /\ wom.sent.token <= receiver.ask.token
      BY <2>1 DEF TransactionInv, OnAir
    <3>2. air.flag \in WomFlags /\ wom.sent.token = air.data.token /\ wom.sent.token \in Nat
      BY <1>1, <3>1 DEF WomLike
    <3>3. receiver'.ask.kind # "none" => air.data.token # receiver.ask.token
      BY <2>2, <3>2
    <3> QED
      BY <1>2, <2>2, <3>1, <3>2, <3>3 DEF Later
  <2>5. OnAir'
    BY <1>1, <2>1, <2>2, <2>4 DEF TransactionInv, OnAir
  <2>6. Once'
    BY <1>1, <2>1, <2>2 DEF TransactionInv, Once, Acts, Later
  <2> QED
    BY <2>3, <2>5, <2>6 DEF TransactionInv
<1>8. ASSUME NEW kind \in Asks, NextAsk(kind)
      PROVE  TransactionInv'
  <2>1. UNCHANGED <<air, rx>> /\ receiver'.ask = [kind |-> kind, token |-> receiver.ask.token + 1]
    BY <1>1, <1>8 DEF NextAsk, ReceiverLike
  <2>2. receiver'.ask.token = receiver.ask.token + 1
    BY <2>1
  <2>3. rx.kind = "wom" => rx.ask.token \in Nat
    BY DEF Typed, RxLike, AskRecords
  <2>4. wom.sent.token \in Nat /\ owner.data.token \in Nat
    BY <1>1 DEF Typed, WomLike
  <2>5. Tokens'
    BY <1>1, <1>2, <2>1, <2>2, <2>3 DEF TransactionInv, Tokens
  <2>6. OnAir'
    BY <1>1, <1>2, <2>1, <2>2, <2>4 DEF TransactionInv, OnAir, Later
  <2>7. Once'
    BY <1>1, <1>2, <2>1, <2>2 DEF TransactionInv, Once, Acts, Later
  <2> QED
    BY <2>5, <2>6, <2>7 DEF TransactionInv
<1>9. CASE (\E ch \in ToSet(EvenOnes(Band)) : Move(ch)) \/ Hold
  <2>1. UNCHANGED <<air, rx>> /\ receiver'.ask = receiver.ask
    BY <1>1, <1>9 DEF Move, Hold, ReceiverLike
  <2>2. Tokens' /\ OnAir'
    BY <1>1, <2>1 DEF TransactionInv, Tokens, OnAir
  <2>3. Once'
    BY <1>1, <2>1 DEF TransactionInv, Once, Acts
  <2> QED
    BY <2>2, <2>3 DEF TransactionInv
<1> QED
  BY <1>4, <1>5, <1>6, <1>7, <1>8, <1>9 DEF World, Commands

LEMMA TransactionStep == Typed /\ ChannelInv /\ CommandInv /\ TransactionInv /\ [Next]_vars => TransactionInv'
<1> SUFFICES ASSUME Typed, ChannelInv, CommandInv, TransactionInv, [Next]_vars
             PROVE  TransactionInv'
  OBVIOUS
<1>1. EsbLike(esb) /\ HistoryLike(history) /\ ProofIsHere
  BY DEF Typed, ChannelInv
<1>2. CASE Console
  <2>1. /\ owner' = owner /\ receiver' = receiver
        /\ Begun(esb, history) \/ UNCHANGED <<ping, wom, air, rx, esb, history>>
    BY <1>2, ConsoleIs
  <2> QED
    BY <1>1, <2>1, TransactionBegun, TransactionKept
<1>3. CASE UNCHANGED vars
  BY <1>3, TransactionKept DEF vars
<1> QED
  BY <1>1, <1>2, <1>3, TransactionHeard, TransactionOwner, TransactionEsb, TransactionWorld DEF Next

LEMMA TransactionInit == Init => TransactionInv
<1> SUFFICES ASSUME Init PROVE TransactionInv
  OBVIOUS
<1>1. receiver.ask = NoAsk
  BY DEF Init
<1>2. wom = NoWom /\ rx = NoPong /\ air = NoPing /\ history.ran = {} /\ owner.at = "idle" /\ ~Busy(esb)
      /\ esb.doing = "nothing"
  BY DEF Init, Free, Asleep, Busy
<1>3. NoAsk.kind = "none" /\ NoAsk.token = 0
  BY DEF NoAsk
<1>4. Tokens /\ OnAir
  BY <1>1, <1>2, <1>3, NothingIs DEF Tokens, OnAir
<1>5. Once
  BY <1>2, NothingIs DEF Once, Acts
<1> QED
  BY <1>4, <1>5 DEF TransactionInv

\* A repetition of the receiver finds the transaction executing, its outcome
\* cached, or the receiver past it: an entry into sleep or a clearing of the
\* timeout never runs a second time for its token.
THEOREM RunsOnlyOnce == Spec => RunsOnce
<1> DEFINE Inv == Typed /\ ChannelInv /\ CommandInv /\ TransactionInv
           Step == esb.at = "idle" /\ esb'.doing = "wom" /\ esb'.ask.kind \in {"clear", "enter"}
                      => esb'.ask.token \notin history.ran
<1>1. Init => Inv
  BY ChannelInit, CommandInit, TransactionInit
<1>2. Inv /\ [Next]_vars => Inv'
  BY ChannelStep, CommandStep, TransactionStep
<1>3. Inv /\ [Next]_vars => [Step]_vars
  <2> SUFFICES ASSUME Inv, Next, esb.at = "idle", esb'.doing = "wom", esb'.ask.kind \in {"clear", "enter"}
               PROVE  esb'.ask.token \notin history.ran
    OBVIOUS
  <2>1. EsbLike(esb) /\ HistoryLike(history) /\ esb.doing = "nothing" /\ ProofIsHere
    BY DEF Typed, CommandInv, ChannelInv
  <2>2. CASE WomBegin
    <3>1. esb'.ask = wom.ask /\ wom.requested
      BY <2>2 DEF WomBegin, Asleep
    <3> QED
      BY <2>1, <3>1 DEF TransactionInv, Once, Acts
  <2>3. CASE ~WomBegin
    <3>1. ASSUME NEW e, EsbLike(e), NEW h, HistoryLike(h), Begun(e, h), e.doing \in {"nothing", "command"}
          PROVE  FALSE
      BY <3>1, BegunEsb
    <3>2. CASE Interrupt
      <4>1. esb'.doing = esb.doing
        <5>1. Remains => esb'.doing = esb.doing
          BY DEF Remains, SameThread
        <5> QED
          BY <2>1, <3>2, <5>1, HearProofIs, HearNormalIs, HearMetadataIs, HearWomIs, HearCommandIs
             DEF Interrupt, Discard, Redirect, threads
      <4> QED
        BY <2>1, <4>1
    <3>3. CASE PollExpired \/ Owner \/ Expired \/ Console \/ World
      <4>1. Begun(esb, history) \/ esb' = esb
        BY <3>3, ExpiredIs, OwnerIs, ConsoleIs, WorldIs
      <4> QED
        BY <2>1, <3>1, <4>1
    <3>4. CASE PairBegin
      BY <2>1, <3>1, <3>4, PairingIs, EsbIs DEF EsbAts, PairBegin, PairConfirm, PairStart
    <3>5. CASE (EsbThread /\ ~PairBegin) \/ PingTimeout
      <4>1. CASE CommandBegin
        BY <4>1 DEF CommandBegin, Asleep
      <4>2. CASE PingTimeout
        BY <2>1, <4>2 DEF PingTimeout, threads
      <4> QED
        BY <2>3, <3>5, <4>1, <4>2
           DEF EsbThread, WomExecute, WomPublish, CommandExecute, CommandPublish, PairSearch, PairLook, PairBurst,
               PairConfirm, PairJoin, PairStart
    <3> QED
      BY <3>2, <3>3, <3>4, <3>5 DEF Next
  <2> QED
    BY <2>2, <2>3
<1>4. Spec => [][Step]_vars
  BY <1>1, <1>2, <1>3, PTL DEF Spec
<1> QED
  BY <1>4 DEF RunsOnce
=============================================================================
