----------------------------- MODULE RadioLink -----------------------------
(***************************************************************************)
(* The tracker's radio link (connection/esb.c): pairing, the search for    *)
(* the receiver's RF channel and its proof, PINGs and PONGs, and the       *)
(* controls that ride on them.                                             *)
(*                                                                         *)
(* Actors: the RX interrupt (event_handler); the connection thread, owner  *)
(* of transmission, which polls the search and sends PINGs; the ESB        *)
(* thread, which pairs and executes what was received; the console.  The   *)
(* lifecycle functions and the poll hold esb_radio_lock; the interrupt     *)
(* runs between any two steps that are not under irq_lock.  A generation   *)
(* is only ever compared with a snapshot of it: what is kept is whether it *)
(* has changed since.  The medium loses PINGs and PONGs, and a receiver is *)
(* also heard on the channels next to its own.  ESB_ST_RECOVERING is       *)
(* "paired": it differs in indications and the shutdown watchdog only.     *)
(***************************************************************************)
EXTENDS Integers, Sequences, FiniteSets, SequencesExt

CONSTANTS
    Peer,       \* the receiver that answers on the paired pipes
    Strangers,  \* receivers whose pairing response is heard, and nothing else
    Band,       \* the highest RF channel (100)
    Preferred,  \* ESB_ALLOWED_CHANNELS
    Default,    \* RADIO_RF_CHANNEL
    Spill,      \* how far from its channel a receiver is heard
    Counters,   \* values of the PING counter (256)
    Menus,      \* what the world does in a behaviour: sets of names
    MaxToken,   \* bound: transactions of the sleep timeout
    MaxTrouble  \* bound: moves, holds, restarts, failures, console commands

Channels == 0..Band
Preset == Band + 1      \* ESB_RF_CHANNEL_DEFAULT: 0xff
Nobody == "none"

ASSUME RadioAssumption ==
    /\ Peer # Nobody /\ Peer \notin Strangers /\ Nobody \notin Strangers
    /\ Band \in Nat /\ Default \in Channels /\ Spill \in Nat
    /\ Preferred \in Seq({c \in Channels : c % 2 = 0}) /\ IsInjective(Preferred)
    /\ Counters \in Nat \ {0, 1} /\ MaxToken \in Nat /\ MaxTrouble \in Nat

VARIABLES
    link,       \* session: initialized, state, paired_addr, pairing, provisional
    chan,       \* radio_channel, the search and the proof of the channel
    ping,       \* the outstanding PING
    synced,     \* server_time_synced
    stored,     \* retained: the pairing and the channel
    control,    \* the remote command received, acknowledged, refused
    wom,        \* wom_command, the transaction on the sleep timeout
    minutes,    \* wom_timeout_get_minutes()
    owner,      \* the connection thread
    esb,        \* the ESB thread
    console,    \* the console thread, in esb_set_pair or esb_clear_pair
    air, rx,    \* the PING on the air, the PONG in the RX FIFO
    receiver,   \* Peer: its channel, whether it proves channels, what it asks
    held,       \* the connection thread is told to leave the channel alone
    menu, trouble,
    history

radio == <<link, chan, ping, synced>>
remote == <<control, wom, minutes>>
threads == <<owner, esb, console>>
medium == <<air, rx, receiver>>
world == <<held, menu, trouble>>
vars == <<link, chan, ping, synced, stored, control, wom, minutes, owner, esb, console,
          air, rx, receiver, held, menu, trouble, history>>

NoAsk == [kind |-> "none", token |-> 0]
NoData == [result |-> 0, token |-> 0]
Unsent == [flag |-> "normal", token |-> 0]
NoWom == [requested |-> FALSE, ask |-> NoAsk, cached |-> FALSE, done |-> NoAsk, result |-> 0,
          flag |-> "normal", pending |-> FALSE, sent |-> Unsent]
NoPing == [counter |-> Counters, flag |-> "none", data |-> NoData, channel |-> 0, to |-> Nobody]
NoPong == [kind |-> "none", counter |-> Counters, value |-> 0, ask |-> NoAsk]
WomFlags == {"result", "error"}
\* SHUTDOWN, a plain one, BATCH_ON with a rate, SET_CHANNEL, CLEAR of the pairing
Commands == {"off", "meow", "rate", "tune", "forget"}
Asks == {"query", "set", "clear", "enter"}

May(what) == what \in menu /\ trouble < MaxTrouble /\ trouble' = trouble + 1

----------------------------------------------------------------------------
\* The order of the search: home, the preferred channels, the other even ones.

EvenOnes(band) == [i \in 1..(band \div 2 + 1) |-> 2 * (i - 1)]
SearchOrder(home, preferred, band) ==
    <<home>> \o SelectSeq(preferred, LAMBDA c : c # home)
             \o SelectSeq(EvenOnes(band), LAMBDA c : c # home /\ c \notin ToSet(preferred))
CandidateCount(home, band) == band \div 2 + 1 + (home % 2)
NextCandidate == (chan.index + 1) % CandidateCount(chan.home, Band)
Candidate(index) == SearchOrder(chan.home, Preferred, Band)[index + 1]

----------------------------------------------------------------------------
\* Lifecycle.  Each function runs under esb_radio_lock.

Locked == owner.locked

Decoded(ch) == IF ch = Preset THEN Default ELSE ch
\* a generation the ESB thread has a snapshot of has changed
Outdated(e, what) == [e EXCEPT !.current = @ /\ e.doing # what]

\* esb_deinitialize: a response that is not confirmed is dropped, and so is
\* an address still provisional
Closed(l) ==
    [l EXCEPT !.on = FALSE,
              !.addr = IF l.provisional \/ (l.pairing /\ l.state = "pairing") THEN Nobody ELSE @,
              !.state = IF l.provisional THEN "pairing" ELSE @,
              !.pairing = @ /\ ~l.provisional,
              !.provisional = FALSE]
StillFound(c) ==                                    \* mutant: channel_found is kept
    [c EXCEPT !.wait = TRUE, !.heard = FALSE, !.redirecting = FALSE, !.confirmed = FALSE,
              !.legacy = FALSE]
Unproven(c) ==
    [c EXCEPT !.wait = TRUE, !.found = FALSE, !.heard = FALSE, !.redirecting = FALSE,
              !.confirmed = FALSE, !.legacy = FALSE]
ClosedChan(c, l) ==
    [Unproven(c) EXCEPT !.search = FALSE, !.capable = @ /\ ~l.provisional]

Session(l, c, e, h) ==
    /\ link' = l /\ chan' = c
    /\ ping' = [ping EXCEPT !.pending = FALSE, !.asked = FALSE]
    /\ synced' = FALSE /\ wom' = NoWom
    /\ air' = NoPing /\ rx' = NoPong
    /\ esb' = [Outdated(e, "wom") EXCEPT !.stale = TRUE]
    /\ history' = [h EXCEPT !.answered = {}, !.ran = {}]

Deinitialize(l, e) == Session(Closed(l), ClosedChan(chan, l), e, history)

\* esb_initialize, from l and c; the driver may fail
Opens(l, c, ch, e, h) ==
    \/ /\ Session([l EXCEPT !.on = TRUE], [Unproven(c) EXCEPT !.at = Decoded(ch)], e, h)
       /\ UNCHANGED trouble
    \/ /\ May("fault")
       /\ Session(Closed(l), ClosedChan(c, l), e, h)
Reinitialize(ch, e, h) == Opens(Closed(link), ClosedChan(chan, link), ch, e, h)
\* esb_reinitialize from another thread than the ESB thread
Reopened(on, l, ch) ==
    Session([Closed(l) EXCEPT !.on = on],
            IF on THEN [ClosedChan(chan, l) EXCEPT !.at = Decoded(ch)] ELSE ClosedChan(chan, l),
            esb, history)
Initialize(e) ==
    IF link.on THEN Reinitialize(stored.channel, e, history)
               ELSE Opens(link, chan, stored.channel, e, history)

\* esb_reset_pair
Forgotten(l) == [Closed(l) EXCEPT !.state = "pairing", !.addr = Nobody]
HasPair == link.addr # Nobody \/ link.state # "pairing"

----------------------------------------------------------------------------
\* The RX interrupt: a PONG.

Proven(c) == c.confirmed \/ c.legacy
Answers(p) == ping.pending /\ p.counter = ping.counter /\ (p.kind = "confirm" => ping.asked)
Elsewhere(p) == p.kind = "confirm" /\ p.value # chan.at
\* a receiver that does not know the request answers as ever: a legacy peer,
\* unless it has proved a channel before
AfterProof(p) ==
    IF p.kind = "confirm"
    THEN [chan EXCEPT !.capable = TRUE, !.legacy = FALSE, !.confirmed = TRUE]
    ELSE [chan EXCEPT !.legacy = @ \/ (ping.asked /\ ~chan.capable)]
Accepts(p) == Answers(p) /\ ~Elsewhere(p) /\ Proven(AfterProof(p)) /\ ~chan.redirecting
Advertised(p) == [history EXCEPT !.proven = IF Answers(p) /\ p.kind = "confirm" THEN p.value ELSE @]

Discard ==
    /\ rx # NoPong /\ rx' = NoPong
    /\ ~Accepts(rx) /\ ~(Answers(rx) /\ Elsewhere(rx))
    /\ chan' = IF Answers(rx) THEN AfterProof(rx) ELSE chan
    /\ history' = Advertised(rx)
    /\ UNCHANGED <<link, ping, synced, stored, remote, threads, air, receiver, world>>

\* the receiver is on another channel: only the owner of transmission retunes
Redirect ==
    /\ rx # NoPong /\ rx' = NoPong
    /\ Answers(rx) /\ Elsewhere(rx)
    /\ chan' = [chan EXCEPT !.capable = TRUE, !.legacy = FALSE, !.confirmed = FALSE,
                            !.redirecting = TRUE, !.target = rx.value, !.wait = TRUE, !.found = FALSE]
    /\ ping' = [ping EXCEPT !.pending = FALSE]
    /\ history' = Advertised(rx)
    /\ UNCHANGED <<link, synced, stored, remote, threads, air, receiver, world>>

\* What every accepted PONG does.  Its round trip was short enough to
\* synchronize or not, and the receiver's clock may have jumped back.
Hears(kind, fast, restarted) ==
    /\ rx.kind = kind /\ Accepts(rx) /\ rx' = NoPong
    /\ link' = [link EXCEPT !.state = "paired"]
    /\ ping' = [ping EXCEPT !.pending = FALSE]
    /\ IF restarted THEN synced /\ May("restart") ELSE UNCHANGED trouble
    /\ synced' = (fast \/ (synced /\ ~restarted))
    /\ UNCHANGED <<stored, minutes, owner, console, air, receiver, held, menu>>
Heard(p) == [AfterProof(p) EXCEPT !.heard = TRUE]
Answered(p, ran) == [Advertised(p) EXCEPT !.answered = @ \union {link.addr}, !.ran = ran]
\* esb_wom_reset of a receiver that has restarted
Wom(restarted) == IF restarted THEN NoWom ELSE wom
Esb(restarted) == IF restarted THEN Outdated(esb, "wom") ELSE esb
Ran(restarted) == IF restarted THEN {} ELSE history.ran

\* a dedicated reply carries neither schedule nor control
HearProof(fast, restarted) ==
    /\ Hears("confirm", fast, restarted)
    /\ chan' = Heard(rx)
    /\ wom' = Wom(restarted) /\ esb' = Esb(restarted)
    /\ history' = Answered(rx, Ran(restarted))
    /\ UNCHANGED control

\* NORMAL ends the command that was acknowledged and the transaction whose
\* outcome the PING carried; while a proof is asked for it ends nothing.  The
\* schedule it carries is a valid one.
Retired(w) ==
    IF w.pending /\ w.sent = [flag |-> w.flag, token |-> w.done.token]
    THEN [w EXCEPT !.pending = FALSE, !.cached = FALSE] ELSE w
HearNormal(fast, restarted) ==
    LET ends == ~chan.wait /\ ~chan.search
        over == ends /\ control.acked # "normal"
    IN  /\ Hears("normal", fast, restarted)
        /\ chan' = [Heard(rx) EXCEPT !.found = @ \/ (synced' /\ chan.wait)]
        /\ wom' = IF ends THEN Retired(Wom(restarted)) ELSE Wom(restarted)
        /\ control' = [control EXCEPT !.echo = @ /\ ~ends,
                                      !.received = IF over THEN "normal" ELSE @,
                                      !.acked = IF over THEN "normal" ELSE @,
                                      !.rejected = @ /\ ~over]
        /\ esb' = IF over THEN Outdated(Esb(restarted), "command") ELSE Esb(restarted)
        /\ history' = [Answered(rx, Ran(restarted)) EXCEPT !.executed = IF over THEN {} ELSE @]

HearMetadata(fast, restarted) ==
    /\ Hears("metadata", fast, restarted)
    /\ chan' = Heard(rx)
    /\ control' = [control EXCEPT !.echo = TRUE]
    /\ wom' = Wom(restarted) /\ esb' = Esb(restarted)
    /\ history' = Answered(rx, Ran(restarted))

\* esb_wom_receive
ValidAlways(w, ask) == w.flag = "error" \/ minutes = w.result   \* mutant: actions as readbacks
Valid(w, ask) == w.flag = "error" \/ ask.kind \in {"clear", "enter"} \/ minutes = w.result
HearWom(fast, restarted) ==
    LET w == Wom(restarted)
        known == w.cached /\ rx.ask = w.done /\ Valid(w, rx.ask)
        waits == w.requested /\ rx.ask = w.ask
    IN  /\ Hears("wom", fast, restarted)
        /\ chan' = Heard(rx)
        /\ control' = [control EXCEPT !.echo = FALSE]
        /\ wom' = IF known THEN [w EXCEPT !.pending = TRUE]
                  ELSE IF waits THEN w
                  ELSE [w EXCEPT !.ask = rx.ask, !.requested = TRUE, !.pending = FALSE, !.sent = Unsent]
        /\ esb' = IF known \/ waits THEN Esb(restarted) ELSE Outdated(esb, "wom")
        /\ history' = Answered(rx, Ran(restarted))

\* a control replaces one that is executed or refused, or differs in its value
Revalued(p) == \/ p.kind = "rate" /\ p.value # control.rate
               \/ p.kind = "tune" /\ p.value # control.channel
Replaces(p) ==
    \/ control.received = "normal"
    \/ Revalued(p)
    \/ (control.received = control.acked \/ control.rejected) /\ p.kind # control.received
Received(p) ==
    [control EXCEPT !.echo = FALSE, !.received = p.kind, !.rejected = FALSE,
        !.rate = IF p.kind = "rate" THEN p.value ELSE @,
        !.channel = IF p.kind = "tune" THEN p.value ELSE @,
        !.acked = IF p.kind = "tune" /\ Revalued(p) /\ @ = "tune" THEN "normal" ELSE @]
HearCommand(fast, restarted) ==
    /\ rx.kind \in Commands
    /\ Hears(rx.kind, fast, restarted)
    /\ chan' = Heard(rx)
    /\ wom' = NoWom
    /\ IF Replaces(rx)
       THEN /\ control' = Received(rx)
            /\ esb' = Outdated(Outdated(esb, "wom"), "command")
       ELSE /\ control' = [control EXCEPT !.echo = FALSE]
            /\ esb' = Outdated(esb, "wom")
    /\ history' = Answered(rx, {})

Interrupt ==
    \/ Discard
    \/ Redirect
    \/ \E fast, restarted \in BOOLEAN :
          \/ HearProof(fast, restarted)
          \/ HearNormal(fast, restarted)
          \/ HearMetadata(fast, restarted)
          \/ HearWom(fast, restarted)
          \/ HearCommand(fast, restarted)

----------------------------------------------------------------------------
\* The connection thread: esb_channel_search_poll and the PINGs.

Free == [at |-> "idle", locked |-> FALSE, probed |-> FALSE, flag |-> "normal", data |-> NoData,
         channel |-> Preset]
At(pc) == [owner EXCEPT !.at = pc, !.locked = TRUE]
Leave == [owner EXCEPT !.at = "idle", !.locked = FALSE]
Serves == owner.at = "idle" /\ link.on /\ link.state # "pairing"
Searches == chan.search \/ chan.wait \/ chan.redirecting

\* pair_confirm_deadline has passed
PollExpired ==
    /\ owner.at = "idle" /\ link.provisional
    /\ Deinitialize([link EXCEPT !.pairing = FALSE], esb)
    /\ UNCHANGED <<stored, control, minutes, owner, console, receiver, world>>

\* a hold freezes the channel: an advertisement is probed again after it
PollHeld ==
    /\ Serves /\ held /\ ~chan.found /\ chan.redirecting
    /\ chan' = [chan EXCEPT !.redirecting = FALSE]
    /\ ping' = [ping EXCEPT !.pending = FALSE]
    /\ owner' = [owner EXCEPT !.probed = FALSE]
    /\ UNCHANGED <<link, synced, stored, remote, esb, console, medium, world, history>>

\* only pairing or a relocation chooses a new encoding of the channel
PollFound ==
    /\ Serves /\ chan.found
    /\ owner' = [At("address") EXCEPT !.channel =
          IF chan.confirmed /\ (link.provisional \/ Decoded(stored.channel) # chan.at)
          THEN IF chan.at = Default THEN Preset ELSE chan.at
          ELSE stored.channel]
    /\ UNCHANGED <<radio, stored, remote, esb, console, medium, world, history>>

StoreAddress ==
    /\ owner.at = "address" /\ owner' = At("channel")
    /\ stored' = IF link.provisional THEN [stored EXCEPT !.addr = link.addr] ELSE stored
    /\ UNCHANGED <<radio, remote, esb, console, medium, world, history>>

StoreChannel ==
    /\ owner.at = "channel" /\ owner' = At("settle")
    /\ stored' = IF chan.confirmed THEN [stored EXCEPT !.channel = owner.channel] ELSE stored
    /\ UNCHANGED <<radio, remote, esb, console, medium, world, history>>

Settle ==
    /\ owner.at = "settle" /\ owner' = Leave
    /\ link' = [link EXCEPT !.pairing = @ /\ ~link.provisional, !.provisional = FALSE]
    /\ chan' = [chan EXCEPT !.found = FALSE, !.search = FALSE, !.wait = FALSE, !.heard = FALSE]
    /\ UNCHANGED <<ping, synced, stored, remote, esb, console, medium, world, history>>

\* A search goes on, or begins: nothing was heard for 4.5 s, or three PINGs
\* failed.  It waits for an idle radio and empties the FIFOs.
PollSearch ==
    /\ Serves /\ ~held /\ ~chan.found
    /\ owner' = [At(IF chan.redirecting THEN "redirect" ELSE "deadline")
                    EXCEPT !.probed = @ /\ chan.search]
    /\ \/ /\ chan.search
          /\ UNCHANGED <<chan, ping, synced, rx, trouble>>
       \/ /\ ~chan.search
          /\ IF Searches THEN UNCHANGED trouble ELSE May("silence")
          /\ chan' = [chan EXCEPT !.home = chan.at, !.index = 0, !.search = TRUE, !.wait = TRUE,
                                  !.heard = FALSE, !.found = FALSE,
                                  !.confirmed = @ /\ chan.wait, !.legacy = @ /\ chan.wait]
          /\ ping' = [ping EXCEPT !.pending = FALSE]
          /\ synced' = FALSE /\ rx' = NoPong
    /\ UNCHANGED <<link, stored, remote, esb, console, air, receiver, held, menu, history>>

\* the tune of a redirect; a failed one leaves it pending
FollowRedirect ==
    /\ owner.at = "redirect"
    /\ chan' = [chan EXCEPT !.found = FALSE, !.heard = FALSE, !.confirmed = FALSE]
    /\ ping' = [ping EXCEPT !.pending = FALSE]
    /\ synced' = FALSE /\ rx' = NoPong
    /\ \/ owner' = At("tuned") /\ UNCHANGED trouble
       \/ owner' = Leave /\ May("fault")
    /\ UNCHANGED <<link, stored, remote, esb, console, air, receiver, held, menu, history>>

Tuned ==
    /\ owner.at = "tuned" /\ owner' = [At("flag") EXCEPT !.probed = FALSE]
    /\ chan' = [chan EXCEPT !.at = chan.target, !.redirecting = FALSE]
    /\ UNCHANGED <<link, ping, synced, stored, remote, esb, console, medium, world, history>>

\* The deadline of a candidate, which at least one probe precedes.  The last
\* look at what was heard invalidates the outstanding PING with it.
HopProven(c) == c                                   \* mutant: the proof goes along
HopUnproven(c) == [c EXCEPT !.confirmed = FALSE, !.legacy = FALSE]
\* bound: a search passes a deadline only where the receiver may be away
Hops == {"away", "move", "silence"} \intersect menu # {}
Expired ==
    /\ owner.at = "deadline" /\ owner.probed /\ Hops
    /\ \/ /\ chan.heard \/ chan.found
          /\ chan' = [chan EXCEPT !.heard = FALSE]
          /\ owner' = [At("flag") EXCEPT !.probed = FALSE]
          /\ UNCHANGED ping
       \/ /\ ~chan.heard /\ ~chan.found
          /\ chan' = HopUnproven(chan)
          /\ ping' = [ping EXCEPT !.pending = FALSE]
          /\ owner' = At("hop")
    /\ UNCHANGED <<link, synced, stored, remote, esb, console, medium, world, history>>
\* before it, a probe is due or not yet
Probe ==
    /\ owner.at = "deadline" /\ owner' = At("flag")
    /\ UNCHANGED <<radio, stored, remote, esb, console, medium, world, history>>
Wait ==
    /\ owner.at = "deadline" /\ owner' = Leave
    /\ UNCHANGED <<radio, stored, remote, esb, console, medium, world, history>>

Hop ==
    /\ owner.at = "hop" /\ owner' = [At("flag") EXCEPT !.probed = FALSE]
    /\ synced' = FALSE /\ rx' = NoPong
    /\ \/ /\ chan' = [chan EXCEPT !.at = Candidate(NextCandidate), !.index = NextCandidate]
          /\ UNCHANGED trouble
       \/ May("fault") /\ UNCHANGED chan
    /\ UNCHANGED <<link, ping, stored, remote, esb, console, air, receiver, held, menu, history>>

\* a periodic PING, when the poll did not reserve this iteration
PingDue ==
    /\ Serves /\ (held \/ ~Searches)
    /\ owner' = [owner EXCEPT !.at = "flag"]
    /\ UNCHANGED <<radio, stored, remote, esb, console, medium, world, history>>

\* esb_get_ping_ack_flag: what byte 7 of a PING says
Echo ==
    IF ~Proven(chan) THEN "confirm"
    ELSE IF control.echo THEN "metadata"
    ELSE IF wom.pending THEN wom.flag
    ELSE IF control.acked # "normal" THEN control.acked
    ELSE control.received
Outcome == [result |-> wom.result, token |-> wom.done.token]

\* the flag and its data are read apart, and sealed together with the CRC
ReadFlag ==
    /\ owner.at = "flag" /\ owner' = [owner EXCEPT !.at = "data", !.flag = Echo]
    /\ UNCHANGED <<radio, stored, remote, esb, console, medium, world, history>>
ReadData ==
    /\ owner.at = "data"
    /\ owner' = [owner EXCEPT !.at = "seal", !.data = IF Echo \in WomFlags THEN Outcome ELSE NoData]
    /\ UNCHANGED <<radio, stored, remote, esb, console, medium, world, history>>

\* esb_write_clocked, up to the CRC: never an echo while asking for proof
Masked(flag) == IF ~Proven(chan) THEN "confirm" ELSE IF flag = "confirm" THEN "normal" ELSE flag
Spliced(o) == [o EXCEPT !.flag = Masked(o.flag)]    \* mutant: no esb_wom_prepare_ping
Prepared(o) ==
    IF Masked(o.flag) \notin WomFlags THEN [o EXCEPT !.flag = Masked(o.flag)]
    ELSE IF wom.pending THEN [o EXCEPT !.flag = wom.flag, !.data = Outcome]
    ELSE [o EXCEPT !.flag = "normal", !.data = NoData]
\* the time of a probe is spent whether or not the probe was sent
Sent == [Leave EXCEPT !.probed = TRUE, !.flag = "normal", !.data = NoData]
SealPing ==
    /\ owner.at = "seal"
    /\ \/ /\ link.on /\ link.state # "pairing"
          /\ owner' = [Prepared(owner) EXCEPT !.at = "send", !.locked = TRUE]
       \* esb_write_ping: the radio is off or pairing, its clock does not start, or the
       \* window has not come. A poll that holds the lock goes on as if it had sent.
       \/ owner' = IF owner.locked THEN Sent ELSE Leave
    /\ UNCHANGED <<radio, stored, remote, esb, console, medium, world, history>>

\* bound: a PONG is read before its counter comes round
InTime(counter) == rx.kind = "none" \/ rx.counter # counter
\* and from there on: queued and recorded, or not queued
SendPing ==
    LET counter == (ping.counter + 1) % Counters
        proof == owner.flag = "confirm"
        token == IF owner.flag \in WomFlags THEN owner.data.token ELSE 0
    IN  /\ owner.at = "send" /\ owner' = Sent /\ InTime(counter)
        /\ \/ /\ ping' = [pending |-> TRUE, counter |-> counter, asked |-> proof]
              /\ air' = [counter |-> counter, flag |-> owner.flag, data |-> owner.data,
                         channel |-> chan.at, to |-> link.addr]
              /\ wom' = [wom EXCEPT !.sent = [flag |-> owner.flag, token |-> token]]
              /\ UNCHANGED trouble
           \/ /\ May("fault")
              /\ ping' = [ping EXCEPT !.pending = FALSE]
              /\ UNCHANGED <<air, wom>>
        /\ UNCHANGED <<link, chan, synced, stored, control, minutes, esb, console, rx, receiver,
                       held, menu, history>>
\* a FIFO that stays full and cannot be flushed: the radio is opened anew
Recover ==
    /\ owner.at = "send" /\ owner' = Sent /\ May("fault")
    /\ \E on \in BOOLEAN : Reopened(on, link, stored.channel)
    /\ UNCHANGED <<stored, control, minutes, console, receiver, held, menu>>

Owner ==
    \/ PollHeld \/ PollFound \/ StoreAddress \/ StoreChannel \/ Settle
    \/ PollSearch \/ FollowRedirect \/ Tuned \/ Probe \/ Wait \/ Hop
    \/ PingDue \/ ReadFlag \/ ReadData \/ SealPing \/ SendPing \/ Recover

----------------------------------------------------------------------------
\* The ESB thread: transactions and commands.  Each is a snapshot, an
\* execution with interrupts on, and a publication if it is still current.

Asleep == [at |-> "idle", doing |-> "nothing", ask |-> NoAsk, command |-> "normal", value |-> 0,
           err |-> FALSE, result |-> 0, current |-> TRUE, stale |-> FALSE]
MayExecute == Proven(chan) /\ ~chan.redirecting
EnterDone == 9      \* ESB_WOM_ENTER, the result of an accepted entry

WomBegin ==
    /\ esb.at = "idle" /\ wom.requested /\ MayExecute
    /\ esb' = [Asleep EXCEPT !.at = "execute", !.doing = "wom", !.ask = wom.ask]
    /\ history' = [history EXCEPT !.ran = @ \union {wom.ask.token}]
    /\ UNCHANGED <<radio, stored, remote, owner, console, medium, world>>

\* wom_timeout_set_minutes and sys_request_WOM_now may refuse; a query of a
\* timeout that is no whole number of minutes is not supported
WomDone(err, result) ==
    /\ esb' = [esb EXCEPT !.at = "publish", !.err = err, !.result = result]
    /\ history' = [history EXCEPT !.outcomes = @ \union
          {[token |-> esb.ask.token, flag |-> IF err THEN "error" ELSE "result", result |-> result]}]
WomExecute ==
    /\ esb.at = "execute" /\ esb.doing = "wom"
    /\ \/ /\ esb.ask.kind = "query"
          /\ WomDone(minutes = 0, minutes) /\ UNCHANGED minutes
       \/ /\ esb.ask.kind = "set"
          /\ minutes' = 2 /\ WomDone(FALSE, 2)
       \/ /\ esb.ask.kind = "clear"
          /\ minutes' = 1 /\ WomDone(FALSE, 0)
       \/ /\ esb.ask.kind = "enter"
          /\ WomDone(FALSE, EnterDone) /\ UNCHANGED minutes
       \/ /\ esb.ask.kind # "query"
          /\ WomDone(TRUE, 1) /\ UNCHANGED minutes
    /\ UNCHANGED <<radio, stored, control, wom, owner, console, medium, world>>

PublishAny(e) == TRUE                               \* mutant: whatever was received since
Publishes(e) == e.current
WomPublish ==
    /\ esb.at = "publish" /\ esb.doing = "wom" /\ esb' = Asleep
    /\ wom' = IF Publishes(esb)
              THEN [wom EXCEPT !.requested = FALSE, !.cached = TRUE, !.done = esb.ask,
                               !.result = esb.result, !.flag = IF esb.err THEN "error" ELSE "result",
                               !.pending = TRUE]
              ELSE wom
    /\ UNCHANGED <<radio, stored, control, minutes, owner, console, medium, world, history>>

CommandPending ==
    /\ MayExecute /\ control.received # "normal"
    /\ \/ control.received # control.acked
       \/ control.received = "rate" /\ control.rate # control.ackedRate

Value(command) ==
    IF command = "rate" THEN control.rate ELSE IF command = "tune" THEN control.channel ELSE 0
CommandBegin ==
    /\ esb.at = "idle" /\ CommandPending
    /\ esb' = [Asleep EXCEPT !.at = "execute", !.doing = "command", !.command = control.received,
                  !.value = Value(control.received)]
    /\ UNCHANGED <<radio, stored, remote, owner, console, medium, world, history>>

\* SHUTDOWN may be refused; a batch rate that is refused is consumed all the
\* same, as are the results of the other commands
CommandDone(refused) == [esb EXCEPT !.at = "publish", !.err = refused]
Executed(h) == [h EXCEPT !.executed = @ \union {<<esb.command, esb.value>>}]
CommandExecute ==
    /\ esb.at = "execute" /\ esb.doing = "command"
    /\ \/ /\ esb.command \in {"off", "meow", "rate"}
          /\ esb' = CommandDone(FALSE) /\ history' = Executed(history)
          /\ UNCHANGED <<radio, stored, wom, air, rx, trouble>>
       \/ /\ esb.command = "off"
          /\ esb' = CommandDone(TRUE)
          /\ UNCHANGED <<radio, stored, wom, air, rx, trouble, history>>
       \/ /\ esb.command = "tune" /\ ~Locked         \* channel_control_set
          /\ stored' = [stored EXCEPT !.channel = esb.value]
          /\ Reinitialize(esb.value, CommandDone(FALSE), Executed(history))
       \/ /\ esb.command = "forget" /\ ~Locked         \* esb_clear_pair
          /\ stored' = [stored EXCEPT !.addr = Nobody] /\ UNCHANGED trouble
          /\ IF HasPair
             THEN Session(Forgotten(link), [ClosedChan(chan, link) EXCEPT !.capable = FALSE],
                          CommandDone(FALSE), Executed(history))
             ELSE /\ esb' = CommandDone(FALSE) /\ history' = Executed(history)
                  /\ UNCHANGED <<radio, wom, air, rx>>
    /\ UNCHANGED <<control, minutes, owner, console, receiver, held, menu>>

CommandPublish ==
    /\ esb.at = "publish" /\ esb.doing = "command" /\ esb' = Asleep
    /\ IF Publishes(esb)
       THEN /\ control' = [control EXCEPT !.rejected = esb.err,
                  !.acked = IF esb.err THEN @ ELSE esb.command,
                  !.ackedRate = IF ~esb.err /\ esb.command = "rate" THEN esb.value ELSE @]
       ELSE UNCHANGED control
    /\ UNCHANGED <<radio, stored, wom, minutes, owner, console, medium, world, history>>

\* no PONG within the interval
PingTimeout ==
    /\ esb.at = "idle" /\ ping.pending
    /\ ping' = [ping EXCEPT !.pending = FALSE]
    /\ UNCHANGED <<link, chan, synced, stored, remote, threads, medium, world, history>>

----------------------------------------------------------------------------
\* The ESB thread: pairing.

To(pc) == [esb EXCEPT !.at = pc]
Stays == UNCHANGED <<ping, synced, wom, air, rx, history, trouble>>

\* esb_pair: with an address it goes straight to its end
PairBegin ==
    /\ esb.at = "idle" /\ link.state = "pairing" /\ ~link.disabled
    /\ IF link.addr # Nobody
       THEN /\ esb' = To("join")
            /\ ping' = [ping EXCEPT !.pending = FALSE] /\ synced' = FALSE
            /\ UNCHANGED <<link, chan, wom, air, rx, history, trouble>>
       ELSE ~Locked /\ Initialize([To("search") EXCEPT !.current = TRUE])
    /\ UNCHANGED <<stored, control, minutes, owner, console, receiver, held, menu>>

\* pair_home, pair_generation, pairing_search_active
PairSearch ==
    /\ esb.at = "search"
    /\ esb' = [To("look") EXCEPT !.stale = FALSE]
    /\ link' = [link EXCEPT !.pairing = TRUE]
    /\ chan' = [chan EXCEPT !.home = chan.at, !.index = 0]
    /\ Stays /\ UNCHANGED <<stored, control, minutes, owner, console, receiver, held, menu>>

PairLook ==
    /\ esb.at = "look"
    /\ esb' = To(IF link.addr = Nobody THEN "burst" ELSE "confirm")
    /\ UNCHANGED <<radio, stored, remote, owner, console, medium, world, history>>

\* The next channel after three bursts, and a burst, which is answered or
\* not.  An address that came since the last look is not for this device.
Hint(r, ch) == r = Nobody \/ r \in Strangers \/ (r = Peer /\ ch = receiver.channel)
PairBurst ==
    /\ esb.at = "burst" /\ ~Locked
    /\ IF ~link.on \/ link.disabled \/ esb.stale
       THEN /\ esb' = To("start") /\ link' = [link EXCEPT !.pairing = FALSE]
            /\ UNCHANGED chan
       ELSE /\ chan' \in {chan, [chan EXCEPT !.at = Candidate(NextCandidate), !.index = NextCandidate]}
            /\ \E r \in Strangers \union {Nobody, Peer} :
                  /\ Hint(r, chan'.at)
                  /\ link' = [link EXCEPT !.addr = r]
            /\ esb' = To("look")
    /\ Stays /\ UNCHANGED <<stored, control, minutes, owner, console, receiver, held, menu>>

\* the response is only a hint: the address stays provisional until a
\* receiver has answered on the paired pipes
PairConfirm ==
    /\ esb.at = "confirm" /\ ~Locked
    /\ LET l == [link EXCEPT !.pairing = FALSE]
       IN  IF link.disabled \/ esb.stale \/ link.addr = Nobody
           THEN /\ esb' = To("start") /\ link' = l
                /\ UNCHANGED <<chan, ping, synced, wom, air, rx, history>>
           ELSE Session([Closed(l) EXCEPT !.provisional = TRUE, !.pairing = TRUE],
                        ClosedChan(chan, l), To("join"), history)
    /\ UNCHANGED <<stored, control, minutes, owner, console, receiver, world>>

PairJoin ==
    /\ esb.at = "join" /\ ~Locked
    /\ esb' = To("start")
    /\ link' = IF link.addr # Nobody /\ ~link.disabled THEN [link EXCEPT !.state = "paired"] ELSE link
    /\ UNCHANGED chan
    /\ Stays /\ UNCHANGED <<stored, control, minutes, owner, console, receiver, held, menu>>

\* back in esb_thread
PairStart ==
    /\ esb.at = "start" /\ ~Locked
    /\ IF ~link.disabled /\ link.addr # Nobody /\ link.state # "pairing"
       THEN Initialize(Asleep)
       ELSE esb' = Asleep /\ Stays /\ UNCHANGED <<link, chan>>
    /\ UNCHANGED <<stored, control, minutes, owner, console, receiver, held, menu>>

EsbThread ==
    \/ WomBegin \/ WomExecute \/ WomPublish
    \/ CommandBegin \/ CommandExecute \/ CommandPublish
    \/ PairBegin \/ PairSearch \/ PairLook \/ PairBurst \/ PairConfirm \/ PairJoin \/ PairStart

----------------------------------------------------------------------------
\* The console.

Unused == [at |-> "idle", then |-> "idle", addr |-> Nobody]

\* esb_reset_pair for esb_set_pair(addr), esb_clear_pair or esb_user_pair:
\* the radio is closed, and then, without the lock, the pairing forgotten
ConsolePair(addr, then) ==
    /\ console.at = "idle" /\ May("pair") /\ ~Locked
    /\ IF HasPair
       THEN Deinitialize(link, esb) /\ console' = [at |-> "forget", then |-> then, addr |-> addr]
       ELSE /\ console' = [at |-> then, then |-> then, addr |-> addr]
            /\ UNCHANGED <<radio, wom, air, rx, esb, history>>
    /\ UNCHANGED <<stored, control, minutes, owner, receiver, held, menu>>
ConsoleForget ==
    /\ console.at = "forget" /\ console' = [console EXCEPT !.at = console.then]
    /\ link' = [link EXCEPT !.state = "pairing", !.addr = Nobody]
    /\ chan' = [chan EXCEPT !.capable = FALSE]
    /\ UNCHANGED <<ping, synced, stored, remote, owner, esb, medium, world, history>>
\* memcpy(paired_addr, &addr)
ConsoleAssign ==
    /\ console.at = "assign" /\ console' = [console EXCEPT !.at = "write"]
    /\ link' = [link EXCEPT !.addr = console.addr]
    /\ UNCHANGED <<chan, ping, synced, stored, remote, owner, esb, medium, world, history>>
\* sys_write(PAIRED_ID, ..., paired_addr)
ConsoleWrite ==
    /\ console.at = "write" /\ console' = Unused
    /\ stored' = [stored EXCEPT !.addr = link.addr]
    /\ UNCHANGED <<radio, remote, owner, esb, medium, world, history>>

\* esb_user_set_enabled
ConsoleDisable ==
    /\ console.at = "idle" /\ ~Locked /\ May("switch")
    /\ Deinitialize([link EXCEPT !.disabled = TRUE], esb)
    /\ UNCHANGED <<stored, control, minutes, owner, console, receiver, held, menu>>
ConsoleEnable ==
    /\ console.at = "idle" /\ ~Locked /\ link.disabled
    /\ \E on \in BOOLEAN : Reopened(on, [link EXCEPT !.disabled = ~on], stored.channel)
    /\ UNCHANGED <<stored, control, minutes, owner, console, receiver, world>>

\* channel_control_apply
ConsoleChannel(ch) ==
    /\ console.at = "idle" /\ ~Locked /\ May("channel")
    /\ stored' = [stored EXCEPT !.channel = ch]
    /\ \E on \in BOOLEAN : Reopened(on, link, ch)
    /\ UNCHANGED <<control, minutes, owner, console, receiver, held, menu>>

\* the sleep timeout is set on the tracker itself
ConsoleMinutes(m) ==
    /\ May("minutes") /\ minutes' = m /\ m # minutes
    /\ UNCHANGED <<radio, stored, control, wom, threads, medium, held, menu, history>>

Console ==
    \/ \E r \in {Peer} \union Strangers : ConsolePair(r, "assign")
    \/ ConsolePair(Nobody, "write")
    \/ ConsolePair(Nobody, "idle")
    \/ ConsoleForget \/ ConsoleAssign \/ ConsoleWrite
    \/ ConsoleDisable \/ ConsoleEnable
    \/ \E ch \in {1, Band, Preset} : ConsoleChannel(ch)
    \/ \E m \in 0..2 : ConsoleMinutes(m)

----------------------------------------------------------------------------
\* The world: the receiver, as the code relies on it, the holds.

Hearable == air # NoPing /\ air.to = Peer /\ link.on
            /\ receiver.channel - chan.at \in -Spill..Spill
            /\ receiver.channel - air.channel \in -Spill..Spill
Reply(kind, value, ask) ==
    /\ Hearable /\ rx = NoPong /\ air' = NoPing
    /\ rx' = [kind |-> kind, counter |-> air.counter, value |-> value, ask |-> ask]
    /\ UNCHANGED <<radio, stored, remote, threads, world, history>>

\* a receiver that proves channels answers a request with its own
ReplyProof ==
    /\ air.flag = "confirm" /\ receiver.proves
    /\ Reply("confirm", receiver.channel, NoAsk) /\ UNCHANGED receiver
Ordinary == ~(air.flag = "confirm" /\ receiver.proves)
ReplyNormal ==
    /\ Ordinary /\ Reply("normal", 0, NoAsk)
    /\ receiver' = [receiver EXCEPT !.ask.kind =
          IF air.flag \in WomFlags /\ air.data.token = receiver.ask.token THEN "none" ELSE @]
ReplyMetadata ==
    /\ Ordinary /\ "metadata" \in menu
    /\ Reply("metadata", 0, NoAsk) /\ UNCHANGED receiver
ReplyCommand(c, v) ==
    /\ Ordinary /\ c \in menu
    /\ Reply(c, v, NoAsk) /\ UNCHANGED receiver
\* one transaction at a time, repeated until its outcome is seen or given up
ReplyWom ==
    /\ Ordinary /\ receiver.ask.kind # "none"
    /\ Reply("wom", 0, receiver.ask) /\ UNCHANGED receiver
NextAsk(kind) ==
    /\ kind \in menu /\ receiver.ask.token < MaxToken
    /\ receiver' = [receiver EXCEPT !.ask = [kind |-> kind, token |-> receiver.ask.token + 1]]
    /\ UNCHANGED <<radio, stored, remote, threads, air, rx, world, history>>

Move(ch) ==
    /\ May("move") /\ ch # receiver.channel
    /\ receiver' = [receiver EXCEPT !.channel = ch]
    /\ UNCHANGED <<radio, stored, remote, threads, air, rx, held, menu, history>>

\* OTA, its queue, or a suppression; the poll samples it
Hold ==
    /\ IF held THEN UNCHANGED trouble ELSE May("hold")
    /\ held' = ~held
    /\ UNCHANGED <<radio, stored, remote, threads, medium, menu, history>>

World ==
    \/ ReplyProof \/ ReplyNormal \/ ReplyMetadata \/ ReplyWom
    \/ \E v \in 1..2 : ReplyCommand("rate", v)
    \/ \E v \in {1, Band} : ReplyCommand("tune", v)
    \/ \E c \in {"off", "meow", "forget"} : ReplyCommand(c, 0)
    \/ \E kind \in Asks : NextAsk(kind)
    \/ \E ch \in ToSet(EvenOnes(Band)) : Move(ch)
    \/ Hold

----------------------------------------------------------------------------

\* after any reset: the ESB thread has read the pairing from retained memory
Init ==
    /\ menu \in Menus /\ trouble = 0 /\ held = FALSE
    /\ stored \in [addr : IF "unpaired" \in menu THEN {Nobody} ELSE {Peer}, 
                  channel : IF "away" \in menu THEN {Preset, Default} ELSE {Preset}]
    /\ link = [on |-> FALSE, state |-> "pairing", addr |-> stored.addr, pairing |-> FALSE,
               provisional |-> FALSE, disabled |-> FALSE]
    /\ chan = [at |-> 0, home |-> 0, index |-> 0, search |-> FALSE, wait |-> FALSE, found |-> FALSE,
               heard |-> FALSE, redirecting |-> FALSE, target |-> 0, confirmed |-> FALSE,
               capable |-> FALSE, legacy |-> FALSE]
    /\ ping = [pending |-> FALSE, counter |-> Counters - 1, asked |-> FALSE]
    /\ synced = FALSE
    /\ control = [received |-> "normal", acked |-> "normal", rejected |-> FALSE, rate |-> 0,
                  channel |-> 0, ackedRate |-> 0, echo |-> FALSE]
    /\ wom = NoWom /\ minutes = 1
    /\ owner = Free /\ esb = Asleep /\ console = Unused
    /\ air = NoPing /\ rx = NoPong
    /\ receiver \in [channel : IF "away" \in menu THEN ToSet(EvenOnes(Band)) ELSE {Default},
                     proves : IF "away" \in menu THEN BOOLEAN ELSE {"legacy" \notin menu},
                     ask : {NoAsk}]
    /\ history = [proven |-> 0, answered |-> {}, ran |-> {}, outcomes |-> {}, executed |-> {}]

Next == Interrupt \/ PollExpired \/ Owner \/ Expired \/ EsbThread \/ PingTimeout \/ Console \/ World

Spec == Init /\ [][Next]_vars

----------------------------------------------------------------------------
\* Properties.

Flags == {"none", "normal", "confirm", "metadata"} \union WomFlags \union Commands

\* Every variable keeps its type.
TypeOK ==
    /\ link \in [on : BOOLEAN, state : {"pairing", "paired"}, pairing : BOOLEAN,
                 addr : {Nobody, Peer} \union Strangers, provisional : BOOLEAN, disabled : BOOLEAN]
    /\ chan \in [at : Channels, home : Channels, index : Nat, search : BOOLEAN, wait : BOOLEAN,
                 found : BOOLEAN, heard : BOOLEAN, redirecting : BOOLEAN, target : Channels,
                 confirmed : BOOLEAN, capable : BOOLEAN, legacy : BOOLEAN]
    /\ chan.index < CandidateCount(chan.home, Band)
    /\ ping \in [pending : BOOLEAN, counter : 0..(Counters - 1), asked : BOOLEAN]
    /\ synced \in BOOLEAN /\ minutes \in 0..2 /\ trouble \in 0..MaxTrouble /\ menu \in Menus
    /\ stored \in [addr : {Nobody, Peer} \union Strangers, channel : Channels \union {Preset}]
    /\ control.received \in Flags /\ control.acked \in Flags
    /\ wom.flag \in WomFlags \union {"normal"}
    /\ air.flag \in Flags /\ owner.flag \in Flags
    /\ rx.kind \in Flags \union {"wom"}

\* The proof of a channel is about the channel the radio is on: no PONG that
\* is read late, before, during or after a tune, confirms the next channel.
ProofIsHere == chan.confirmed => history.proven = chan.at

\* The poll writes a receiver's address, or a channel other than the one it
\* found stored, only in a session in which that receiver has answered on the
\* paired pipes, and then the channel it has proved to be on. The console
\* assigns and clears an address without the lock.
StoresProven ==
    [][owner.at \in {"address", "channel"} /\ owner' # owner =>
          /\ stored'.addr # stored.addr =>
                stored'.addr \in history.answered \union {Nobody} \/ console # Unused
          /\ stored'.channel # stored.channel => Decoded(stored'.channel) = history.proven]_vars

\* An entry into sleep or a clearing of the timeout runs once for its token,
\* however often the receiver repeats it, unless a session, a restart of the
\* receiver or another control came between (esb.c:262, "must never rerun
\* on a duplicate").
RunsOnce ==
    [][esb.at = "idle" /\ esb'.doing = "wom" /\ esb'.ask.kind \in {"clear", "enter"}
          => esb'.ask.token \notin history.ran]_vars

\* A PING that carries the outcome of a transaction carries one that its
\* token had: flag, result and token are never of two transactions.
OutcomeIsWhole ==
    air.flag \in WomFlags =>
        [token |-> air.data.token, flag |-> air.flag, result |-> air.data.result] \in history.outcomes

\* A command that stands acknowledged was executed, with the value it has,
\* since the receiver last withdrew one: no execution begun before
\* acknowledges what replaced its command meanwhile.
AckedWasExecuted ==
    (/\ control.received # "normal" /\ control.received = control.acked
     /\ control.received = "rate" => control.rate = control.ackedRate)
    => <<control.received, Value(control.received)>> \in history.executed
=============================================================================
