---------------------------- MODULE RadioLinkMC ----------------------------
(***************************************************************************)
(* An instance of RadioLink: a band of three even channels, and in each    *)
(* behaviour a few of the things the world can do (a menu).  The order of  *)
(* the search is also evaluated over the real band and the real table.     *)
(***************************************************************************)
EXTENDS RadioLink

MCPreferred == <<2>>

MCMenus ==
    {\* the channel
     {"away", "silence"}, {"away", "move", "fault"}, {"hold", "move"}, {"channel", "switch"},
     \* pairing
     {"unpaired", "away"}, {"unpaired", "pair"}, {"unpaired", "switch"}, {"forget"}, {"pair"},
     \* commands, and the sleep timeout
     {"off", "meow"}, {"legacy", "rate"}, {"tune", "fault"}, {"silence", "meow"},
     {"clear", "restart"}, {"query", "minutes"}, {"set", "metadata"}, {"enter", "query"}}

\* The order of the search over the real band and ESB_ALLOWED_CHANNELS: from
\* every home it visits the home first, each even channel once, and no other.
ESBAllowed ==
    <<0, 2, 52, 72, 74, 76, 78, 82, 84, 86, 88, 50, 24, 48, 70, 68, 46, 44, 20, 54, 56, 28, 30,
      6, 8, 10, 12, 14, 16, 18, 32, 34, 36, 38, 40, 42, 58, 60, 62, 64, 66>>
ASSUME SearchIsComplete ==
    \A home \in 0..100 :
        LET order == SearchOrder(home, ESBAllowed, 100)
        IN  /\ order[1] = home /\ IsInjective(order)
            /\ ToSet(order) = {c \in 0..100 : c % 2 = 0} \union {home}
            /\ Len(order) = CandidateCount(home, 100)
=============================================================================
