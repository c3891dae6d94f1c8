------------------------- MODULE TrackerEventsMC -------------------------
(* Small instances of TrackerEvents.                                       *)
EXTENDS TrackerEvents

Menu(names, calls) == [names |-> names, calls |-> calls]

\* one menu per question: intents and identity changes around a boot
\* observation, a full queue, an operation's life, the rest states
MCMenus ==
    {Menu({"boot", "session", "WILL_SHUTDOWN", "WILL_WOM", "WOM_CANCELLED"}, 2),
     Menu({"boot", "WILL_WOM", "BUTTON"}, 3),
     Menu({"begin", "step", "end", "storage"}, 3),
     Menu({"accept", "start", "reject", "reason", "BUTTON"}, 2),
     Menu({"observe", "invalidate"}, 2)}

MCObservations ==
    {[tracker |-> "rest", fusion |-> "none"], [tracker |-> "none", fusion |-> "rest"],
     [tracker |-> "none", fusion |-> "unsupported"]}
==========================================================================
