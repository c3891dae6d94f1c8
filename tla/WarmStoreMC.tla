---------------------------- MODULE WarmStoreMC ----------------------------
(* A small instance of WarmStore: the state stands for state and            *)
(* coefficients, and the table has room for three of the four ids.            *)
EXTENDS WarmStore

MCModel == <<"points", "state">>

\* one menu per question: what becomes of a session, what of its values,
\* the reboot counter
MCMenus ==
    {{"heated", "point", "flush"}, {"heated", "quiet", "imu", "flush"},
     {"heated", "clear", "erase", "flush"}, {"heated", "remove"}, {"heated", "imupoint"},
     {"heated", "backup", "onlinemag", "flush"}, {"onlinemag", "manualmag", "flush"}, {"counter"}}
MagMenu == {{"onlinemag", "flush"}}

=============================================================================
