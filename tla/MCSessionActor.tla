--------------------------- MODULE MCSessionActor ---------------------------
(***************************************************************************)
(* Model values for SessionActor.                                          *)
(***************************************************************************)
EXTENDS SessionActor

Setting(priority) ==
    [lifetime |-> 3, keepAlive |-> 1, priority |-> priority, wakes |-> TRUE, perPublish |-> 0]

MCTwoPriorities == {Setting(0), Setting(1)}

MCOnePriority == {Setting(0)}
=============================================================================
