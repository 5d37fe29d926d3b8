-------------------------- MODULE MCItemReporting --------------------------
(* Settings for TLC: item 1 with every kind of sampling interval, queues   *)
(* of one and of two entries and both discard policies; item 2 the one     *)
(* that is triggered.                                                      *)
EXTENDS ItemReporting

Set(mode, interval, size, oldest) ==
    [mode |-> mode, interval |-> interval, queueSize |-> size, discardOldest |-> oldest]

MCSettings ==
    [id \in Ids |->
      IF id = 1
      THEN {Set("Reporting", Subscription, 2, TRUE), Set("Reporting", 1, 2, FALSE),
            Set("Sampling", 1, 1, TRUE)}
      ELSE {Set("Sampling", 0, 2, TRUE)}]
=============================================================================
