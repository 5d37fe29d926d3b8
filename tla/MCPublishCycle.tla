--------------------------- MODULE MCPublishCycle ---------------------------
(***************************************************************************)
(* Model values for PublishCycle.                                          *)
(***************************************************************************)
EXTENDS PublishCycle

\* One notification per message, so that a tick can make two messages.
OnePerMessage == [lifetime |-> 3, keepAlive |-> 1, priority |-> 0, wakes |-> TRUE, perPublish |-> 1]

\* No limit per message, a longer keep-alive period and no immediate wake.
Unlimited == [lifetime |-> 0, keepAlive |-> 2, priority |-> 0, wakes |-> FALSE, perPublish |-> 0]

MCRequestedSettings == {OnePerMessage, Unlimited}

MCOneSetting == {OnePerMessage}
=============================================================================
