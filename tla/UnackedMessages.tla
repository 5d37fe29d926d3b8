-------------------------- MODULE UnackedMessages ---------------------------
(***************************************************************************)
(* What a session promises about notification messages it has sent: they   *)
(* are kept until the client acknowledges them, their subscription goes    *)
(* away, or room is needed for a newer one, and then it is the oldest that *)
(* goes.  This is the abstract specification that RetransmissionQueue      *)
(* implements: messages and their order, without ids and indexes.          *)
(***************************************************************************)
EXTENDS FiniteSets, Naturals

CONSTANTS
    SubIds,     \* subscription ids
    Seqs,       \* sequence numbers
    MaxLens     \* values the queue's limit takes

VARIABLES
    held,       \* the <<subscription, sequence number>> pairs of unacknowledged messages
    older       \* pairs of messages, the first of which came before the second

vars == <<held, older>>

Init == held = {} /\ older = {}

Oldest == {k \in held : \A j \in held \ {k} : <<k, j>> \in older}

\* Of the messages only those in S stay, in their order.
Keep(S) == held' = S /\ older' = older \cap (S \X S)

\* A message comes behind those in S, which stay.
Arrive(k, S) ==
    /\ k \notin held
    /\ held' = S \cup {k}
    /\ older' = (older \cap (S \X S)) \cup (S \X {k})

\* A message is sent; at the limit the oldest message is forgotten first.
Send(k, maxLen) == Arrive(k, IF Cardinality(held) < maxLen THEN held ELSE held \ Oldest)

\* A message arrives with a transferred subscription; no limit applies.
Adopt(k) == Arrive(k, held)

Acknowledge(k) == k \in held /\ Keep(held \ {k})

Forget(s) == Keep({k \in held : k[1] # s})

Next ==
    \/ \E k \in SubIds \X Seqs, maxLen \in MaxLens : Send(k, maxLen)
    \/ \E k \in SubIds \X Seqs : Adopt(k) \/ Acknowledge(k)
    \/ \E s \in SubIds : Forget(s)

Spec == Init /\ [][Next]_vars
=============================================================================
