-------------------------- MODULE SequenceNumbers --------------------------
(***************************************************************************)
(* SequenceNumberHandle of async-opcua-core, src/comms/sequence_number.rs: *)
(* the number of the next chunk an end sends, or expects.  A handle is a   *)
(* record: legacy, whether the numbering of RSA policies is used, and      *)
(* current.                                                                *)
(***************************************************************************)
EXTENDS Integers

CONSTANTS
    U32Max,   \* u32::MAX
    Slack     \* 1024: how far below u32::MAX the legacy numbering ends

ASSUME SequenceConstants ==
    U32Max \in Nat /\ Slack \in Nat /\ 1 < Slack /\ Slack < U32Max

MinValue(h) == IF h.legacy THEN 1 ELSE 0
MaxValue(h) == IF h.legacy THEN U32Max - Slack ELSE U32Max

NewHandle(legacy) == [legacy |-> legacy, current |-> IF legacy THEN 1 ELSE 0]

\* increment: past the end it continues from the start.
Increment(h, n) ==
    LET remaining == MaxValue(h) - h.current
    IN  [h EXCEPT !.current = IF remaining < n THEN MinValue(h) + n - remaining - 1 ELSE @ + n]

\* validate_and_increment: the number is the one expected, or, where the legacy
\* numbering may have started over, any small one.
MayStartOver(h, incoming) == h.legacy /\ h.current = MinValue(h) /\ incoming < Slack
Expected(h, incoming) == incoming = h.current \/ MayStartOver(h, incoming)

\* Mutant: the number expected next is one more, also past the end.
ValidatedNoWrap(h, incoming) == [h EXCEPT !.current = incoming + 1]

Validated(h, incoming) == Increment([h EXCEPT !.current = incoming], 1)
=============================================================================
