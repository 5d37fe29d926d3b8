---------------------------- MODULE ChannelKeys ----------------------------
(***************************************************************************)
(* What one end of a secure channel knows of its security tokens:          *)
(* async-opcua-core, src/comms/secure_channel/state.rs and framing.rs.  An *)
(* end is a record: token, the id written into the headers of new chunks;  *)
(* created, the time the code takes for the token's creation; local, the   *)
(* keys that secure what it sends; remote, the keys it accepts by token    *)
(* id, each with the time it expires; send and receive, the sequence       *)
(* numbers of the next chunk in either direction.                          *)
(*                                                                         *)
(* Keys are named by the token whose two nonces they were derived from.    *)
(* Times are multiples of the unit of Lifetime; fractions of the lifetime  *)
(* are compared after multiplying by four.                                 *)
(***************************************************************************)
EXTENDS SequenceNumbers

CONSTANT Lifetime   \* the revised lifetime of every token

ASSUME LifetimeAssumption == Lifetime \in Nat \ {0}

\* The keys of the asymmetric algorithms, which secure OPN chunks.
Asymmetric == 0

\* should_renew_security_token: three quarters of the lifetime are over.
ShouldRenew(e, now) == e.token # 0 /\ 4 * (now - e.created) > 3 * Lifetime

\* Four times expires_at of insert_remote_keys.
ExpiresAt(e) == 4 * e.created + 5 * Lifetime

\* insert_remote_keys: expired keys go first, then the current token's are added.
InsertRemoteKeys(e, keys, now) ==
    LET kept == {t \in DOMAIN e.remote : 4 * now < e.remote[t].expires}
    IN  [e EXCEPT !.remote =
            [t \in kept \cup {e.token} |->
               IF t = e.token THEN [keys |-> keys, expires |-> ExpiresAt(e)] ELSE e.remote[t]]]

\* derive_keys: the local keys are replaced at once.
DeriveKeys(e, keys, now) == InsertRemoteKeys([e EXCEPT !.local = keys], keys, now)

\* set_security_token, on the client.
SetSecurityToken(e, token, created) == [e EXCEPT !.token = token, !.created = created]

\* A message cut into its chunk by SendBuffer::write: make_security_header puts the
\* token id into the header now, and the sequence number is taken.
Chunk(e, kind, body) ==
    [kind |-> kind, token |-> IF kind = "OPN" THEN 0 ELSE e.token, keys |-> Asymmetric,
     number |-> e.send.current, body |-> body]

Sent(e) == [e EXCEPT !.send = Increment(@, 1)]

\* apply_security when a chunk is encoded, later.
Secured(e, c) == IF c.kind = "OPN" THEN c ELSE [c EXCEPT !.keys = e.local]

\* verify_and_remove_security: the keys are looked up by the id in the header.
Verifies(e, c) ==
    \/ c.kind = "OPN"
    \/ c.token \in DOMAIN e.remote /\ e.remote[c.token].keys = c.keys

\* The sequence number is looked at next, and counted whoever the chunk is for.
InOrder(e, c) == Expected(e.receive, c.number)
Takes(e, c) == Verifies(e, c) /\ InOrder(e, c)
Received(e, c) == [e EXCEPT !.receive = Validated(@, c.number)]

\* A new channel after its Issue at time 0, whose two chunks are the first of either
\* direction; legacy says which numbering sends, and which one is expected.
Issued(sends, expects) ==
    InsertRemoteKeys([token |-> 1, created |-> 0, local |-> 1, remote |-> <<>>,
                      send |-> Increment(NewHandle(sends), 1),
                      receive |-> Validated(NewHandle(expects), NewHandle(sends).current)], 1, 0)
=============================================================================
