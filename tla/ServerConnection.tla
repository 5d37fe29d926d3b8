-------------------------- MODULE ServerConnection --------------------------
(***************************************************************************)
(* One connection of the server: the select! loop of the controller        *)
(* (session/controller.rs) and the poll of its transport (transport/tcp.rs *)
(* with the SendBuffer of comms/buffer.rs).                                *)
(*                                                                         *)
(* An arm of the select! that completes drops the poll of the transport    *)
(* where it stands.  `poll` is that suspended future: what it holds is     *)
(* lost when it is dropped.  Messages are one chunk long; the security of  *)
(* OpenSecureChannel chunks is computed elsewhere and awaited when the     *)
(* channel has a SecurityPolicy, everything else is done in place.         *)
(***************************************************************************)
EXTENDS Integers, Sequences, FiniteSets, SequencesExt

CONSTANTS
    MaxRequests,    \* bound on the requests a client sends; their ids are 1..MaxRequests
    MaxInflight,    \* limits.max_inflight_requests_per_connection, 0 for none
    RequestTimeout, \* effective_request_timeout
    Secured,        \* whether OpenSecureChannel chunks are secured by another task
    Halts           \* whether the connection deadline passes or the server is stopped

ASSUME ServerConnectionAssumption ==
    /\ MaxRequests \in Nat /\ MaxInflight \in Nat /\ RequestTimeout \in Nat
    /\ Secured \in BOOLEAN /\ Halts \in BOOLEAN

Ids == 1..MaxRequests
\* What a request is to the controller: answered at once, by a handler of its
\* own, an OpenSecureChannel, a message that cannot be decoded, or CloseSecureChannel.
Kinds == {"sync", "async", "osc", "bad", "close"}
Frame == [id : Ids, kind : Kinds]
Chunk == [id : 0..MaxRequests, seq : Nat, kind : {"msg", "osc", "err"}]

ErrorChunk == [id |-> 0, seq |-> 0, kind |-> "err"]
NoPoll == [pc |-> "none", chunk |-> <<>>, frame |-> <<>>, batch |-> <<>>]

VARIABLES
    sent,       \* requests the client has sent
    wireIn,     \* frames on the way to the server
    eof,        \* the client has closed its side
    conn,       \* Running, Closing, Closed
    late,       \* the connection's deadline has passed: that arm stays ready
    pending,    \* pending_messages: request id -> what its handler is at
    deadlines,  \* deadline_queue.entries: request id -> time left
    completed,  \* deadline_queue.completed
    signals,    \* the keys of deadline_signals
    responses,  \* pending_responses of the transport
    chunks,     \* queued chunks of the send buffer
    buffer,     \* the chunk in the send buffer, if any
    nextSeq,    \* the next sequence number
    poll,       \* the suspended poll of the transport
    out,        \* history: chunks written to the client
    mishaps     \* history: "limit", "drain", "encode", "verify": see the properties

requestVars == <<pending, deadlines, completed, signals>>
sendVars == <<responses, chunks, buffer, nextSeq, out>>
clientVars == <<sent, wireIn, eof>>
vars == <<clientVars, conn, late, requestVars, sendVars, poll, mishaps>>

TypeOK ==
    /\ sent \in 0..MaxRequests
    /\ wireIn \in Seq(Frame) /\ eof \in BOOLEAN
    /\ conn \in {"Running", "Closing", "Closed"} /\ late \in BOOLEAN
    /\ DOMAIN pending \subseteq Ids
    /\ \A i \in DOMAIN pending : pending[i] \in {"running", "done", "panicked"}
    /\ DOMAIN deadlines \subseteq Ids
    /\ \A i \in DOMAIN deadlines : deadlines[i] \in 0..RequestTimeout
    /\ completed \subseteq Ids /\ signals \subseteq Ids
    /\ responses \in Seq(Ids)
    /\ chunks \in Seq(Chunk) /\ buffer \in Seq(Chunk) /\ Len(buffer) <= 1
    /\ nextSeq \in Nat
    /\ poll \in [pc : {"none", "encoding", "io", "verifying", "drain", "process"},
                 chunk : Seq(Chunk), frame : Seq(Frame), batch : Seq(Frame)]
    /\ out \in Seq(Chunk)
    /\ mishaps \subseteq {"limit", "drain", "encode", "verify"}

Init ==
    /\ sent = 0 /\ wireIn = <<>> /\ eof = FALSE
    /\ conn = "Running" /\ late = FALSE
    /\ pending = <<>> /\ deadlines = <<>> /\ completed = {} /\ signals = {}
    /\ responses = <<>> /\ chunks = <<>> /\ buffer = <<>> /\ nextSeq = 1
    /\ poll = NoPoll /\ out = <<>> /\ mishaps = {}

-----------------------------------------------------------------------------
Without(f, S) == [i \in DOMAIN f \ S |-> f[i]]
With(f, i, v) == [j \in DOMAIN f \union {i} |-> IF j = i THEN v ELSE f[j]]

\* SendBuffer::write: the message takes its sequence number now.
Written(kind, id) == [id |-> id, seq |-> nextSeq, kind |-> kind]
Write(kind, id) ==
    /\ chunks' = Append(chunks, Written(kind, id))
    /\ nextSeq' = nextSeq + 1

\* fatal_error: the queued chunks are replaced by the error.
FatalError ==
    /\ conn' = "Closing"
    /\ chunks' = IF conn = "Running" THEN <<ErrorChunk>> ELSE chunks

\* Another arm can only complete where the poll awaits: before it starts,
\* at the socket, or for the security of an OpenSecureChannel chunk.
Selecting ==
    /\ conn # "Closed"
    /\ \/ poll.pc \in {"none", "encoding", "io"}
       \/ poll.pc = "verifying" /\ Secured /\ Head(poll.frame).kind = "osc"
DropPoll ==
    /\ Selecting
    /\ poll' = NoPoll
    /\ mishaps' = mishaps \union (IF poll.pc = "encoding" THEN {"encode"} ELSE {})
                          \union (IF poll.pc = "verifying" THEN {"verify"} ELSE {})

-----------------------------------------------------------------------------
(* The client and the handlers *)

Send(kind) ==
    /\ sent < MaxRequests /\ ~eof
    /\ sent' = sent + 1
    /\ wireIn' = Append(wireIn, [id |-> sent + 1, kind |-> kind])
    /\ UNCHANGED <<eof, conn, late, requestVars, sendVars, poll, mishaps>>

Disconnect ==
    /\ ~eof
    /\ eof' = TRUE
    /\ UNCHANGED <<sent, wireIn, conn, late, requestVars, sendVars, poll, mishaps>>

HandlerEnds(i, result) ==
    /\ conn # "Closed"
    /\ pending[i] = "running" /\ i \in signals
    /\ pending' = [pending EXCEPT ![i] = result]
    /\ UNCHANGED <<clientVars, conn, late, deadlines, completed, signals, sendVars, poll, mishaps>>

Tick ==
    /\ \E i \in DOMAIN deadlines : deadlines[i] > 0
    /\ deadlines' = [i \in DOMAIN deadlines |-> IF deadlines[i] = 0 THEN 0 ELSE deadlines[i] - 1]
    /\ UNCHANGED <<clientVars, conn, late, pending, completed, signals, sendVars, poll, mishaps>>

-----------------------------------------------------------------------------
(* The arms of the select! other than the transport *)

\* The deadline of the connection, or ControllerCommand::Close.  Neither is
\* rearmed, so the arm is ready again at once.
HaltArm ==
    /\ Halts
    /\ conn = "Running" \/ late
    /\ DropPoll
    /\ late' = TRUE
    /\ FatalError
    /\ UNCHANGED <<clientVars, requestVars, responses, buffer, nextSeq, out>>

\* pop_expired, then the abort senders are dropped.
DeadlineArm ==
    LET due == {i \in DOMAIN deadlines : deadlines[i] = 0} IN
    /\ due # {}
    /\ DropPoll
    /\ deadlines' = Without(deadlines, due)
    /\ completed' = completed \ due
    /\ signals' = signals \ (due \ completed)
    /\ UNCHANGED <<clientVars, conn, late, pending, sendVars>>

\* Mutant: a handler that timed out is not answered.
ResponseArmSilent(i) ==
    /\ pending[i] = "done" \/ (pending[i] = "running" /\ i \notin signals)
    /\ DropPoll
    /\ pending' = Without(pending, {i})
    /\ completed' = completed \union {i}
    /\ signals' = signals \ {i}
    /\ responses' = IF pending[i] = "done" THEN Append(responses, i) ELSE responses
    /\ UNCHANGED <<clientVars, conn, late, deadlines, chunks, buffer, nextSeq, out>>

\* Mutant: the abort signal is not awaited.
ResponseArmDone(i) ==
    /\ pending[i] = "done"
    /\ DropPoll
    /\ pending' = Without(pending, {i})
    /\ completed' = completed \union {i}
    /\ signals' = signals \ {i}
    /\ responses' = Append(responses, i)
    /\ UNCHANGED <<clientVars, conn, late, deadlines, chunks, buffer, nextSeq, out>>

\* A handler's result, or BadTimeout once its abort sender is gone.
ResponseArm(i) ==
    /\ pending[i] = "done" \/ (pending[i] = "running" /\ i \notin signals)
    /\ DropPoll
    /\ pending' = Without(pending, {i})
    /\ completed' = completed \union {i}
    /\ signals' = signals \ {i}
    /\ responses' = Append(responses, i)
    /\ UNCHANGED <<clientVars, conn, late, deadlines, chunks, buffer, nextSeq, out>>

PanicArm(i) ==
    /\ pending[i] = "panicked"
    /\ DropPoll
    /\ pending' = Without(pending, {i})
    /\ FatalError
    /\ UNCHANGED <<clientVars, late, deadlines, completed, signals, responses, buffer, nextSeq, out>>

-----------------------------------------------------------------------------
(* transport.poll *)

CanPoll == MaxInflight = 0 \/ Cardinality(DOMAIN pending) < MaxInflight

\* Mutant: the first response repeats the number of the last chunk.
EncodedOffByOne == [k \in 1..Len(responses) |->
             [id |-> responses[k], seq |-> nextSeq + k - 2, kind |-> "msg"]]

Encoded == [k \in 1..Len(responses) |->
             [id |-> responses[k], seq |-> nextSeq + k - 1, kind |-> "msg"]]

ShouldEncode(queued) == queued # <<>> /\ buffer = <<>>

\* Encode the queued responses; then fill the send buffer with the next chunk,
\* which is taken from the queue before its security is awaited.
PollBegin ==
    LET queued == chunks \o Encoded
        take == ShouldEncode(queued)
        offload == take /\ Secured /\ Head(queued).kind = "osc"
    IN
    /\ Selecting /\ poll.pc = "none" /\ CanPoll
    /\ responses' = <<>>
    /\ nextSeq' = nextSeq + Len(responses)
    /\ chunks' = IF take THEN Tail(queued) ELSE queued
    /\ IF offload
       THEN /\ poll' = [poll EXCEPT !.pc = "encoding", !.chunk = <<Head(queued)>>]
            /\ UNCHANGED <<buffer, conn>>
       ELSE /\ buffer' = IF take THEN buffer \o <<Head(queued)>> ELSE buffer
            /\ IF buffer' = <<>> /\ conn = "Closing"
               THEN conn' = "Closed" /\ UNCHANGED poll
               ELSE poll' = [poll EXCEPT !.pc = "io"] /\ UNCHANGED conn
    /\ UNCHANGED <<clientVars, late, requestVars, out, mishaps>>

EncodeDone ==
    /\ conn # "Closed"
    /\ poll.pc = "encoding"
    /\ buffer' = poll.chunk
    /\ poll' = [poll EXCEPT !.pc = "io", !.chunk = <<>>]
    /\ UNCHANGED <<clientVars, conn, late, requestVars, responses, chunks, nextSeq, out, mishaps>>

\* The poll returns OutgoingMessageSent.
WriteOut ==
    /\ conn # "Closed"
    /\ poll.pc = "io" /\ buffer # <<>>
    /\ out' = out \o buffer
    /\ buffer' = <<>>
    /\ poll' = NoPoll
    /\ UNCHANGED <<clientVars, conn, late, requestVars, responses, chunks, nextSeq, mishaps>>

\* The connection was closed by the client.
ReadEnd ==
    /\ conn # "Closed"
    /\ poll.pc = "io" /\ wireIn = <<>> /\ eof
    /\ conn' = "Closed"
    /\ poll' = NoPoll
    /\ UNCHANGED <<clientVars, late, requestVars, sendVars, mishaps>>

\* A frame is read, by the select! of the poll or, while frames are at hand,
\* by the loop that drains them.
Read ==
    /\ conn # "Closed"
    /\ poll.pc \in {"io", "drain"} /\ wireIn # <<>>
    /\ poll' = [poll EXCEPT !.pc = "verifying", !.frame = <<Head(wireIn)>>]
    /\ wireIn' = Tail(wireIn)
    /\ UNCHANGED <<sent, eof, conn, late, requestVars, sendVars, mishaps>>

\* process_message ends.  A frame that cannot be decoded is answered with a
\* fault, and the messages the drain has collected go with the poll.
Verified ==
    /\ conn # "Closed"
    /\ poll.pc = "verifying"
    /\ IF Head(poll.frame).kind = "bad"
       THEN /\ Write("msg", Head(poll.frame).id)
            /\ poll' = NoPoll
            /\ mishaps' = IF poll.batch = <<>> THEN mishaps ELSE mishaps \union {"drain"}
       ELSE /\ poll' = [poll EXCEPT !.pc = "drain", !.frame = <<>>, !.batch = @ \o poll.frame]
            /\ UNCHANGED <<chunks, nextSeq, mishaps>>
    /\ UNCHANGED <<clientVars, conn, late, requestVars, responses, buffer, out>>

\* now_or_never: nothing more is at hand, the batch goes to the controller.
DrainEnds ==
    /\ conn # "Closed"
    /\ poll.pc = "drain"
    /\ poll' = [poll EXCEPT !.pc = "process"]
    /\ UNCHANGED <<clientVars, conn, late, requestVars, sendVars, mishaps>>

-----------------------------------------------------------------------------
(* The body of the transport arm: process_request for each message *)

ProcessNone ==
    /\ poll.pc = "process"
    /\ poll.batch = <<>> \/ ~CanPoll
    /\ poll' = NoPoll
    /\ mishaps' = IF poll.batch = <<>> THEN mishaps ELSE mishaps \union {"limit"}
    /\ UNCHANGED <<clientVars, conn, late, requestVars, sendVars>>

Process ==
    /\ poll.pc = "process" /\ poll.batch # <<>> /\ CanPoll
    /\ LET r == Head(poll.batch) IN
         \/ /\ r.kind \in {"sync", "osc"}
            /\ Write(IF r.kind = "osc" THEN "osc" ELSE "msg", r.id)
            /\ poll' = [poll EXCEPT !.batch = Tail(@)]
            /\ UNCHANGED <<conn, requestVars>>
         \/ /\ r.kind = "async"
            /\ deadlines' = With(deadlines, r.id, RequestTimeout)
            /\ completed' = completed \ {r.id}
            /\ signals' = signals \union {r.id}
            /\ pending' = With(pending, r.id, "running")
            /\ poll' = [poll EXCEPT !.batch = Tail(@)]
            /\ UNCHANGED <<conn, chunks, nextSeq>>
         \/ /\ r.kind = "close"
            /\ conn' = "Closing"
            /\ poll' = NoPoll
            /\ UNCHANGED <<chunks, nextSeq, requestVars>>
    /\ UNCHANGED <<clientVars, late, responses, buffer, out, mishaps>>

-----------------------------------------------------------------------------
PollStep ==
    PollBegin \/ EncodeDone \/ WriteOut \/ ReadEnd \/ Read \/ Verified \/ DrainEnds
      \/ ProcessNone \/ Process

Next ==
    \/ \E kind \in Kinds : Send(kind)
    \/ Disconnect
    \/ Tick
    \/ HaltArm
    \/ DeadlineArm
    \/ \E i \in DOMAIN pending :
         \/ HandlerEnds(i, "done") \/ HandlerEnds(i, "panicked")
         \/ ResponseArm(i)
         \/ PanicArm(i)
    \/ PollStep

Spec == Init /\ [][Next]_vars

\* Time passes.  select! tries its arms from a random one on, so an arm that
\* is ready again and again is taken in the end (SF), also beside the arm of
\* a deadline that stays ready.  Nothing is assumed of handlers and clients,
\* but that a client takes what is written.
HandlerArms == DeadlineArm \/ \E i \in DOMAIN pending : ResponseArm(i) \/ PanicArm(i)

FairSpec ==
    /\ Spec
    /\ WF_vars(Tick)
    /\ SF_vars(HandlerArms)
    /\ SF_vars(PollBegin)
    /\ SF_vars(WriteOut)
    /\ WF_vars(EncodeDone \/ Verified \/ DrainEnds \/ ProcessNone \/ Process)

-----------------------------------------------------------------------------
(* Properties *)

IdsIn(s) == {c.id : c \in ToSet(s)}
Received == 1..(sent - Len(wireIn))

\* Where a request that was received, or its answer, can be.
Known ==
    IdsIn(poll.frame) \union IdsIn(poll.batch) \union DOMAIN pending \union ToSet(responses)
      \union IdsIn(poll.chunk) \union IdsIn(chunks) \union IdsIn(buffer) \union IdsIn(out)

\* No request is forgotten on a running connection: it waits in the batch, is
\* in flight, or its answer is queued or sent.  The exceptions are the ones
\* of the code: the rest of a batch at the limit of requests in flight, a
\* batch whose drain met a bad frame, and a poll that another arm dropped
\* while it awaited the security of a chunk.
NoRequestForgotten == conn = "Running" /\ mishaps = {} => Received \subseteq Known

BeforeError == IF \E k \in DOMAIN out : out[k].kind = "err"
               THEN SubSeq(out, 1, (CHOOSE k \in DOMAIN out : out[k].kind = "err") - 1)
               ELSE out

\* The client sees consecutive sequence numbers, up to an error message:
\* the send side of the transport survives being dropped at any await.
WireContiguous == \A k \in DOMAIN BeforeError : BeforeError[k].seq = k

\* The same, unless a poll was dropped while a chunk was being secured.
WireContiguousUnlessCancelled == "encode" \notin mishaps => WireContiguous

\* A connection that is closing is closed in the end, although the transport
\* is not polled while every slot is taken by a handler that does not return.
CloseCompletes == (conn = "Closing") ~> (conn = "Closed")
=============================================================================
