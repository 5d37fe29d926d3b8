--------------------------- MODULE SecureChannel ---------------------------
(***************************************************************************)
(* A secured connection between the client of async-opcua-client and the   *)
(* server of async-opcua-server while security tokens are renewed.         *)
(*                                                                         *)
(* Client: any number of tasks call AsyncSecureChannel::send               *)
(* (transport/channel.rs).  The first that finds three quarters of the     *)
(* lifetime over takes channel_is_renewing, sends a Renew and waits; the   *)
(* others wait on a Notify that the RenewGuard signals when it is dropped. *)
(* A task that lost the race is not registered with the Notify yet when    *)
(* its compare_exchange fails.  Messages pass the queue of the transport   *)
(* (outgoing), become chunks with the token id of that moment (clientOut)  *)
(* and are secured with the keys of the moment they are encoded.  The      *)
(* answer to a Renew is dropped if its request has timed out (core.rs),    *)
(* though its sequence number counts.                                      *)
(*                                                                         *)
(* Server: SessionController::open_secure_channel (session/controller.rs)  *)
(* switches token and keys when the Renew is processed, before the answer  *)
(* is written; other answers wait as chunks in serverOut.  A Renew it      *)
(* refuses has changed the token id already.                               *)
(*                                                                         *)
(* The wires are TCP streams: FIFO, nothing lost while connected.  The     *)
(* connection ends at the first chunk an end cannot verify or that has not *)
(* the number it expects, or when the server reads a CloseSecureChannel.   *)
(* Reconnecting is not modelled.                                           *)
(***************************************************************************)
EXTENDS ChannelKeys, Sequences, SequencesExt, FiniteSets

CONSTANTS
    Callers,       \* tasks that call send on the client
    MaxNow,        \* bound on the clock
    MaxSends,      \* bound on calls of send
    MaxToken,      \* bound on token ids
    Legacy,        \* SecurityPolicy::legacy_sequence_numbers
    CertMayFail    \* whether a renewal may meet a certificate no longer trusted

ASSUME ConstantsOK ==
    /\ {MaxNow, MaxSends, MaxToken} \subseteq Nat
    /\ {CertMayFail, Legacy} \subseteq BOOLEAN

VARIABLES
    now,
    client, server,   \* the two ends
    outgoing,         \* messages in the client transport's mpsc queue
    clientOut, serverOut,   \* chunks not secured yet
    toServer, toClient,     \* secured chunks on the wires
    unanswered,       \* requests the server is still working on
    pc,               \* where each caller is in send
    renewing,         \* channel_is_renewing
    waiters,          \* callers registered with issue_channel_lock
    awaited,          \* the Renew whose callback is in the request table, or 0
    answer,           \* what the callback of the Renew was given
    status,           \* "open", "closed", the end that could not verify a chunk, or
                      \* "number" where one was out of sequence
    rejected,         \* history: the chunk that was rejected
    abandoned,        \* history: a Renew timed out after it was sent
    refused,          \* history: the server refused the last Renew
    renewals,         \* Renew requests begun so far: their request ids
    sends

conn == <<client, server, outgoing, clientOut, serverOut, toServer, toClient, unanswered>>
calls == <<pc, renewing, waiters, awaited, answer, renewals, sends>>
ended == <<status, rejected, abandoned, refused>>
vars == <<now, conn, calls, ended>>

\* The body of an OPN chunk: the request id, and in an answer the token granted and
\* its creation time; a ServiceFault grants no token, 0.
Body(req, grant, at) == [req |-> req, grant |-> grant, at |-> at]
NoBody == Body(0, 0, 0)
NoChunk == [kind |-> "none", token |-> 0, keys |-> Asymmetric, number |-> 0, body |-> NoBody]
Message(kind, req) == [kind |-> kind, req |-> req]
Open == status = "open"

Init ==
    /\ now = 0
    /\ client = Issued(Legacy, Legacy) /\ server = Issued(Legacy, TRUE)
    /\ outgoing = <<>> /\ clientOut = <<>> /\ serverOut = <<>>
    /\ toServer = <<>> /\ toClient = <<>>
    /\ unanswered = 0
    /\ pc = [p \in Callers |-> "idle"]
    /\ renewing = FALSE
    /\ waiters = {}
    /\ awaited = 0
    /\ answer = "none"
    /\ renewals = 0
    /\ status = "open"
    /\ rejected = NoChunk
    /\ abandoned = FALSE /\ refused = FALSE
    /\ sends = 0

-----------------------------------------------------------------------------
(* AsyncSecureChannel::send and renew_secure_channel.                      *)

Goto(p, l) == pc' = [pc EXCEPT ![p] = l]

\* send reads the sender and the age of the token; a transport that is gone
\* refuses the message later, as BadConnectionClosed.
Send(p) ==
    /\ Open /\ pc[p] = "idle" /\ sends < MaxSends
    /\ sends' = sends + 1
    /\ Goto(p, IF ShouldRenew(client, now) THEN "exchange" ELSE "go")
    /\ UNCHANGED <<now, conn, renewing, waiters, awaited, answer, renewals, ended>>

\* compare_exchange on channel_is_renewing.
Exchange(p) ==
    /\ pc[p] = "exchange"
    /\ renewing' = TRUE
    /\ Goto(p, IF renewing THEN "lost" ELSE "renew")
    /\ UNCHANGED <<now, conn, waiters, awaited, answer, renewals, sends, ended>>

\* notified(): from here on the caller is seen by notify_waiters.
Register(p) ==
    /\ pc[p] = "lost"
    /\ waiters' = waiters \cup {p}
    /\ Goto(p, "waiting")
    /\ UNCHANGED <<now, conn, renewing, awaited, answer, renewals, sends, ended>>

\* Woken: the loop looks at channel_is_renewing again.
Woken(p) ==
    /\ pc[p] = "waiting" /\ p \notin waiters
    /\ Goto(p, IF renewing THEN "lost" ELSE "go")
    /\ UNCHANGED <<now, conn, renewing, waiters, awaited, answer, renewals, sends, ended>>

\* Mutant: the flag is cleared and nobody is told.
DropGuardSilently == renewing' = FALSE /\ waiters' = waiters

\* Drop of RenewGuard.
DropGuard == renewing' = FALSE /\ waiters' = {}

\* The age is read again; another caller may have renewed meanwhile.
NotNeeded(p) ==
    /\ pc[p] = "renew" /\ ~ShouldRenew(client, now)
    /\ DropGuard
    /\ Goto(p, "go")
    /\ UNCHANGED <<now, conn, awaited, answer, renewals, sends, ended>>

\* begin_issue_or_renew_secure_channel and Request::send.
BeginRenew(p) ==
    /\ Open
    /\ pc[p] = "renew" /\ ShouldRenew(client, now)
    /\ renewals' = renewals + 1
    /\ outgoing' = Append(outgoing, Message("OPN", renewals'))
    /\ Goto(p, "await")
    /\ answer' = "none"
    /\ UNCHANGED <<now, client, server, clientOut, serverOut, toServer, toClient, unanswered,
                   renewing, waiters, awaited, sends, ended>>

Renewed(p) ==
    /\ pc[p] = "await" /\ answer = "token"
    /\ DropGuard
    /\ Goto(p, "go")
    /\ answer' = "none"
    /\ UNCHANGED <<now, conn, awaited, renewals, sends, ended>>

\* The answer is a ServiceFault: the error leaves the channel open.
RenewRefused(p) ==
    /\ pc[p] = "await" /\ answer = "fault"
    /\ DropGuard
    /\ Goto(p, "idle")
    /\ answer' = "none"
    /\ UNCHANGED <<now, conn, awaited, renewals, sends, ended>>

\* next_timeout drops the entry of the Renew, whether or not it has been sent, and
\* the caller sends a CloseSecureChannel, then returns its error.
RenewTimesOut(p) ==
    /\ Open
    /\ pc[p] = "await" /\ answer = "none" /\ awaited # 0
    /\ awaited' = 0
    /\ abandoned' = TRUE
    /\ outgoing' = Append(outgoing, Message("CLO", 0))
    /\ DropGuard
    /\ Goto(p, "idle")
    /\ UNCHANGED <<now, client, server, clientOut, serverOut, toServer, toClient, unanswered,
                   answer, renewals, sends, status, rejected, refused>>

\* The transport is gone: its queue is closed and its callbacks are dropped.
Disconnected(p) ==
    /\ ~Open
    /\ pc[p] \in {"renew", "await", "go"}
    /\ IF pc[p] = "go" THEN UNCHANGED <<renewing, waiters>> ELSE DropGuard
    /\ Goto(p, "idle")
    /\ UNCHANGED <<now, conn, awaited, answer, renewals, sends, ended>>

\* The request itself; its response is not followed.
SendRequest(p) ==
    /\ Open
    /\ pc[p] = "go"
    /\ outgoing' = Append(outgoing, Message("MSG", 0))
    /\ Goto(p, "idle")
    /\ UNCHANGED <<now, client, server, clientOut, serverOut, toServer, toClient, unanswered,
                   renewing, waiters, awaited, answer, renewals, sends, ended>>

-----------------------------------------------------------------------------
(* The client's transport task.                                            *)

\* wait_for_outgoing_message and SendBuffer::write.
ClientWrite ==
    /\ Open /\ outgoing # <<>>
    /\ outgoing' = Tail(outgoing)
    /\ clientOut' = Append(clientOut, Chunk(client, Head(outgoing).kind,
                                            Body(Head(outgoing).req, 0, 0)))
    /\ client' = Sent(client)
    /\ awaited' = IF Head(outgoing).kind = "OPN" THEN Head(outgoing).req ELSE awaited
    /\ UNCHANGED <<now, server, serverOut, toServer, toClient, unanswered,
                   pc, renewing, waiters, answer, renewals, sends, ended>>

\* encode_next_chunk
ClientEncode ==
    /\ Open /\ clientOut # <<>>
    /\ clientOut' = Tail(clientOut)
    /\ toServer' = Append(toServer, Secured(client, Head(clientOut)))
    /\ UNCHANGED <<now, client, server, outgoing, serverOut, toClient, unanswered, calls, ended>>

\* An end that cannot take a chunk gives the connection up.
Reject(why, c) == status' = why /\ rejected' = c /\ UNCHANGED <<abandoned, refused>>

\* end_issue_or_renew_secure_channel
EndRenew(token, created) ==
    DeriveKeys(SetSecurityToken(client, token, created), token, now)

\* process_chunk of the answer to a Renew; one nobody waits for is ignored.
AnswerRenew(b) ==
    /\ toClient' = Tail(toClient)
    /\ LET ours == awaited = b.req
       IN  /\ awaited' = IF ours THEN 0 ELSE awaited
           /\ answer' = IF ours THEN (IF b.grant = 0 THEN "fault" ELSE "token") ELSE answer
           /\ client' = Received(IF ours /\ b.grant # 0 THEN EndRenew(b.grant, b.at) ELSE client,
                                 Head(toClient))

ClientReadOpen ==
    /\ Open /\ toClient # <<>> /\ Head(toClient).kind = "OPN"
    /\ Takes(client, Head(toClient))
    /\ AnswerRenew(Head(toClient).body)
    /\ UNCHANGED <<now, server, outgoing, clientOut, serverOut, toServer, unanswered,
                   pc, renewing, waiters, renewals, sends, ended>>

\* Any other chunk: a response, which is not followed further.
ClientRead ==
    /\ Open /\ toClient # <<>> /\ Head(toClient).kind # "OPN"
    /\ Takes(client, Head(toClient))
    /\ toClient' = Tail(toClient)
    /\ client' = Received(client, Head(toClient))
    /\ UNCHANGED <<now, server, outgoing, clientOut, serverOut, toServer, unanswered, calls, ended>>

ClientRejects ==
    /\ Open /\ toClient # <<>>
    /\ ~Takes(client, Head(toClient))
    /\ Reject(IF Verifies(client, Head(toClient)) THEN "number" ELSE "client", Head(toClient))
    /\ toClient' = Tail(toClient)
    /\ UNCHANGED <<now, client, server, outgoing, clientOut, serverOut, toServer, unanswered, calls>>

-----------------------------------------------------------------------------
(* The server's connection task.                                           *)

\* The new token of a Renew: token_created_at stays that of the connection.
Renew == DeriveKeys([server EXCEPT !.token = @ + 1], server.token + 1, now)

\* The answer e writes to the Renew it has just read: the token it grants, or 0.
OpenAnswer(e, grant) ==
    Chunk(e, "OPN", Body(Head(toServer).body.req, grant, IF grant = 0 THEN 0 ELSE now))

ReadsOpen ==
    /\ Open /\ toServer # <<>> /\ Head(toServer).kind = "OPN" /\ server.token < MaxToken
    /\ Takes(server, Head(toServer))
    /\ toServer' = Tail(toServer)
    /\ UNCHANGED <<now, client, outgoing, clientOut, toClient, unanswered, calls>>
    /\ UNCHANGED <<status, rejected, abandoned>>

\* Mutant: the answer is written and the keys are derived later, or never.
ServerReadOpenLate ==
    /\ ReadsOpen
    /\ server' = Sent(Received([server EXCEPT !.token = @ + 1], Head(toServer)))
    /\ serverOut' = Append(serverOut, OpenAnswer(server, server.token + 1))
    /\ refused' = FALSE

\* open_secure_channel with request type Renew.
ServerReadOpen ==
    /\ ReadsOpen
    /\ server' = Sent(Received(Renew, Head(toServer)))
    /\ serverOut' = Append(serverOut, OpenAnswer(Renew, Renew.token))
    /\ refused' = FALSE

\* The same with a certificate that fails validation: the token id has been set, the
\* keys have not, and the ServiceFault goes out as an OPN chunk.
ServerRefusesOpen ==
    /\ CertMayFail
    /\ ReadsOpen
    /\ server' = Sent(Received([server EXCEPT !.token = @ + 1], Head(toServer)))
    /\ serverOut' = Append(serverOut, OpenAnswer(server, 0))
    /\ refused' = TRUE

\* Any other chunk: a request, or a CloseSecureChannel.
ServerRead ==
    /\ Open /\ toServer # <<>> /\ Head(toServer).kind # "OPN"
    /\ Takes(server, Head(toServer))
    /\ toServer' = Tail(toServer)
    /\ server' = Received(server, Head(toServer))
    /\ IF Head(toServer).kind = "CLO"
       THEN status' = "closed" /\ UNCHANGED <<rejected, abandoned, refused, unanswered>>
       ELSE unanswered' = unanswered + 1 /\ UNCHANGED ended
    /\ UNCHANGED <<now, client, outgoing, clientOut, serverOut, toClient, calls>>

ServerRejects ==
    /\ Open /\ toServer # <<>>
    /\ ~Takes(server, Head(toServer))
    /\ Reject(IF Verifies(server, Head(toServer)) THEN "number" ELSE "server", Head(toServer))
    /\ toServer' = Tail(toServer)
    /\ UNCHANGED <<now, client, server, outgoing, clientOut, serverOut, toClient, unanswered, calls>>

\* The response of a request that was dispatched.
ServerRespond ==
    /\ Open /\ unanswered > 0
    /\ unanswered' = unanswered - 1
    /\ server' = Sent(server)
    /\ serverOut' = Append(serverOut, Chunk(server, "MSG", NoBody))
    /\ UNCHANGED <<now, client, outgoing, clientOut, toServer, toClient, calls, ended>>

ServerEncode ==
    /\ Open /\ serverOut # <<>>
    /\ serverOut' = Tail(serverOut)
    /\ toClient' = Append(toClient, Secured(server, Head(serverOut)))
    /\ UNCHANGED <<now, client, server, outgoing, clientOut, toServer, unanswered, calls, ended>>

Clock ==
    /\ Open /\ now < MaxNow
    /\ now' = now + 1
    /\ UNCHANGED <<conn, calls, ended>>

Call(p) ==
    \/ Send(p) \/ Exchange(p) \/ Register(p) \/ Woken(p) \/ NotNeeded(p) \/ BeginRenew(p)
    \/ Renewed(p) \/ RenewRefused(p) \/ RenewTimesOut(p) \/ Disconnected(p) \/ SendRequest(p)

Transport == ClientWrite \/ ClientEncode \/ ClientReadOpen \/ ClientRead \/ ClientRejects

Connection ==
    \/ ServerReadOpen \/ ServerRefusesOpen \/ ServerRead \/ ServerRejects
    \/ ServerRespond \/ ServerEncode

Next == (\E p \in Callers : Call(p)) \/ Transport \/ Connection \/ Clock

Spec == Init /\ [][Next]_vars

\* The tasks run, time passes, a Renew that is not answered times out.  Nobody has to
\* call send.
FairSpec ==
    /\ Spec
    /\ WF_vars(Transport) /\ WF_vars(Connection)
    /\ \A p \in Callers : WF_vars(Call(p) /\ ~Send(p))

-----------------------------------------------------------------------------
(* Properties.                                                             *)

\* The kinds of value the variables take, and a token id that only grows.
TypeOK ==
    /\ now \in 0 .. MaxNow /\ sends \in 0 .. MaxSends
    /\ client.token \in 1 .. MaxToken /\ server.token \in 1 .. MaxToken
    /\ \A e \in {client, server} :
         /\ DOMAIN e.remote \subseteq 1 .. e.token
         /\ e.local \in 1 .. e.token
    /\ waiters \subseteq {p \in Callers : pc[p] = "waiting"}
    /\ status \in {"open", "closed", "client", "server", "number"}
    /\ awaited \in 0 .. renewals

\* While no renewal is under way, and none was abandoned or refused, the two ends
\* secure with the same token, and each holds the keys the other one sends with.
Exchanging ==
    \/ \E p \in Callers : pc[p] = "await" /\ answer = "none"
    \/ abandoned \/ refused

EndsAgree ==
    Open /\ ~Exchanging =>
      /\ client.token = server.token
      /\ client.token \in DOMAIN server.remote /\ server.token \in DOMAIN client.remote
      /\ server.remote[client.token].keys = client.local
      /\ client.remote[server.token].keys = server.local

\* No chunk is ever refused for its sequence number, and one whose header names the
\* keys that secured it is accepted, however renewals and traffic interleave; except
\* that the server may have dropped the keys of the token before (expires_at is counted
\* from the connection's start, not the token's), and that the client ignores the answer
\* to a Renew it has given up.
HonestChunksAccepted ==
    /\ status # "number"
    /\ status = "client" => rejected.token # rejected.keys \/ abandoned
    /\ status = "server" => \/ rejected.token # rejected.keys
                            \/ rejected.token \notin DOMAIN server.remote

\* A caller that was registered while a renewal ran is woken (RenewGuard::drop).
WaitersWoken ==
    \A p \in Callers : (p \in waiters /\ renewing) ~> p \notin waiters
=============================================================================
