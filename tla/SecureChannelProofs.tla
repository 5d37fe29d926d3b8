------------------------ MODULE SecureChannelProofs -------------------------
(***************************************************************************)
(* Proofs about SecureChannel for any number of callers, sends and tokens, *)
(* every lifetime and every width of the sequence numbers.                 *)
(***************************************************************************)
EXTENDS SecureChannel, SequenceTheorems, TLAPS

-----------------------------------------------------------------------------
(***************************************************************************)
(* The inductive invariant.                                                *)
(***************************************************************************)

Kinds == {"OPN", "MSG", "CLO"}
MessageRecord == [kind : Kinds, req : Nat]
ChunkRecord == [kind : Kinds, token : Nat, keys : Nat, number : Int,
                body : [req : Nat, grant : Nat, at : Nat]]
Handle == [legacy : BOOLEAN, current : Int]

\* One end; of its key table and its times only the keys matter.
IsEnd(e) == e \in [token : Nat \ {0}, created : {e.created}, local : Nat, remote : {e.remote},
                   send : Handle, receive : Handle]

\* Keys are filed under the token they were derived for.
KeysNamed(e) == \A t \in DOMAIN e.remote : e.remote[t].keys = t

Typed ==
    /\ now \in Nat /\ renewals \in Nat
    /\ IsEnd(client) /\ IsEnd(server) /\ KeysNamed(client) /\ KeysNamed(server)
    /\ outgoing \in Seq(MessageRecord)
    /\ clientOut \in Seq(ChunkRecord) /\ serverOut \in Seq(ChunkRecord)
    /\ toServer \in Seq(ChunkRecord) /\ toClient \in Seq(ChunkRecord)
    /\ \A k \in DOMAIN serverOut : serverOut[k].token <= server.token

\* channel_is_renewing is a lock, held by the caller that renews.
Renewer(p) == pc[p] \in {"renew", "await"}
OneRenewer ==
    /\ pc \in [Callers -> {"idle", "exchange", "lost", "waiting", "renew", "await", "go"}]
    /\ \A p \in Callers : Renewer(p) => renewing
    /\ \A p, q \in Callers : Renewer(p) /\ Renewer(q) => p = q

\* The chunks of q are numbered one after the other, n comes after the last.
After(legacy, n) == Increment([legacy |-> legacy, current |-> n], 1).current
Chain(l, q, n) ==
    \A k \in 1..Len(q) : After(l, q[k].number) = IF k = Len(q) THEN n ELSE q[k + 1].number
Start(q, n) == IF q = <<>> THEN n ELSE q[1].number

\* What is on the wire, what is queued and what is written next follow on what
\* the other end expects.
Stream(wire, queue, s, r) ==
    /\ s.legacy = r.legacy
    /\ Chain(s.legacy, queue, s.current)
    /\ Chain(s.legacy, wire, Start(queue, s.current))
    /\ Start(wire, Start(queue, s.current)) = r.current

NumbersFollow ==
    Open => /\ Stream(toClient, serverOut, server.send, client.receive)
            /\ Legacy => Stream(toServer, clientOut, client.send, server.receive)

\* A chunk whose header names the keys that secured it, and which the client can verify.
Honest(c) == c.kind # "OPN" /\ c.token = c.keys
Known(c) == Honest(c) => c.token \in DOMAIN client.remote

\* The one Renew, or the answer to it, in a queue.
Clear(q) == \A k \in DOMAIN q : q[k].kind # "OPN"
OnlyAt(q, k) == k \in DOMAIN q /\ q[k].kind = "OPN" /\ \A j \in DOMAIN q : j # k => q[j].kind # "OPN"
RenewIn(q) == \E k \in DOMAIN q : OnlyAt(q, k) /\ q[k].body.req = renewals

Agree ==
    /\ client.token = server.token /\ client.local = client.token /\ server.local = server.token
    /\ client.token \in DOMAIN client.remote /\ server.token \in DOMAIN server.remote

\* What the answer c says is what the server has done.
Answers(c) ==
    /\ c.body.req = renewals
    /\ IF c.body.grant = 0 THEN refused /\ server.local \in DOMAIN client.remote
       ELSE /\ c.body.grant = server.token /\ server.local = server.token
            /\ server.token \in DOMAIN server.remote

\* Where the Renew is: nowhere, with the client (queued, written, on the wire), or
\* answered (written, on the wire).
Asked ==
    /\ refused \/ Agree
    /\ server.local \in DOMAIN client.remote
    /\ Clear(serverOut) /\ Clear(toClient) /\ \A k \in DOMAIN toClient : Known(toClient[k])

NoRenew == Asked /\ Clear(outgoing) /\ Clear(clientOut) /\ Clear(toServer) /\ awaited = 0
Queued ==
    /\ Asked /\ Clear(clientOut) /\ Clear(toServer) /\ awaited = 0
    /\ \E k \in DOMAIN outgoing : OnlyAt(outgoing, k) /\ outgoing[k].req = renewals
Written == Asked /\ Clear(outgoing) /\ RenewIn(clientOut) /\ Clear(toServer) /\ awaited = renewals
OnWire == Asked /\ Clear(outgoing) /\ Clear(clientOut) /\ RenewIn(toServer) /\ awaited = renewals
Served == Clear(outgoing) /\ Clear(clientOut) /\ Clear(toServer) /\ awaited = renewals
Answered ==
    /\ Served /\ Clear(toClient) /\ \A k \in DOMAIN toClient : Known(toClient[k])
    /\ \E k \in DOMAIN serverOut :
         /\ OnlyAt(serverOut, k) /\ Answers(serverOut[k])
         /\ serverOut[k].body.grant # 0 =>
              \A j \in DOMAIN serverOut : j < k => serverOut[j].token # server.token
Returned ==
    /\ Served /\ Clear(serverOut)
    /\ \E k \in DOMAIN toClient :
         /\ OnlyAt(toClient, k) /\ Answers(toClient[k])
         /\ \A j \in DOMAIN toClient : j < k => Known(toClient[j])
         /\ \A j \in DOMAIN toClient : j > k =>
              IF toClient[k].body.grant = 0 THEN Known(toClient[j])
              ELSE Honest(toClient[j]) => toClient[j].token = server.token

Awaiting == \E p \in Callers : pc[p] = "await" /\ answer = "none"

RenewalTracked ==
    Open /\ ~abandoned =>
      IF Awaiting THEN Queued \/ Written \/ OnWire \/ Answered \/ Returned ELSE NoRenew

\* HonestChunksAccepted, of which the numbers need the same numbering at both ends.
Judged ==
    /\ Legacy => status # "number"
    /\ status = "client" => rejected.token # rejected.keys \/ abandoned
    /\ status = "server" => \/ rejected.token # rejected.keys
                            \/ rejected.token \notin DOMAIN server.remote

IInv == Typed /\ OneRenewer /\ NumbersFollow /\ RenewalTracked /\ Judged

-----------------------------------------------------------------------------
(***************************************************************************)
(* Sequences.                                                              *)
(***************************************************************************)

LEMMA SeqFacts ==
    ASSUME NEW S, NEW q \in Seq(S)
    PROVE  /\ Len(q) \in Nat /\ DOMAIN q = 1..Len(q) /\ (q = <<>> <=> Len(q) = 0)
           /\ \A k \in DOMAIN q : q[k] \in S
  OBVIOUS

LEMMA Below ==
    ASSUME NEW n \in Nat, NEW k \in 1..n, k # n
    PROVE  k \in 1..n - 1 /\ n # 1 /\ n - 1 # 0
  OBVIOUS

LEMMA AppendFacts ==
    ASSUME NEW S, NEW q \in Seq(S), NEW c \in S, NEW t, t = Append(q, c)
    PROVE  /\ t \in Seq(S) /\ Len(t) = Len(q) + 1 /\ Len(t) \in DOMAIN t /\ t[Len(t)] = c
           /\ \A k \in DOMAIN q : k \in DOMAIN t /\ k # Len(t) /\ k < Len(t) /\ t[k] = q[k]
           /\ \A k \in DOMAIN t : k # Len(t) => k \in DOMAIN q /\ t[k] = q[k]
<1>1. Len(q) \in Nat /\ DOMAIN q = 1..Len(q)
  BY SeqFacts
<1>2. t \in Seq(S) /\ Len(t) = Len(q) + 1 /\ DOMAIN t = 1..Len(q) + 1
      /\ t[Len(q) + 1] = c /\ \A k \in 1..Len(q) : t[k] = q[k]
  OBVIOUS
<1> QED
  BY <1>1, <1>2

LEMMA TailFacts ==
    ASSUME NEW S, NEW q \in Seq(S), q # <<>>, NEW t, t = Tail(q)
    PROVE  /\ t \in Seq(S) /\ Len(t) = Len(q) - 1 /\ 1 \in DOMAIN q /\ Head(q) = q[1] /\ Head(q) \in S
           /\ \A k \in DOMAIN t : k + 1 \in DOMAIN q /\ k + 1 # 1 /\ t[k] = q[k + 1]
           /\ \A k \in DOMAIN q : k # 1 => k - 1 \in DOMAIN t /\ (k - 1) + 1 = k /\ t[k - 1] = q[k]
<1>1. Len(q) \in Nat /\ DOMAIN q = 1..Len(q) /\ Len(q) # 0 /\ \A k \in DOMAIN q : q[k] \in S
  BY SeqFacts
<1>2. t \in Seq(S) /\ Len(t) = Len(q) - 1 /\ DOMAIN t = 1..Len(q) - 1 /\ Head(q) = q[1]
      /\ \A k \in 1..Len(q) - 1 : t[k] = q[k + 1]
  OBVIOUS
<1>3. \A k \in 1..Len(q) : k # 1 => k - 1 \in 1..Len(q) - 1 /\ (k - 1) + 1 = k
  BY <1>1
<1>4. \A k \in 1..Len(q) - 1 : k + 1 \in 1..Len(q) /\ k + 1 # 1
  BY <1>1
<1> QED
  BY <1>1, <1>2, <1>3, <1>4

-----------------------------------------------------------------------------
(***************************************************************************)
(* Sequence numbers.                                                       *)
(***************************************************************************)

LEMMA IncrementFacts ==
    ASSUME NEW h \in Handle
    PROVE  /\ Increment(h, 1) \in Handle /\ Increment(h, 1).legacy = h.legacy
           /\ Increment(h, 1).current = After(h.legacy, h.current)
<1>1. h = [legacy |-> h.legacy, current |-> h.current] /\ h.current \in Int /\ h.legacy \in BOOLEAN
  BY DEF Handle
<1>2. MaxValue(h) \in Int /\ MinValue(h) \in Int
  BY SequenceConstants DEF MaxValue, MinValue
<1>3. PICK n \in Int : n = IF MaxValue(h) - h.current < 1 THEN MinValue(h) + 1 - (MaxValue(h) - h.current) - 1
                           ELSE h.current + 1
  BY <1>1, <1>2
<1>4. Increment(h, 1) = [h EXCEPT !.current = n]
  BY <1>3 DEF Increment
<1>5. Increment(h, 1) \in Handle /\ Increment(h, 1).legacy = h.legacy
  BY <1>3, <1>4 DEF Handle
<1>6. Increment(h, 1).current = After(h.legacy, h.current)
  BY <1>1 DEF After
<1> QED
  BY <1>5, <1>6

LEMMA ValidatedFacts ==
    ASSUME NEW h \in Handle, NEW n \in Int
    PROVE  /\ Validated(h, n) \in Handle /\ Validated(h, n).legacy = h.legacy
           /\ Validated(h, n).current = After(h.legacy, n)
<1>1. PICK g : g = [h EXCEPT !.current = n]
  OBVIOUS
<1>2. g \in Handle /\ g.legacy = h.legacy /\ g.current = n
  BY <1>1 DEF Handle
<1>3. Validated(h, n) = Increment(g, 1)
  BY <1>1 DEF Validated
<1> QED
  BY <1>2, <1>3, IncrementFacts

\* A chunk that is written takes the next number.
LEMMA ChainAppend ==
    ASSUME NEW l, NEW q \in Seq(ChunkRecord), NEW n, Chain(l, q, n),
           NEW c \in ChunkRecord, c.number = n
    PROVE  Chain(l, Append(q, c), After(l, n)) /\ Start(Append(q, c), After(l, n)) = Start(q, n)
<1>0. PICK m, t : m = After(l, n) /\ t = Append(q, c)
  OBVIOUS
<1>1. /\ t \in Seq(ChunkRecord) /\ Len(t) = Len(q) + 1 /\ Len(q) \in Nat
      /\ t[Len(q) + 1] = c /\ \A k \in 1..Len(q) : t[k] = q[k]
  BY <1>0
<1>2. Chain(l, t, m)
  <2>1. SUFFICES ASSUME NEW k \in 1..Len(t)
                 PROVE  After(l, t[k].number) = IF k = Len(t) THEN m ELSE t[k + 1].number
    BY DEF Chain
  <2>2. CASE k = Len(t)
    BY <1>0, <1>1, <2>2
  <2>3. CASE k # Len(t)
    <3>1. k \in 1..Len(q) /\ t[k] = q[k] /\ k + 1 \in 1..Len(q) + 1
      BY <1>1, <2>3
    <3>2. After(l, q[k].number) = IF k = Len(q) THEN n ELSE q[k + 1].number
      BY <3>1 DEF Chain
    <3>3. t[k + 1].number = IF k = Len(q) THEN n ELSE q[k + 1].number
      <4>1. CASE k = Len(q)
        BY <1>1, <4>1
      <4>2. CASE k # Len(q)
        <5>1. k + 1 \in 1..Len(q)
          BY <1>1, <3>1, <4>2
        <5> QED
          BY <1>1, <4>2, <5>1
      <4> QED
        BY <4>1, <4>2
    <3> QED
      BY <2>3, <3>1, <3>2, <3>3
  <2> QED
    BY <2>2, <2>3
<1>3. Start(t, m) = Start(q, n)
  BY <1>1 DEF Start
<1> QED
  BY <1>0, <1>2, <1>3, Zenon

\* The chunk at the front leaves.
LEMMA ChainTail ==
    ASSUME NEW l, NEW q \in Seq(ChunkRecord), NEW n, Chain(l, q, n), q # <<>>, NEW t, t = Tail(q)
    PROVE  Chain(l, t, n) /\ Start(t, n) = After(l, q[1].number) /\ Start(q, n) = q[1].number
<1>1. /\ t \in Seq(ChunkRecord) /\ Len(t) = Len(q) - 1 /\ Len(q) \in Nat \ {0}
      /\ \A k \in 1..Len(q) - 1 : t[k] = q[k + 1]
  OBVIOUS
<1>2. \A k \in 1..Len(q) : After(l, q[k].number) = IF k = Len(q) THEN n ELSE q[k + 1].number
  BY DEF Chain
<1>3. Chain(l, t, n)
  <2>1. SUFFICES ASSUME NEW k \in 1..Len(t)
                 PROVE  After(l, t[k].number) = IF k = Len(t) THEN n ELSE t[k + 1].number
    BY DEF Chain
  <2>2. PICK j \in 1..Len(q) : j = k + 1
    BY <1>1
  <2>3. t[k] = q[j] /\ (k = Len(t) <=> j = Len(q))
    BY <1>1, <2>2
  <2>4. After(l, q[j].number) = IF j = Len(q) THEN n ELSE q[j + 1].number
    BY <1>2
  <2>5. CASE j = Len(q)
    BY <2>3, <2>4, <2>5
  <2>6. CASE j # Len(q)
    <3>1. t[j] = q[j + 1]
      <4>1. j \in 1..Len(q) - 1
        BY <1>1, <2>6, Below
      <4> QED
        BY <1>1, <4>1, Zenon
    <3>2. After(l, t[k].number) = t[j].number
      BY <2>3, <2>4, <2>6, <3>1, Zenon
    <3> QED
      BY <2>2, <2>3, <2>6, <3>2, Zenon
  <2> QED
    BY <2>5, <2>6
<1>4. Start(q, n) = q[1].number
  BY <1>1 DEF Start
<1>5. PICK i \in 1..Len(q) : i = 1
  BY <1>1
<1>6. After(l, q[i].number) = IF i = Len(q) THEN n ELSE q[i + 1].number
  BY <1>2
<1>7. Start(t, n) = After(l, q[1].number)
  <2>1. CASE i = Len(q)
    BY <1>1, <1>5, <1>6, <2>1 DEF Start
  <2>2. CASE i # Len(q)
    <3>1. t # <<>> /\ t[i] = q[i + 1]
      <4>1. i \in 1..Len(q) - 1 /\ t # <<>>
        BY <1>1, <1>5, <2>2, Below
      <4> QED
        BY <1>1, <4>1, Zenon
    <3>2. After(l, q[i].number) = t[i].number
      BY <1>6, <2>2, <3>1, Zenon
    <3> QED
      BY <1>5, <3>1, <3>2, Zenon DEF Start
  <2> QED
    BY <2>1, <2>2
<1> QED
  BY <1>3, <1>4, <1>7

\* Writing a chunk, securing the one in front, and reading one keep the stream.
LEMMA StreamWrite ==
    ASSUME NEW wire, NEW queue \in Seq(ChunkRecord), NEW s \in Handle, NEW r,
           Stream(wire, queue, s, r), NEW c \in ChunkRecord, c.number = s.current,
           NEW t, t = Append(queue, c), NEW z, z.legacy = s.legacy,
           z.current = After(s.legacy, s.current)
    PROVE  Stream(wire, t, z, r)
<1>1. /\ s.legacy = r.legacy /\ Chain(s.legacy, queue, s.current)
      /\ Chain(s.legacy, wire, Start(queue, s.current))
      /\ Start(wire, Start(queue, s.current)) = r.current
  BY Zenon DEF Stream
<1>2. Chain(s.legacy, t, z.current) /\ Start(t, z.current) = Start(queue, s.current)
  <2>1. PICK l, n, m : l = s.legacy /\ n = s.current /\ m = z.current
    OBVIOUS
  <2>2. Chain(l, queue, n) /\ c.number = n /\ m = After(l, n)
    BY <1>1, <2>1, Zenon
  <2>3. Chain(l, t, m) /\ Start(t, m) = Start(queue, n)
    BY <2>2, ChainAppend, Zenon
  <2> QED
    BY <2>1, <2>3, Zenon
<1> QED
  BY <1>1, <1>2, Zenon DEF Stream

LEMMA StreamEncode ==
    ASSUME NEW wire \in Seq(ChunkRecord), NEW queue \in Seq(ChunkRecord), NEW s, NEW r,
           Stream(wire, queue, s, r), queue # <<>>, NEW c \in ChunkRecord,
           c.number = queue[1].number, NEW t, t = Tail(queue), NEW w, w = Append(wire, c)
    PROVE  Stream(w, t, s, r)
<1>1. /\ s.legacy = r.legacy /\ Chain(s.legacy, queue, s.current)
      /\ Chain(s.legacy, wire, Start(queue, s.current))
      /\ Start(wire, Start(queue, s.current)) = r.current
  BY Zenon DEF Stream
<1>2. /\ Chain(s.legacy, t, s.current)
      /\ Start(t, s.current) = After(s.legacy, queue[1].number)
      /\ Start(queue, s.current) = queue[1].number
  BY <1>1, ChainTail, Zenon
<1>3. /\ Chain(s.legacy, w, Start(t, s.current))
      /\ Start(w, Start(t, s.current)) = Start(wire, Start(queue, s.current))
  <2>1. PICK l, n, m : l = s.legacy /\ n = Start(queue, s.current) /\ m = Start(t, s.current)
    OBVIOUS
  <2>2. Chain(l, wire, n) /\ c.number = n /\ m = After(l, n)
    BY <1>1, <1>2, <2>1, Zenon
  <2>3. Chain(l, w, m) /\ Start(w, m) = Start(wire, n)
    BY <2>2, ChainAppend, Zenon
  <2> QED
    BY <2>1, <2>3, Zenon
<1> QED
  BY <1>1, <1>2, <1>3, Zenon DEF Stream

LEMMA StreamRead ==
    ASSUME NEW wire \in Seq(ChunkRecord), NEW queue, NEW s, NEW r,
           Stream(wire, queue, s, r), wire # <<>>, NEW t, t = Tail(wire)
    PROVE  /\ wire[1].number = r.current
           /\ \A z : z.legacy = r.legacy /\ z.current = After(r.legacy, wire[1].number) =>
                Stream(t, queue, s, z)
<1>1. /\ s.legacy = r.legacy /\ Chain(s.legacy, queue, s.current)
      /\ Chain(s.legacy, wire, Start(queue, s.current))
      /\ Start(wire, Start(queue, s.current)) = r.current
  BY Zenon DEF Stream
<1>2. /\ Chain(s.legacy, t, Start(queue, s.current))
      /\ Start(t, Start(queue, s.current)) = After(s.legacy, wire[1].number)
      /\ Start(wire, Start(queue, s.current)) = wire[1].number
  BY <1>1, ChainTail, Zenon
<1> QED
  BY <1>1, <1>2, Zenon DEF Stream

-----------------------------------------------------------------------------
(***************************************************************************)
(* The Renew in a queue.                                                   *)
(***************************************************************************)

LEMMA ClearAppend ==
    ASSUME NEW S, NEW q \in Seq(S), NEW c \in S, Clear(q)
    PROVE  /\ c.kind # "OPN" => Clear(Append(q, c))
           /\ c.kind = "OPN" => /\ OnlyAt(Append(q, c), Len(Append(q, c)))
                                /\ Append(q, c)[Len(Append(q, c))] = c
<1>0. PICK t : t = Append(q, c)
  OBVIOUS
<1>1. /\ Len(t) \in DOMAIN t /\ t[Len(t)] = c
      /\ \A k \in DOMAIN t : k # Len(t) => k \in DOMAIN q /\ t[k] = q[k]
  BY <1>0, AppendFacts
<1>2. \A k \in DOMAIN q : q[k].kind # "OPN"
  BY Zenon DEF Clear
<1>3. /\ c.kind # "OPN" => Clear(t)
      /\ c.kind = "OPN" => OnlyAt(t, Len(t)) /\ t[Len(t)] = c
  BY <1>1, <1>2, Zenon DEF Clear, OnlyAt
<1> QED
  BY <1>0, <1>3, Zenon

LEMMA OnlyAppend ==
    ASSUME NEW S, NEW q \in Seq(S), NEW c \in S, c.kind # "OPN", NEW k, OnlyAt(q, k)
    PROVE  OnlyAt(Append(q, c), k) /\ Append(q, c)[k] = q[k]
<1>0. PICK t : t = Append(q, c)
  OBVIOUS
<1>1. /\ Len(t) \in DOMAIN t /\ t[Len(t)] = c
      /\ \A j \in DOMAIN t : j # Len(t) => j \in DOMAIN q /\ t[j] = q[j]
      /\ \A j \in DOMAIN q : j \in DOMAIN t /\ t[j] = q[j]
  BY <1>0, AppendFacts
<1>2. k \in DOMAIN q /\ q[k].kind = "OPN" /\ \A j \in DOMAIN q : j # k => q[j].kind # "OPN"
  BY Zenon DEF OnlyAt
<1>3. OnlyAt(t, k) /\ t[k] = q[k]
  BY <1>1, <1>2, Zenon DEF OnlyAt
<1> QED
  BY <1>0, <1>3, Zenon

LEMMA ClearTail ==
    ASSUME NEW S, NEW q \in Seq(S), q # <<>>, Clear(q)
    PROVE  Clear(Tail(q)) /\ Head(q).kind # "OPN"
<1>0. PICK t : t = Tail(q)
  OBVIOUS
<1>1. /\ 1 \in DOMAIN q /\ Head(q) = q[1]
      /\ \A k \in DOMAIN t : k + 1 \in DOMAIN q /\ t[k] = q[k + 1]
  BY <1>0, TailFacts
<1>2. Clear(t) /\ Head(q).kind # "OPN"
  BY <1>1, Zenon DEF Clear
<1> QED
  BY <1>0, <1>2, Zenon

LEMMA OnlyTail ==
    ASSUME NEW S, NEW q \in Seq(S), q # <<>>, NEW k, OnlyAt(q, k)
    PROVE  /\ Head(q).kind = "OPN" => k = 1 /\ Clear(Tail(q)) /\ Head(q) = q[k]
           /\ Head(q).kind # "OPN" =>
                k - 1 \in Int /\ k \in Int /\ k # 1 /\ OnlyAt(Tail(q), k - 1) /\ Tail(q)[k - 1] = q[k]
<1>0. PICK t : t = Tail(q)
  OBVIOUS
<1>1. /\ 1 \in DOMAIN q /\ Head(q) = q[1]
      /\ \A j \in DOMAIN t : j + 1 \in DOMAIN q /\ j + 1 # 1 /\ t[j] = q[j + 1]
      /\ \A j \in DOMAIN q : j # 1 => j - 1 \in DOMAIN t /\ (j - 1) + 1 = j /\ t[j - 1] = q[j]
  BY <1>0, TailFacts
<1>2. k \in DOMAIN q /\ q[k].kind = "OPN" /\ \A j \in DOMAIN q : j # k => q[j].kind # "OPN"
  BY Zenon DEF OnlyAt
<1>3. ASSUME Head(q).kind = "OPN"
      PROVE  k = 1 /\ Clear(t) /\ Head(q) = q[k]
  BY <1>1, <1>2, <1>3 DEF Clear
<1>4. ASSUME Head(q).kind # "OPN"
      PROVE  k - 1 \in Int /\ k \in Int /\ k # 1 /\ OnlyAt(t, k - 1) /\ t[k - 1] = q[k]
  <2>1. k # 1
    BY <1>1, <1>2, <1>4, Zenon
  <2>2. k - 1 \in DOMAIN t /\ t[k - 1] = q[k] /\ t[k - 1].kind = "OPN"
    BY <1>1, <1>2, <2>1, Zenon
  <2>3. k \in Int /\ k - 1 \in Int /\ \A j \in DOMAIN t : j \in Int
    <3>1. DOMAIN q = 1..Len(q) /\ DOMAIN t = 1..Len(t) /\ Len(q) \in Nat /\ Len(t) \in Nat
      BY <1>0, SeqFacts, TailFacts
    <3> QED
      BY <1>2, <3>1
  <2>4. \A j \in DOMAIN t : j # k - 1 => j + 1 # k
    BY <2>3
  <2>5. \A j \in DOMAIN t : j # k - 1 => t[j].kind # "OPN"
    BY <1>1, <1>2, <2>4
  <2> QED
    BY <2>1, <2>2, <2>3, <2>5, Zenon DEF OnlyAt
<1> QED
  BY <1>0, <1>3, <1>4, Zenon

-----------------------------------------------------------------------------
(***************************************************************************)
(* The ends.                                                               *)
(***************************************************************************)

SameKeys(e, f) == f.token = e.token /\ f.local = e.local /\ f.remote = e.remote

LEMMA EndFields ==
    ASSUME NEW e, IsEnd(e)
    PROVE  /\ e.token \in Nat \ {0} /\ e.local \in Nat /\ e.send \in Handle /\ e.receive \in Handle
           /\ e = [token |-> e.token, created |-> e.created, local |-> e.local,
                   remote |-> e.remote, send |-> e.send, receive |-> e.receive]
  BY DEF IsEnd

LEMMA HandleFields ==
    ASSUME NEW h \in Handle
    PROVE  h.legacy \in BOOLEAN /\ h.current \in Int
  BY DEF Handle

LEMMA SentFacts ==
    ASSUME NEW e, IsEnd(e), NEW f, f = Sent(e)
    PROVE  /\ IsEnd(f) /\ SameKeys(e, f) /\ f.receive = e.receive
           /\ f.send.legacy = e.send.legacy
           /\ f.send.current = After(e.send.legacy, e.send.current)
<1>1. PICK h : h = Increment(e.send, 1)
  OBVIOUS
<1>2. /\ h \in Handle /\ h.legacy = e.send.legacy
      /\ h.current = After(e.send.legacy, e.send.current)
  BY <1>1, EndFields, IncrementFacts
<1>3. f = [e EXCEPT !.send = h]
  BY <1>1 DEF Sent
<1>4. IsEnd(f) /\ SameKeys(e, f) /\ f.receive = e.receive /\ f.send = h
  BY <1>2, <1>3 DEF IsEnd, SameKeys
<1> QED
  BY <1>2, <1>4

LEMMA ReceivedFacts ==
    ASSUME NEW e, IsEnd(e), NEW c \in ChunkRecord, NEW f, f = Received(e, c)
    PROVE  /\ IsEnd(f) /\ SameKeys(e, f) /\ f.send = e.send
           /\ f.receive.legacy = e.receive.legacy
           /\ f.receive.current = After(e.receive.legacy, c.number)
<1>0. c.number \in Int
  BY DEF ChunkRecord
<1>1. PICK h : h = Validated(e.receive, c.number)
  OBVIOUS
<1>2. /\ h \in Handle /\ h.legacy = e.receive.legacy
      /\ h.current = After(e.receive.legacy, c.number)
  BY <1>0, <1>1, EndFields, ValidatedFacts
<1>3. f = [e EXCEPT !.receive = h]
  BY <1>1 DEF Received
<1>4. IsEnd(f) /\ SameKeys(e, f) /\ f.send = e.send /\ f.receive = h
  BY <1>2, <1>3 DEF IsEnd, SameKeys
<1> QED
  BY <1>2, <1>4

LEMMA NamedKept ==
    ASSUME NEW e, NEW f, KeysNamed(e), SameKeys(e, f)
    PROVE  KeysNamed(f)
  BY DEF KeysNamed, SameKeys

\* derive_keys for the token the end has just taken.
LEMMA DeriveFacts ==
    ASSUME NEW e, IsEnd(e), KeysNamed(e), NEW at, NEW f, f = DeriveKeys(e, e.token, at)
    PROVE  /\ IsEnd(f) /\ KeysNamed(f) /\ f.token = e.token /\ f.local = e.token
           /\ f.token \in DOMAIN f.remote /\ f.send = e.send /\ f.receive = e.receive
<1>1. PICK g : g = [e EXCEPT !.local = e.token]
  OBVIOUS
<1>2. /\ IsEnd(g) /\ g.token = e.token /\ g.local = e.token /\ g.remote = e.remote
      /\ g.send = e.send /\ g.receive = e.receive
  BY <1>1 DEF IsEnd
<1>3. f = InsertRemoteKeys(g, e.token, at)
  BY <1>1, Zenon DEF DeriveKeys
<1>4. PICK kept : kept = {t \in DOMAIN g.remote : 4 * at < g.remote[t].expires}
  OBVIOUS
<1>5. PICK m : m = [t \in kept \cup {g.token} |->
                      IF t = g.token THEN [keys |-> e.token, expires |-> ExpiresAt(g)]
                      ELSE g.remote[t]]
  OBVIOUS
<1>6. f = [g EXCEPT !.remote = m]
  BY <1>3, <1>4, <1>5, Zenon DEF InsertRemoteKeys
<1>7. f.remote = m /\ f.token = e.token /\ f.local = e.token /\ f.send = e.send /\ f.receive = e.receive
      /\ IsEnd(f)
  BY <1>2, <1>6 DEF IsEnd
<1>8. g.token \in DOMAIN m
  BY <1>5
<1>9. KeysNamed(f)
  <2>1. SUFFICES ASSUME NEW t \in DOMAIN m PROVE m[t].keys = t
    BY <1>7, Zenon DEF KeysNamed
  <2>2. CASE t = g.token
    <3>1. m[t] = [keys |-> e.token, expires |-> ExpiresAt(g)]
      BY <1>5, <2>2, Zenon
    <3> QED
      BY <1>2, <2>2, <3>1
  <2>3. CASE t # g.token
    <3>1. m[t] = e.remote[t] /\ t \in DOMAIN e.remote
      BY <1>2, <1>4, <1>5, <2>3
    <3> QED
      BY <3>1, Zenon DEF KeysNamed
  <2> QED
    BY <2>2, <2>3
<1> QED
  BY <1>2, <1>7, <1>8, <1>9, Zenon

LEMMA TokenFacts ==
    ASSUME NEW e, IsEnd(e), KeysNamed(e), NEW token \in Nat \ {0}, NEW created,
           NEW f, f = SetSecurityToken(e, token, created)
    PROVE  /\ IsEnd(f) /\ KeysNamed(f) /\ f.token = token /\ f.remote = e.remote
           /\ f.local = e.local /\ f.send = e.send /\ f.receive = e.receive
<1>1. /\ IsEnd(f) /\ f.token = token /\ f.remote = e.remote /\ f.local = e.local
      /\ f.send = e.send /\ f.receive = e.receive
  BY DEF SetSecurityToken, IsEnd
<1> QED
  BY <1>1, Zenon DEF KeysNamed

LEMMA NextTokenFacts ==
    ASSUME NEW e, IsEnd(e), KeysNamed(e), NEW f, f = [e EXCEPT !.token = @ + 1]
    PROVE  /\ IsEnd(f) /\ KeysNamed(f) /\ f.token = e.token + 1 /\ f.remote = e.remote
           /\ f.local = e.local /\ f.send = e.send /\ f.receive = e.receive
<1>1. /\ IsEnd(f) /\ f.token = e.token + 1 /\ f.remote = e.remote /\ f.local = e.local
      /\ f.send = e.send /\ f.receive = e.receive
  BY DEF IsEnd
<1> QED
  BY <1>1, Zenon DEF KeysNamed

LEMMA ChunkFacts ==
    ASSUME NEW e, IsEnd(e), NEW kind \in Kinds, NEW body \in [req : Nat, grant : Nat, at : Nat],
           NEW c, c = Chunk(e, kind, body)
    PROVE  /\ c \in ChunkRecord /\ c.kind = kind /\ c.body = body /\ c.number = e.send.current
           /\ c.token = IF kind = "OPN" THEN 0 ELSE e.token
<1>1. e.token \in Nat /\ e.send.current \in Int
  BY EndFields, HandleFields
<1>2. PICK t \in Nat : t = IF kind = "OPN" THEN 0 ELSE e.token
  BY <1>1
<1>3. c = [kind |-> kind, token |-> t, keys |-> 0, number |-> e.send.current, body |-> body]
  BY <1>2, Zenon DEF Chunk, Asymmetric
<1>4. /\ c.kind = kind /\ c.body = body /\ c.number = e.send.current /\ c.token = t
  BY <1>3
<1>5. c \in ChunkRecord
  BY <1>1, <1>3 DEF ChunkRecord
<1> QED
  BY <1>2, <1>4, <1>5

LEMMA SecuredFacts ==
    ASSUME NEW e, IsEnd(e), NEW c \in ChunkRecord, NEW d, d = Secured(e, c)
    PROVE  /\ d \in ChunkRecord /\ d.kind = c.kind /\ d.body = c.body /\ d.number = c.number
           /\ d.token = c.token /\ (c.kind # "OPN" => d.keys = e.local) /\ (c.kind = "OPN" => d = c)
<1>1. e.local \in Nat
  BY EndFields
<1>2. CASE c.kind = "OPN"
  BY <1>2 DEF Secured
<1>3. CASE c.kind # "OPN"
  <2>1. d = [c EXCEPT !.keys = e.local]
    BY <1>3 DEF Secured
  <2> QED
    BY <1>1, <1>3, <2>1 DEF ChunkRecord
<1> QED
  BY <1>2, <1>3

-----------------------------------------------------------------------------
(***************************************************************************)
(* What a step leaves alone.                                               *)
(***************************************************************************)

InRenewal == Queued \/ Written \/ OnWire \/ Answered \/ Returned

LEMMA NumbersKept ==
    ASSUME NumbersFollow, UNCHANGED <<client, server, clientOut, serverOut, toServer, toClient>>,
           Open' => Open
    PROVE  NumbersFollow'
  BY DEF NumbersFollow

LEMMA JudgedKept ==
    ASSUME Judged, UNCHANGED <<status, rejected>>, abandoned => abandoned', SameKeys(server, server')
    PROVE  Judged'
  BY DEF Judged, SameKeys

LEMMA EndsKept ==
    ASSUME SameKeys(client, client'), SameKeys(server, server')
    PROVE  /\ Agree' <=> Agree
           /\ \A c : Known(c)' <=> Known(c)
           /\ server'.local \in DOMAIN client'.remote <=> server.local \in DOMAIN client.remote
  BY DEF Agree, Known, SameKeys

LEMMA AnswersKept ==
    ASSUME SameKeys(client, client'), SameKeys(server, server'), UNCHANGED <<renewals, refused>>
    PROVE  \A c : Answers(c)' <=> Answers(c)
  BY DEF Answers, SameKeys

LEMMA AskedKept ==
    ASSUME Asked, SameKeys(client, client'), SameKeys(server, server'),
           UNCHANGED <<serverOut, toClient, refused>>
    PROVE  Asked'
<1>1. /\ Agree' <=> Agree
      /\ \A c : Known(c)' <=> Known(c)
      /\ server'.local \in DOMAIN client'.remote <=> server.local \in DOMAIN client.remote
  BY EndsKept
<1> QED
  BY <1>1 DEF Asked, Clear

LEMMA AnsweredKept ==
    ASSUME SameKeys(client, client'), SameKeys(server, server'), Served',
           UNCHANGED <<serverOut, toClient, refused, renewals>>
    PROVE  (Answered => Answered') /\ (Returned => Returned')
<1>1. /\ \A c : Known(c)' <=> Known(c)
      /\ \A c : Answers(c)' <=> Answers(c)
      /\ server'.token = server.token
  BY EndsKept, AnswersKept DEF SameKeys
<1>2. Answered => Answered'
  BY <1>1 DEF Answered, Clear, OnlyAt
<1>3. Returned => Returned'
  BY <1>1 DEF Returned, Clear, OnlyAt
<1> QED
  BY <1>2, <1>3

\* Steps that move no chunk and no key.
LEMMA TrackedKept ==
    ASSUME RenewalTracked, SameKeys(client, client'), SameKeys(server, server'),
           UNCHANGED <<outgoing, clientOut, serverOut, toServer, toClient, awaited, renewals, refused>>,
           Open' => Open, abandoned => abandoned', Awaiting' <=> Awaiting
    PROVE  RenewalTracked'
<1>1. Asked => Asked'
  BY AskedKept
<1>2. Clear(outgoing)' <=> Clear(outgoing)
  BY DEF Clear
<1>3. Clear(clientOut)' <=> Clear(clientOut)
  BY DEF Clear
<1>4. Clear(toServer)' <=> Clear(toServer)
  BY DEF Clear
<1>5. RenewIn(clientOut)' <=> RenewIn(clientOut)
  BY DEF RenewIn, OnlyAt
<1>6. RenewIn(toServer)' <=> RenewIn(toServer)
  BY DEF RenewIn, OnlyAt
<1>7. Served => Served'
  BY <1>2, <1>3, <1>4 DEF Served
<1>8. (Answered => Answered') /\ (Returned => Returned')
  BY <1>7, AnsweredKept, Zenon DEF Answered, Returned
<1>9. NoRenew => NoRenew'
  BY <1>1, <1>2, <1>3, <1>4 DEF NoRenew
<1>10. Queued => Queued'
  BY <1>1, <1>3, <1>4 DEF Queued, OnlyAt
<1>11. (Written => Written') /\ (OnWire => OnWire')
  BY <1>1, <1>2, <1>3, <1>4, <1>5, <1>6 DEF Written, OnWire
<1> QED
  BY <1>8, <1>9, <1>10, <1>11, Zenon DEF RenewalTracked

-----------------------------------------------------------------------------
(***************************************************************************)
(* The callers of send.                                                    *)
(***************************************************************************)

Labels == {"idle", "exchange", "lost", "waiting", "renew", "await", "go"}

LEMMA PcFacts ==
    ASSUME OneRenewer, NEW p \in Callers, NEW l \in Labels, Goto(p, l)
    PROVE  /\ pc' \in [Callers -> Labels] /\ pc'[p] = l
           /\ \A q \in Callers : q # p => pc'[q] = pc[q]
  BY DEF OneRenewer, Goto, Labels

\* The lock goes to one caller, who gives it back when it leaves.
LEMMA LockKept ==
    ASSUME OneRenewer, NEW p \in Callers, NEW l \in Labels, Goto(p, l),
           IF l \in {"renew", "await"} THEN renewing' /\ (Renewer(p) \/ ~renewing)
           ELSE (renewing => renewing') \/ Renewer(p)
    PROVE  OneRenewer'
<1>1. /\ pc' \in [Callers -> Labels] /\ pc'[p] = l
      /\ \A q \in Callers : q # p => pc'[q] = pc[q]
  BY PcFacts
<1>2. /\ \A q \in Callers : Renewer(q) => renewing
      /\ \A q, r \in Callers : Renewer(q) /\ Renewer(r) => q = r
  BY Zenon DEF OneRenewer
<1>3. Renewer(p)' <=> l \in {"renew", "await"}
  BY <1>1 DEF Renewer
<1>4. \A q \in Callers : q # p => (Renewer(q)' <=> Renewer(q))
  BY <1>1, Zenon DEF Renewer
<1>5. \A q \in Callers : Renewer(q)' => renewing'
  BY <1>2, <1>3, <1>4
<1>6. \A q, r \in Callers : Renewer(q)' /\ Renewer(r)' => q = r
  BY <1>2, <1>3, <1>4
<1> QED
  BY <1>1, <1>5, <1>6, Zenon DEF OneRenewer, Labels

LEMMA AwaitingSame ==
    ASSUME OneRenewer, NEW p \in Callers, NEW l \in Labels, Goto(p, l), pc[p] # "await",
           l # "await", answer' = answer
    PROVE  Awaiting' <=> Awaiting
<1>1. /\ pc'[p] = l /\ \A q \in Callers : q # p => pc'[q] = pc[q]
  BY PcFacts
<1> QED
  BY <1>1 DEF Awaiting

\* The renewer is the only caller that can be awaiting an answer.
LEMMA AwaitingEnds ==
    ASSUME OneRenewer, NEW p \in Callers, NEW l \in Labels, Goto(p, l), pc[p] = "await", l # "await"
    PROVE  ~Awaiting'
<1>1. /\ pc'[p] = l /\ \A q \in Callers : q # p => pc'[q] = pc[q]
  BY PcFacts
<1>2. \A q, r \in Callers : Renewer(q) /\ Renewer(r) => q = r
  BY Zenon DEF OneRenewer
<1>3. \A q \in Callers : q # p => pc[q] # "await"
  BY <1>2 DEF Renewer
<1> QED
  BY <1>1, <1>3 DEF Awaiting

LEMMA SameEnd == \A e : SameKeys(e, e)
  BY DEF SameKeys

\* A message that is not a Renew joins the queue of the transport.
LEMMA TrackedSend ==
    ASSUME Typed, RenewalTracked, NEW m \in MessageRecord, m.kind # "OPN", outgoing' = Append(outgoing, m),
           UNCHANGED <<client, server, clientOut, serverOut, toServer, toClient, awaited, renewals, refused>>,
           Open' => Open, UNCHANGED abandoned, Awaiting' <=> Awaiting
    PROVE  RenewalTracked'
<1>0. SameKeys(client, client') /\ SameKeys(server, server')
  BY SameEnd
<1>1. Asked => Asked'
  BY <1>0, AskedKept
<1>2. outgoing \in Seq(MessageRecord)
  BY DEF Typed
<1>3. Clear(outgoing) => Clear(outgoing)'
  BY <1>2, ClearAppend, Zenon
<1>4. Clear(clientOut)' <=> Clear(clientOut)
  BY DEF Clear
<1>5. Clear(toServer)' <=> Clear(toServer)
  BY DEF Clear
<1>6. RenewIn(clientOut)' <=> RenewIn(clientOut)
  BY DEF RenewIn, OnlyAt
<1>7. RenewIn(toServer)' <=> RenewIn(toServer)
  BY DEF RenewIn, OnlyAt
<1>8. Served => Served'
  BY <1>3, <1>4, <1>5 DEF Served
<1>9. (Answered => Answered') /\ (Returned => Returned')
  BY <1>0, <1>8, AnsweredKept, Zenon DEF Answered, Returned
<1>10. NoRenew => NoRenew'
  BY <1>1, <1>3, <1>4, <1>5 DEF NoRenew
<1>11. Queued => Queued'
  <2>1. SUFFICES ASSUME Queued PROVE Queued'
    OBVIOUS
  <2>2. PICK k \in DOMAIN outgoing : OnlyAt(outgoing, k) /\ outgoing[k].req = renewals
    BY <2>1, Zenon DEF Queued
  <2>3. OnlyAt(outgoing', k) /\ outgoing'[k] = outgoing[k]
    BY <1>2, <2>2, OnlyAppend, Zenon
  <2>4. k \in DOMAIN outgoing' /\ outgoing'[k].req = renewals'
    BY <2>2, <2>3, Zenon DEF OnlyAt
  <2> QED
    BY <1>1, <1>4, <1>5, <2>1, <2>3, <2>4, Zenon DEF Queued
<1>12. (Written => Written') /\ (OnWire => OnWire')
  BY <1>1, <1>3, <1>4, <1>5, <1>6, <1>7 DEF Written, OnWire
<1> QED
  BY <1>9, <1>10, <1>11, <1>12, Zenon DEF RenewalTracked

\* The Renew joins the queue; nothing is left of the one before.
LEMMA TrackedBegin ==
    ASSUME Typed, NoRenew, NEW m \in MessageRecord, m.kind = "OPN", m.req = renewals',
           outgoing' = Append(outgoing, m),
           UNCHANGED <<client, server, clientOut, serverOut, toServer, toClient, awaited, refused>>
    PROVE  Queued'
<1>1. outgoing \in Seq(MessageRecord)
  BY DEF Typed
<1>4. SameKeys(client, client') /\ SameKeys(server, server')
  BY SameEnd
<1>5. Asked'
  BY <1>4, AskedKept DEF NoRenew
<1>6. Clear(clientOut)' /\ Clear(toServer)' /\ awaited' = 0 /\ Clear(outgoing)
  BY DEF Clear, NoRenew
<1>7. OnlyAt(outgoing', Len(outgoing')) /\ outgoing'[Len(outgoing')] = m
  BY <1>1, <1>6, ClearAppend, Zenon
<1>8. Len(outgoing') \in DOMAIN outgoing'
  BY <1>7, Zenon DEF OnlyAt
<1> QED
  BY <1>5, <1>6, <1>7, <1>8, Zenon DEF Queued

\* A call that does not reach the transport.
LEMMA CallKept ==
    ASSUME IInv, UNCHANGED <<now, conn, renewals, ended, awaited>>, OneRenewer', Awaiting' <=> Awaiting
    PROVE  IInv'
<1>1. SameKeys(client, client') /\ SameKeys(server, server')
  BY SameEnd DEF conn
<1>2. Open' <=> Open
  BY DEF Open, ended
<1>3. Typed'
  BY DEF IInv, Typed, conn, IsEnd, KeysNamed
<1>4. NumbersFollow'
  BY <1>2, NumbersKept DEF IInv, conn
<1>5. RenewalTracked'
  BY <1>1, <1>2, TrackedKept DEF IInv, conn, ended
<1>6. Judged'
  BY <1>1, JudgedKept DEF IInv, ended
<1> QED
  BY <1>3, <1>4, <1>5, <1>6, Zenon DEF IInv

\* A message joins the queue of the transport.
LEMMA TypedSend ==
    ASSUME Typed, NEW m \in MessageRecord, outgoing' = Append(outgoing, m), renewals' \in Nat,
           UNCHANGED <<now, client, server, clientOut, serverOut, toServer, toClient>>
    PROVE  Typed'
<1>1. outgoing' \in Seq(MessageRecord)
  BY DEF Typed
<1> QED
  BY <1>1 DEF Typed, IsEnd, KeysNamed

LEMMA MessageFacts ==
    ASSUME NEW kind \in Kinds, NEW n \in Nat
    PROVE  Message(kind, n) \in MessageRecord /\ Message(kind, n).kind = kind /\ Message(kind, n).req = n
  BY DEF Message, MessageRecord

LEMMA CallStep ==
    ASSUME IInv, NEW p \in Callers, Call(p)
    PROVE  IInv'
<1>0. Typed /\ OneRenewer /\ NumbersFollow /\ RenewalTracked /\ Judged
  BY Zenon DEF IInv
<1>1. /\ {"idle", "exchange", "lost", "waiting", "renew", "await", "go"} \subseteq Labels
      /\ renewals \in Nat /\ renewals + 1 \in Nat /\ "MSG" \in Kinds /\ "OPN" \in Kinds /\ "CLO" \in Kinds
  BY <1>0 DEF Labels, Kinds, Typed
<1>2. CASE Send(p)
  <2>1. PICK l \in Labels : l = IF ShouldRenew(client, now) THEN "exchange" ELSE "go"
    BY <1>1
  <2>2. /\ l \notin {"renew", "await"} /\ pc[p] # "await" /\ Goto(p, l)
        /\ UNCHANGED <<now, conn, renewals, ended, awaited, renewing, answer>>
    BY <1>2, <2>1 DEF Send
  <2>3. OneRenewer' /\ (Awaiting' <=> Awaiting)
    BY <1>0, <2>2, LockKept, AwaitingSame
  <2> QED
    BY <2>2, <2>3, CallKept
<1>3. CASE Exchange(p)
  <2>1. PICK l \in Labels : l = IF renewing THEN "lost" ELSE "renew"
    BY <1>1
  <2>2. /\ l # "await" /\ (l = "renew" => ~renewing) /\ pc[p] # "await" /\ Goto(p, l) /\ renewing'
        /\ UNCHANGED <<now, conn, renewals, ended, awaited, answer>>
    BY <1>3, <2>1 DEF Exchange
  <2>3. OneRenewer' /\ (Awaiting' <=> Awaiting)
    BY <1>0, <2>2, LockKept, AwaitingSame
  <2> QED
    BY <2>2, <2>3, CallKept
<1>4. CASE Register(p)
  <2>1. /\ pc[p] # "await" /\ Goto(p, "waiting")
        /\ UNCHANGED <<now, conn, renewals, ended, awaited, renewing, answer>>
    BY <1>4 DEF Register
  <2>2. OneRenewer' /\ (Awaiting' <=> Awaiting)
    BY <1>0, <1>1, <2>1, LockKept, AwaitingSame
  <2> QED
    BY <2>1, <2>2, CallKept
<1>5. CASE Woken(p)
  <2>1. PICK l \in Labels : l = IF renewing THEN "lost" ELSE "go"
    BY <1>1
  <2>2. /\ l \notin {"renew", "await"} /\ pc[p] # "await" /\ Goto(p, l)
        /\ UNCHANGED <<now, conn, renewals, ended, awaited, renewing, answer>>
    BY <1>5, <2>1 DEF Woken
  <2>3. OneRenewer' /\ (Awaiting' <=> Awaiting)
    BY <1>0, <2>2, LockKept, AwaitingSame
  <2> QED
    BY <2>2, <2>3, CallKept
<1>6. CASE NotNeeded(p)
  <2>1. /\ pc[p] # "await" /\ Renewer(p) /\ Goto(p, "go")
        /\ UNCHANGED <<now, conn, renewals, ended, awaited, answer>>
    BY <1>6 DEF NotNeeded, Renewer
  <2>2. OneRenewer' /\ (Awaiting' <=> Awaiting)
    BY <1>0, <1>1, <2>1, LockKept, AwaitingSame
  <2> QED
    BY <2>1, <2>2, CallKept
<1>7. CASE BeginRenew(p)
  <2>1. PICK m : m = Message("OPN", renewals + 1)
    OBVIOUS
  <2>2. m \in MessageRecord /\ m.kind = "OPN" /\ m.req = renewals + 1
    BY <1>1, <2>1, MessageFacts
  <2>3. /\ pc[p] = "renew" /\ Goto(p, "await") /\ renewing' = renewing /\ answer' = "none"
        /\ renewals' = renewals + 1 /\ outgoing' = Append(outgoing, m)
        /\ UNCHANGED <<now, client, server, clientOut, serverOut, toServer, toClient, awaited, ended>>
    BY <1>7, <2>1 DEF BeginRenew
  <2>4. renewing /\ Renewer(p)
    BY <1>0, <2>3 DEF OneRenewer, Renewer
  <2>5. OneRenewer'
    BY <1>0, <1>1, <2>3, <2>4, LockKept
  <2>6. Awaiting' /\ ~Awaiting
    <3>1. pc'[p] = "await"
      BY <1>0, <1>1, <2>3, PcFacts
    <3>2. \A q \in Callers : pc[q] # "await"
      BY <1>0, <2>3 DEF OneRenewer, Renewer
    <3> QED
      BY <2>3, <3>1, <3>2 DEF Awaiting
  <2>7. Typed'
    BY <1>0, <1>1, <2>2, <2>3, TypedSend
  <2>8. NumbersFollow'
    BY <1>0, <2>3, NumbersKept DEF Open, ended
  <2>9. RenewalTracked'
    <3>1. SUFFICES ASSUME Open, ~abandoned PROVE Queued'
      BY <2>3, <2>6 DEF RenewalTracked, Open, ended
    <3>2. NoRenew
      BY <1>0, <2>6, <3>1, Zenon DEF RenewalTracked
    <3> QED
      BY <1>0, <2>2, <2>3, <3>2, TrackedBegin DEF ended
  <2>10. Judged'
    BY <1>0, <2>3, JudgedKept, SameEnd DEF ended
  <2> QED
    BY <2>5, <2>7, <2>8, <2>9, <2>10, Zenon DEF IInv
<1>8. CASE Renewed(p) \/ RenewRefused(p)
  <2>1. PICK l \in Labels : /\ l \notin {"renew", "await"} /\ pc[p] = "await" /\ answer # "none" /\ Goto(p, l)
                            /\ UNCHANGED <<now, conn, renewals, ended, awaited>>
    BY <1>1, <1>8 DEF Renewed, RenewRefused
  <2>2. OneRenewer'
    BY <1>0, <2>1, LockKept DEF Renewer
  <2>3. ~Awaiting /\ ~Awaiting'
    BY <1>0, <2>1, AwaitingEnds DEF Awaiting
  <2> QED
    BY <2>1, <2>2, <2>3, CallKept
<1>9. CASE RenewTimesOut(p)
  <2>1. PICK m : m = Message("CLO", 0)
    OBVIOUS
  <2>2. m \in MessageRecord /\ m.kind = "CLO"
    BY <1>1, <2>1, MessageFacts
  <2>3. /\ Renewer(p) /\ Goto(p, "idle") /\ abandoned'
        /\ renewals' = renewals /\ outgoing' = Append(outgoing, m)
        /\ UNCHANGED <<now, client, server, clientOut, serverOut, toServer, toClient, status, rejected>>
    BY <1>9, <2>1 DEF RenewTimesOut, Renewer
  <2>4. OneRenewer'
    BY <1>0, <1>1, <2>3, LockKept
  <2>5. Typed'
    BY <1>0, <1>1, <2>2, <2>3, TypedSend
  <2>6. NumbersFollow'
    BY <1>0, <2>3, NumbersKept DEF Open
  <2>7. RenewalTracked'
    BY <2>3 DEF RenewalTracked
  <2>8. Judged'
    BY <1>0, <2>3, JudgedKept, SameEnd
  <2> QED
    BY <2>4, <2>5, <2>6, <2>7, <2>8, Zenon DEF IInv
<1>10. CASE Disconnected(p)
  <2>1. /\ ~Open /\ pc[p] \in {"renew", "await", "go"} /\ Goto(p, "idle")
        /\ (pc[p] = "go" => renewing' = renewing)
        /\ UNCHANGED <<now, conn, renewals, ended, awaited>>
    BY <1>10 DEF Disconnected
  <2>2. OneRenewer'
    BY <1>0, <1>1, <2>1, LockKept DEF Renewer
  <2>3. ~Open'
    BY <2>1 DEF Open, ended
  <2>4. Typed'
    BY <1>0, <2>1 DEF Typed, conn, IsEnd, KeysNamed
  <2>5. NumbersFollow' /\ RenewalTracked'
    BY <2>3 DEF NumbersFollow, RenewalTracked
  <2>6. Judged'
    BY <1>0, <2>1, JudgedKept, SameEnd DEF conn, ended
  <2> QED
    BY <2>2, <2>4, <2>5, <2>6, Zenon DEF IInv
<1>11. CASE SendRequest(p)
  <2>1. PICK m : m = Message("MSG", 0)
    OBVIOUS
  <2>2. m \in MessageRecord /\ m.kind # "OPN"
    BY <1>1, <2>1, MessageFacts
  <2>3. /\ pc[p] = "go" /\ Goto(p, "idle") /\ renewing' = renewing /\ answer' = answer
        /\ renewals' = renewals /\ outgoing' = Append(outgoing, m)
        /\ UNCHANGED <<now, client, server, clientOut, serverOut, toServer, toClient, awaited, ended>>
    BY <1>11, <2>1 DEF SendRequest
  <2>4. OneRenewer' /\ (Awaiting' <=> Awaiting)
    BY <1>0, <1>1, <2>3, LockKept, AwaitingSame
  <2>5. Typed'
    BY <1>0, <1>1, <2>2, <2>3, TypedSend
  <2>6. NumbersFollow'
    BY <1>0, <2>3, NumbersKept DEF Open, ended
  <2>7. RenewalTracked'
    BY <1>0, <2>2, <2>3, <2>4, TrackedSend DEF Open, ended
  <2>8. Judged'
    BY <1>0, <2>3, JudgedKept, SameEnd DEF ended
  <2> QED
    BY <2>4, <2>5, <2>6, <2>7, <2>8, Zenon DEF IInv
<1> QED
  BY <1>2, <1>3, <1>4, <1>5, <1>6, <1>7, <1>8, <1>9, <1>10, <1>11 DEF Call

-----------------------------------------------------------------------------
(***************************************************************************)
(* The client's transport task writes and encodes.                         *)
(***************************************************************************)

LEMMA CallersKept ==
    ASSUME OneRenewer, UNCHANGED <<pc, renewing>>
    PROVE  OneRenewer' /\ (answer' = answer => (Awaiting' <=> Awaiting))
  BY DEF OneRenewer, Renewer, Awaiting

LEMMA QueuesTyped ==
    ASSUME Typed
    PROVE  /\ outgoing \in Seq(MessageRecord)
           /\ clientOut \in Seq(ChunkRecord) /\ serverOut \in Seq(ChunkRecord)
           /\ toServer \in Seq(ChunkRecord) /\ toClient \in Seq(ChunkRecord)
           /\ IsEnd(client) /\ IsEnd(server) /\ KeysNamed(client) /\ KeysNamed(server)
           /\ now \in Nat /\ renewals \in Nat
  BY DEF Typed

LEMMA MessageFields ==
    ASSUME NEW m \in MessageRecord
    PROVE  m.kind \in Kinds /\ m.req \in Nat
  BY DEF MessageRecord

LEMMA BodyFacts ==
    ASSUME NEW r \in Nat, NEW g \in Nat, NEW t \in Nat
    PROVE  /\ Body(r, g, t) \in [req : Nat, grant : Nat, at : Nat]
           /\ Body(r, g, t).req = r /\ Body(r, g, t).grant = g /\ Body(r, g, t).at = t
  BY DEF Body

LEMMA SeqAppend ==
    ASSUME NEW S, NEW q \in Seq(S), NEW c \in S
    PROVE  Append(q, c) \in Seq(S)
  OBVIOUS

LEMMA SeqTail ==
    ASSUME NEW S, NEW q \in Seq(S), q # <<>>
    PROVE  Tail(q) \in Seq(S) /\ Head(q) \in S /\ Head(q) = q[1] /\ 1 \in DOMAIN q
  BY TailFacts

\* The Renew leaves the queue of the transport as the one chunk of its kind.
LEMMA TrackedWrite ==
    ASSUME Typed, RenewalTracked, outgoing # <<>>, outgoing' = Tail(outgoing),
           NEW m, m = Head(outgoing), NEW c \in ChunkRecord, c.kind = m.kind, c.body.req = m.req,
           clientOut' = Append(clientOut, c), SameKeys(client, client'),
           awaited' = IF m.kind = "OPN" THEN m.req ELSE awaited,
           UNCHANGED <<server, serverOut, toServer, toClient, renewals, refused, status, abandoned>>,
           Awaiting' <=> Awaiting
    PROVE  RenewalTracked'
<1>1. outgoing \in Seq(MessageRecord) /\ clientOut \in Seq(ChunkRecord)
  BY QueuesTyped
<1>2. SameKeys(server, server')
  BY SameEnd
<1>3. Asked => Asked'
  BY <1>2, AskedKept
<1>4. Clear(toServer)' <=> Clear(toServer)
  BY DEF Clear
<1>5. RenewIn(toServer)' <=> RenewIn(toServer)
  BY DEF RenewIn, OnlyAt
<1>6. Clear(outgoing) => Clear(outgoing)' /\ m.kind # "OPN"
  BY <1>1, ClearTail, Zenon
<1>7. Clear(clientOut) /\ m.kind # "OPN" => Clear(clientOut)'
  BY <1>1, ClearAppend, Zenon
<1>8. Clear(outgoing) => awaited' = awaited
  BY <1>6, Zenon
<1>9. Served => Served'
  BY <1>4, <1>6, <1>7, <1>8, Zenon DEF Served
<1>10. (Answered => Answered') /\ (Returned => Returned')
  BY <1>2, <1>9, AnsweredKept, Zenon DEF Answered, Returned
<1>11. NoRenew => NoRenew'
  BY <1>3, <1>4, <1>6, <1>7, <1>8, Zenon DEF NoRenew
<1>12. OnWire => OnWire'
  BY <1>3, <1>5, <1>6, <1>7, <1>8, Zenon DEF OnWire
<1>13. Written => Written'
  <2>1. SUFFICES ASSUME Written PROVE Written'
    OBVIOUS
  <2>2. /\ Asked' /\ Clear(outgoing)' /\ m.kind # "OPN" /\ awaited' = renewals /\ renewals' = renewals
        /\ Clear(toServer)'
    BY <1>3, <1>4, <1>6, <1>8, <2>1, Zenon DEF Written
  <2>3. PICK k \in DOMAIN clientOut : OnlyAt(clientOut, k) /\ clientOut[k].body.req = renewals
    BY <2>1, Zenon DEF Written, RenewIn
  <2>4. OnlyAt(clientOut', k) /\ clientOut'[k] = clientOut[k]
    <3>1. c.kind # "OPN"
      BY <2>2, Zenon
    <3>2. OnlyAt(Append(clientOut, c), k) /\ Append(clientOut, c)[k] = clientOut[k]
      BY <1>1, <2>3, <3>1, OnlyAppend
    <3> QED
      BY <3>2, Zenon
  <2>5. RenewIn(clientOut)'
    BY <2>2, <2>3, <2>4, Zenon DEF RenewIn, OnlyAt
  <2> QED
    BY <2>2, <2>5, Zenon DEF Written
<1>14. Queued => Queued' \/ Written'
  <2>1. SUFFICES ASSUME Queued PROVE Queued' \/ Written'
    OBVIOUS
  <2>2. Asked' /\ Clear(clientOut) /\ Clear(toServer)' /\ awaited = 0
    BY <1>3, <1>4, <2>1, Zenon DEF Queued
  <2>3. PICK k \in DOMAIN outgoing : OnlyAt(outgoing, k) /\ outgoing[k].req = renewals
    BY <2>1, Zenon DEF Queued
  <2>4. CASE m.kind = "OPN"
    <3>1. m = outgoing[k] /\ Clear(outgoing)'
      BY <1>1, <2>3, <2>4, OnlyTail, Zenon
    <3>2. OnlyAt(clientOut', Len(clientOut')) /\ clientOut'[Len(clientOut')] = c
      <4>1. c.kind = "OPN" /\ Clear(clientOut)
        BY <2>2, <2>4, Zenon
      <4> QED
        BY <1>1, <4>1, ClearAppend, Zenon
    <3>3. c.body.req = renewals' /\ awaited' = renewals'
      BY <2>3, <2>4, <3>1, Zenon
    <3>4. RenewIn(clientOut)'
      BY <3>2, <3>3, Zenon DEF RenewIn, OnlyAt
    <3> QED
      BY <2>2, <3>1, <3>3, <3>4, Zenon DEF Written
  <2>5. CASE m.kind # "OPN"
    <3>1. OnlyAt(outgoing', k - 1) /\ outgoing'[k - 1] = outgoing[k]
      BY <1>1, <2>3, <2>5, OnlyTail, Zenon
    <3>2. Clear(clientOut)' /\ awaited' = 0 /\ outgoing'[k - 1].req = renewals'
      BY <1>7, <2>2, <2>3, <2>5, <3>1, Zenon
    <3>3. k - 1 \in DOMAIN outgoing'
      BY <3>1, Zenon DEF OnlyAt
    <3> QED
      BY <2>2, <3>1, <3>2, <3>3, Zenon DEF Queued
  <2> QED
    BY <2>4, <2>5
<1>15. Open' <=> Open
  BY DEF Open
<1> QED
  BY <1>10, <1>11, <1>12, <1>13, <1>14, <1>15, Zenon DEF RenewalTracked

LEMMA ClientWriteStep ==
    ASSUME IInv, ClientWrite
    PROVE  IInv'
<1>0. Typed /\ OneRenewer /\ NumbersFollow /\ RenewalTracked /\ Judged
  BY Zenon DEF IInv
<1>1. PICK m : m = Head(outgoing)
  OBVIOUS
<1>2. PICK b : b = Body(m.req, 0, 0)
  OBVIOUS
<1>3. PICK c : c = Chunk(client, m.kind, b)
  OBVIOUS
<1>4. /\ outgoing # <<>> /\ outgoing' = Tail(outgoing) /\ clientOut' = Append(clientOut, c)
      /\ client' = Sent(client) /\ awaited' = (IF m.kind = "OPN" THEN m.req ELSE awaited)
      /\ UNCHANGED <<now, server, serverOut, toServer, toClient, pc, renewing, answer, renewals,
                     status, rejected, abandoned, refused>>
  BY <1>1, <1>2, <1>3 DEF ClientWrite, ended
<1>5. m \in MessageRecord /\ outgoing' \in Seq(MessageRecord)
  BY <1>0, <1>1, <1>4, QueuesTyped, SeqTail
<1>6. m.kind \in Kinds /\ b \in [req : Nat, grant : Nat, at : Nat] /\ b.req = m.req
  <2>1. m.kind \in Kinds /\ m.req \in Nat /\ 0 \in Nat
    BY <1>5, MessageFields
  <2>2. Body(m.req, 0, 0) \in [req : Nat, grant : Nat, at : Nat] /\ Body(m.req, 0, 0).req = m.req
    BY <2>1, BodyFacts
  <2> QED
    BY <1>2, <2>1, <2>2
<1>7. c \in ChunkRecord /\ c.kind = m.kind /\ c.body = b /\ c.number = client.send.current
  BY <1>0, <1>3, <1>6, QueuesTyped, ChunkFacts
<1>8. /\ IsEnd(client') /\ SameKeys(client, client') /\ client'.receive = client.receive
      /\ client'.send.legacy = client.send.legacy
      /\ client'.send.current = After(client.send.legacy, client.send.current)
  BY <1>0, <1>4, QueuesTyped, SentFacts
<1>9. Typed'
  <2>1. KeysNamed(client')
    BY <1>0, <1>8, QueuesTyped, NamedKept
  <2>2. clientOut' \in Seq(ChunkRecord)
    BY <1>0, <1>4, <1>7, QueuesTyped, SeqAppend
  <2> QED
    BY <1>0, <1>4, <1>5, <1>8, <2>1, <2>2, Zenon DEF Typed
<1>10. OneRenewer' /\ (Awaiting' <=> Awaiting)
  BY <1>0, <1>4, CallersKept
<1>11. NumbersFollow'
  <2>1. SUFFICES ASSUME Open
                 PROVE  /\ Stream(toClient, serverOut, server.send, client.receive)
                        /\ Legacy => Stream(toServer, clientOut', client'.send, server.receive)
    BY <1>4, <1>8, Zenon DEF NumbersFollow, Open
  <2>2. /\ Stream(toClient, serverOut, server.send, client.receive)
        /\ Legacy => Stream(toServer, clientOut, client.send, server.receive)
    BY <1>0, <2>1, Zenon DEF NumbersFollow
  <2>3. client.send \in Handle /\ clientOut \in Seq(ChunkRecord)
    BY <1>0, QueuesTyped, EndFields
  <2>4. ASSUME Stream(toServer, clientOut, client.send, server.receive)
        PROVE  Stream(toServer, clientOut', client'.send, server.receive)
    <3>1. PICK s, z, t : s = client.send /\ z = client'.send /\ t = clientOut'
      OBVIOUS
    <3>2. /\ s \in Handle /\ z.legacy = s.legacy /\ z.current = After(s.legacy, s.current)
          /\ c.number = s.current /\ t = Append(clientOut, c)
          /\ Stream(toServer, clientOut, s, server.receive)
      BY <1>4, <1>7, <1>8, <2>3, <2>4, <3>1, Zenon
    <3>3. Stream(toServer, t, z, server.receive)
      BY <1>7, <2>3, <3>2, StreamWrite
    <3> QED
      BY <3>1, <3>3, Zenon
  <2> QED
    BY <2>2, <2>4, Zenon
<1>12. RenewalTracked'
  BY <1>0, <1>1, <1>4, <1>6, <1>7, <1>8, <1>10, TrackedWrite
<1>13. Judged'
  BY <1>0, <1>4, JudgedKept, SameEnd
<1> QED
  BY <1>9, <1>10, <1>11, <1>12, <1>13, Zenon DEF IInv

\* The chunk in front of the queue goes onto the wire, the Renew among them.
LEMMA TrackedEncode ==
    ASSUME Typed, RenewalTracked, clientOut # <<>>, clientOut' = Tail(clientOut),
           NEW h, h = Head(clientOut), NEW d \in ChunkRecord, d.kind = h.kind, d.body = h.body,
           toServer' = Append(toServer, d),
           UNCHANGED <<client, server, outgoing, serverOut, toClient, awaited, renewals, refused,
                       status, abandoned>>,
           Awaiting' <=> Awaiting
    PROVE  RenewalTracked'
<1>1. clientOut \in Seq(ChunkRecord) /\ toServer \in Seq(ChunkRecord)
  BY QueuesTyped
<1>2. SameKeys(client, client') /\ SameKeys(server, server')
  BY SameEnd
<1>3. Asked => Asked'
  BY <1>2, AskedKept
<1>4. Clear(outgoing)' <=> Clear(outgoing)
  BY DEF Clear
<1>5. Clear(clientOut) => Clear(clientOut)' /\ d.kind # "OPN"
  BY <1>1, ClearTail, Zenon
<1>6. Clear(toServer) /\ d.kind # "OPN" => Clear(toServer)'
  BY <1>1, ClearAppend, Zenon
<1>7. Served => Served'
  BY <1>4, <1>5, <1>6, Zenon DEF Served
<1>8. (Answered => Answered') /\ (Returned => Returned')
  BY <1>2, <1>7, AnsweredKept, Zenon DEF Answered, Returned
<1>9. NoRenew => NoRenew'
  BY <1>3, <1>4, <1>5, <1>6, Zenon DEF NoRenew
<1>10. Queued => Queued'
  BY <1>3, <1>5, <1>6, Zenon DEF Queued
<1>11. OnWire => OnWire'
  <2>1. SUFFICES ASSUME OnWire PROVE OnWire'
    OBVIOUS
  <2>2. Asked' /\ Clear(outgoing)' /\ Clear(clientOut)' /\ d.kind # "OPN" /\ awaited' = renewals'
    BY <1>3, <1>4, <1>5, <2>1, Zenon DEF OnWire
  <2>3. PICK k \in DOMAIN toServer : OnlyAt(toServer, k) /\ toServer[k].body.req = renewals
    BY <2>1, Zenon DEF OnWire, RenewIn
  <2>4. OnlyAt(Append(toServer, d), k) /\ Append(toServer, d)[k] = toServer[k]
    BY <1>1, <2>2, <2>3, OnlyAppend
  <2>5. RenewIn(toServer)'
    BY <2>3, <2>4, Zenon DEF RenewIn, OnlyAt
  <2> QED
    BY <2>2, <2>5, Zenon DEF OnWire
<1>12. Written => Written' \/ OnWire'
  <2>1. SUFFICES ASSUME Written PROVE Written' \/ OnWire'
    OBVIOUS
  <2>2. Asked' /\ Clear(outgoing)' /\ Clear(toServer) /\ awaited' = renewals'
    BY <1>3, <1>4, <2>1, Zenon DEF Written
  <2>3. PICK k \in DOMAIN clientOut : OnlyAt(clientOut, k) /\ clientOut[k].body.req = renewals
    BY <2>1, Zenon DEF Written, RenewIn
  <2>4. CASE h.kind = "OPN"
    <3>1. h = clientOut[k] /\ Clear(clientOut)'
      BY <1>1, <2>3, <2>4, OnlyTail, Zenon
    <3>2. d.kind = "OPN" /\ d.body.req = renewals'
      BY <2>3, <2>4, <3>1, Zenon
    <3>3. OnlyAt(toServer', Len(toServer')) /\ toServer'[Len(toServer')] = d
      BY <1>1, <2>2, <3>2, ClearAppend, Zenon
    <3>4. RenewIn(toServer)'
      BY <3>2, <3>3, Zenon DEF RenewIn, OnlyAt
    <3> QED
      BY <2>2, <3>1, <3>4, Zenon DEF OnWire
  <2>5. CASE h.kind # "OPN"
    <3>1. OnlyAt(clientOut', k - 1) /\ clientOut'[k - 1] = clientOut[k]
      BY <1>1, <2>3, <2>5, OnlyTail, Zenon
    <3>2. RenewIn(clientOut)'
      BY <2>3, <3>1, Zenon DEF RenewIn, OnlyAt
    <3> QED
      BY <1>6, <2>2, <2>5, <3>2, Zenon DEF Written
  <2> QED
    BY <2>4, <2>5
<1>13. Open' <=> Open
  BY DEF Open
<1> QED
  BY <1>8, <1>9, <1>10, <1>11, <1>12, <1>13, Zenon DEF RenewalTracked

LEMMA ClientEncodeStep ==
    ASSUME IInv, ClientEncode
    PROVE  IInv'
<1>0. Typed /\ OneRenewer /\ NumbersFollow /\ RenewalTracked /\ Judged
  BY Zenon DEF IInv
<1>1. PICK h : h = Head(clientOut)
  OBVIOUS
<1>2. PICK d : d = Secured(client, h)
  OBVIOUS
<1>3. /\ clientOut # <<>> /\ clientOut' = Tail(clientOut) /\ toServer' = Append(toServer, d)
      /\ UNCHANGED <<now, client, server, outgoing, serverOut, toClient, pc, renewing, answer, awaited,
                     renewals, status, rejected, abandoned, refused>>
  BY <1>1, <1>2 DEF ClientEncode, calls, ended
<1>4. clientOut \in Seq(ChunkRecord) /\ toServer \in Seq(ChunkRecord) /\ IsEnd(client)
  BY <1>0, QueuesTyped
<1>5. h \in ChunkRecord /\ clientOut' \in Seq(ChunkRecord) /\ h = clientOut[1]
  BY <1>1, <1>3, <1>4, SeqTail
<1>6. /\ d \in ChunkRecord /\ d.kind = h.kind /\ d.body = h.body /\ d.number = h.number
  BY <1>2, <1>4, <1>5, SecuredFacts
<1>7. Typed'
  <2>1. toServer' \in Seq(ChunkRecord)
    BY <1>3, <1>4, <1>6, SeqAppend
  <2> QED
    BY <1>0, <1>3, <1>5, <2>1, Zenon DEF Typed
<1>8. OneRenewer' /\ (Awaiting' <=> Awaiting)
  BY <1>0, <1>3, CallersKept
<1>9. NumbersFollow'
  <2>1. SUFFICES ASSUME Open
                 PROVE  /\ Stream(toClient, serverOut, server.send, client.receive)
                        /\ Legacy => Stream(toServer', clientOut', client.send, server.receive)
    BY <1>3, Zenon DEF NumbersFollow, Open
  <2>2. /\ Stream(toClient, serverOut, server.send, client.receive)
        /\ Legacy => Stream(toServer, clientOut, client.send, server.receive)
    BY <1>0, <2>1, Zenon DEF NumbersFollow
  <2>3. ASSUME Stream(toServer, clientOut, client.send, server.receive)
        PROVE  Stream(toServer', clientOut', client.send, server.receive)
    BY <1>3, <1>4, <1>5, <1>6, <2>3, StreamEncode, Zenon
  <2> QED
    BY <2>2, <2>3, Zenon
<1>10. RenewalTracked'
  BY <1>0, <1>1, <1>3, <1>6, <1>8, TrackedEncode
<1>11. Judged'
  BY <1>0, <1>3, JudgedKept, SameEnd
<1> QED
  BY <1>7, <1>8, <1>9, <1>10, <1>11, Zenon DEF IInv

-----------------------------------------------------------------------------
(***************************************************************************)
(* The server reads.                                                       *)
(***************************************************************************)

\* The numbers go on where the chunk read ends.
LEMMA ServerTakes ==
    ASSUME Typed, NumbersFollow, toServer # <<>>, toServer' = Tail(toServer),
           server'.receive.legacy = server.receive.legacy,
           server'.receive.current = After(server.receive.legacy, Head(toServer).number),
           UNCHANGED <<client, clientOut, toClient>>, Open' => Open,
           Open => Stream(toClient, serverOut', server'.send, client.receive)
    PROVE  NumbersFollow'
<1>1. toServer \in Seq(ChunkRecord)
  BY QueuesTyped
<1>2. Head(toServer) = toServer[1]
  BY <1>1, SeqTail
<1>3. SUFFICES ASSUME Open, Legacy
               PROVE  Stream(toServer', clientOut, client.send, server'.receive)
  BY Zenon DEF NumbersFollow
<1>4. Stream(toServer, clientOut, client.send, server.receive)
  BY <1>3, Zenon DEF NumbersFollow
<1>5. \A z : z.legacy = server.receive.legacy
             /\ z.current = After(server.receive.legacy, toServer[1].number) =>
                Stream(toServer', clientOut, client.send, z)
  BY <1>1, <1>4, StreamRead, Zenon
<1> QED
  BY <1>2, <1>5, Zenon

\* A request or a CloseSecureChannel is read, from in front of a Renew perhaps.
LEMMA TrackedServerRead ==
    ASSUME Typed, RenewalTracked, toServer # <<>>, toServer' = Tail(toServer),
           Head(toServer).kind # "OPN", SameKeys(server, server'),
           UNCHANGED <<client, outgoing, clientOut, serverOut, toClient, awaited, renewals, refused,
                       abandoned>>,
           Awaiting' <=> Awaiting, Open' => Open
    PROVE  RenewalTracked'
<1>1. toServer \in Seq(ChunkRecord)
  BY QueuesTyped
<1>2. SameKeys(client, client')
  BY SameEnd
<1>3. Asked => Asked'
  BY <1>2, AskedKept
<1>4. Clear(outgoing)' <=> Clear(outgoing)
  BY DEF Clear
<1>5. Clear(clientOut)' <=> Clear(clientOut)
  BY DEF Clear
<1>6. Clear(toServer) => Clear(toServer)'
  BY <1>1, ClearTail, Zenon
<1>7. RenewIn(clientOut)' <=> RenewIn(clientOut)
  BY DEF RenewIn, OnlyAt
<1>8. Served => Served'
  BY <1>4, <1>5, <1>6, Zenon DEF Served
<1>9. (Answered => Answered') /\ (Returned => Returned')
  BY <1>2, <1>8, AnsweredKept, Zenon DEF Answered, Returned
<1>10. NoRenew => NoRenew'
  BY <1>3, <1>4, <1>5, <1>6, Zenon DEF NoRenew
<1>11. Queued => Queued'
  BY <1>3, <1>5, <1>6, Zenon DEF Queued
<1>12. Written => Written'
  BY <1>3, <1>4, <1>6, <1>7, Zenon DEF Written
<1>13. OnWire => OnWire'
  <2>1. SUFFICES ASSUME OnWire PROVE OnWire'
    OBVIOUS
  <2>2. Asked' /\ Clear(outgoing)' /\ Clear(clientOut)' /\ awaited' = renewals'
    BY <1>3, <1>4, <1>5, <2>1, Zenon DEF OnWire
  <2>3. PICK k \in DOMAIN toServer : OnlyAt(toServer, k) /\ toServer[k].body.req = renewals
    BY <2>1, Zenon DEF OnWire, RenewIn
  <2>4. OnlyAt(toServer', k - 1) /\ toServer'[k - 1] = toServer[k]
    BY <1>1, <2>3, OnlyTail, Zenon
  <2>5. RenewIn(toServer)'
    BY <2>3, <2>4, Zenon DEF RenewIn, OnlyAt
  <2> QED
    BY <2>2, <2>5, Zenon DEF OnWire
<1> QED
  BY <1>9, <1>10, <1>11, <1>12, <1>13, Zenon DEF RenewalTracked

LEMMA ServerReadStep ==
    ASSUME IInv, ServerRead
    PROVE  IInv'
<1>0. Typed /\ OneRenewer /\ NumbersFollow /\ RenewalTracked /\ Judged
  BY Zenon DEF IInv
<1>1. PICK h : h = Head(toServer)
  OBVIOUS
<1>2. /\ Open /\ toServer # <<>> /\ toServer' = Tail(toServer) /\ h.kind # "OPN"
      /\ server' = Received(server, h)
      /\ UNCHANGED <<now, client, outgoing, clientOut, serverOut, toClient, pc, renewing, answer, awaited,
                     renewals, rejected, abandoned, refused>>
      /\ status' \in {status, "closed"}
  BY <1>1 DEF ServerRead, calls, ended
<1>3. toServer \in Seq(ChunkRecord) /\ IsEnd(server) /\ KeysNamed(server)
  BY <1>0, QueuesTyped
<1>4. h \in ChunkRecord /\ toServer' \in Seq(ChunkRecord)
  BY <1>1, <1>2, <1>3, SeqTail
<1>5. /\ IsEnd(server') /\ SameKeys(server, server') /\ server'.send = server.send
      /\ server'.receive.legacy = server.receive.legacy
      /\ server'.receive.current = After(server.receive.legacy, h.number)
  BY <1>2, <1>3, <1>4, ReceivedFacts
<1>6. Typed'
  <2>1. KeysNamed(server') /\ server'.token = server.token
    BY <1>3, <1>5, NamedKept DEF SameKeys
  <2> QED
    BY <1>0, <1>2, <1>4, <1>5, <2>1, Zenon DEF Typed
<1>7. OneRenewer' /\ (Awaiting' <=> Awaiting)
  BY <1>0, <1>2, CallersKept
<1>8. NumbersFollow'
  <2>1. Stream(toClient, serverOut', server'.send, client.receive)
    BY <1>0, <1>2, <1>5, Zenon DEF NumbersFollow
  <2> QED
    BY <1>0, <1>1, <1>2, <1>5, <2>1, ServerTakes
<1>9. RenewalTracked'
  BY <1>0, <1>1, <1>2, <1>5, <1>7, TrackedServerRead
<1>10. Judged'
  BY <1>0, <1>2, <1>5 DEF Judged, SameKeys, Open
<1> QED
  BY <1>6, <1>7, <1>8, <1>9, <1>10, Zenon DEF IInv

\* The Renew is read and its answer written, with what the server e has become.
LEMMA TrackedOpen ==
    ASSUME Typed, Typed', RenewalTracked, Open, toServer # <<>>, toServer' = Tail(toServer),
           Head(toServer).kind = "OPN", server'.token = server.token + 1,
           NEW c \in ChunkRecord, c.kind = "OPN", c.body.req = Head(toServer).body.req,
           serverOut' = Append(serverOut, c),
           IF c.body.grant = 0 THEN refused' /\ server'.local = server.local
           ELSE /\ c.body.grant = server'.token /\ server'.local = server'.token
                /\ server'.token \in DOMAIN server'.remote,
           UNCHANGED <<client, outgoing, clientOut, toClient, awaited, renewals, abandoned>>,
           Awaiting' <=> Awaiting
    PROVE  RenewalTracked'
<1>1. /\ toServer \in Seq(ChunkRecord) /\ serverOut \in Seq(ChunkRecord)
      /\ IsEnd(server)
  BY QueuesTyped
<1>2. SUFFICES ASSUME ~abandoned PROVE Awaiting /\ Answered'
  BY Zenon DEF RenewalTracked
<1>3. ~Clear(toServer)
  BY <1>1, ClearTail, Zenon
<1>4. OnWire /\ Awaiting
  BY <1>2, <1>3, Zenon DEF RenewalTracked, NoRenew, Queued, Written, Answered, Returned, Served
<1>5. PICK k \in DOMAIN toServer : OnlyAt(toServer, k) /\ toServer[k].body.req = renewals
  BY <1>4, Zenon DEF OnWire, RenewIn
<1>6. Clear(toServer)' /\ Head(toServer) = toServer[k]
  BY <1>1, <1>5, OnlyTail, Zenon
<1>7. Clear(outgoing)' /\ Clear(clientOut)' /\ awaited' = renewals' /\ Asked
  BY <1>4 DEF OnWire, Clear
<1>8. Served'
  BY <1>6, <1>7, Zenon DEF Served
<1>9. Clear(toClient)' /\ (\A j \in DOMAIN toClient : Known(toClient[j]))'
  BY <1>7 DEF Asked, Clear, Known
<1>10. /\ OnlyAt(serverOut', Len(serverOut')) /\ serverOut'[Len(serverOut')] = c
  BY <1>1, <1>7, ClearAppend, Zenon DEF Asked
<1>11. Answers(c)'
  <2>1. c.body.req = renewals'
    BY <1>5, <1>6, Zenon
  <2>2. server.local \in DOMAIN client.remote
    BY <1>7, Zenon DEF Asked
  <2> QED
    BY <2>1, <2>2, Zenon DEF Answers
<1>12. \A j \in DOMAIN serverOut' : j < Len(serverOut') => serverOut'[j].token # server'.token
  <2>1. SUFFICES ASSUME NEW j \in DOMAIN serverOut', j < Len(serverOut')
                 PROVE  serverOut'[j].token # server'.token
    OBVIOUS
  <2>2. j # Len(serverOut')
    <3>1. serverOut' \in Seq(ChunkRecord)
      BY <1>1, SeqAppend
    <3>2. Len(serverOut') \in Nat
      BY <3>1, SeqFacts
    <3> QED
      BY <2>1, <3>2
  <2>3. j \in DOMAIN serverOut /\ serverOut'[j] = serverOut[j]
    BY <1>1, <2>2, AppendFacts
  <2>4. PICK d : d = serverOut[j]
    OBVIOUS
  <2>5. d \in ChunkRecord /\ d.token <= server.token
    BY <1>1, <2>3, <2>4, SeqFacts DEF Typed
  <2>6. d.token \in Nat /\ server.token \in Nat
    BY <1>1, <2>5, EndFields DEF ChunkRecord
  <2>7. d.token # server.token + 1
    BY <2>5, <2>6
  <2> QED
    BY <2>3, <2>4, <2>7, Zenon
<1>13. Len(serverOut') \in DOMAIN serverOut'
  BY <1>10, Zenon DEF OnlyAt
<1> QED
  BY <1>4, <1>8, <1>9, <1>10, <1>11, <1>12, <1>13, Zenon DEF Answered

\* Both outcomes of a Renew: e is the server after the request, c the answer.
LEMMA OpenStep ==
    ASSUME IInv, ReadsOpen,
           NEW e, IsEnd(e), KeysNamed(e), e.token = server.token + 1,
           e.send = server.send, e.receive = server.receive,
           server' = Sent(Received(e, Head(toServer))),
           NEW c \in ChunkRecord, c.kind = "OPN", c.token = 0, c.number = server.send.current,
           c.body.req = Head(toServer).body.req, serverOut' = Append(serverOut, c),
           IF c.body.grant = 0 THEN refused' /\ e.local = server.local
           ELSE c.body.grant = e.token /\ e.local = e.token /\ e.token \in DOMAIN e.remote
    PROVE  IInv'
<1>0. Typed /\ OneRenewer /\ NumbersFollow /\ RenewalTracked /\ Judged
  BY Zenon DEF IInv
<1>1. PICK h : h = Head(toServer)
  OBVIOUS
<1>2. /\ Open /\ toServer # <<>> /\ toServer' = Tail(toServer) /\ h.kind = "OPN"
      /\ UNCHANGED <<now, client, outgoing, clientOut, toClient, pc, renewing, answer, awaited,
                     renewals, status, rejected, abandoned>>
  BY <1>1 DEF ReadsOpen, calls
<1>3. /\ toServer \in Seq(ChunkRecord) /\ serverOut \in Seq(ChunkRecord) /\ IsEnd(server)
  BY <1>0, QueuesTyped
<1>4. h \in ChunkRecord /\ toServer' \in Seq(ChunkRecord) /\ serverOut' \in Seq(ChunkRecord)
  BY <1>1, <1>2, <1>3, SeqTail, SeqAppend
<1>5. PICK g : g = Received(e, h)
  OBVIOUS
<1>6. /\ IsEnd(g) /\ SameKeys(e, g) /\ g.send = e.send
      /\ g.receive.legacy = e.receive.legacy
      /\ g.receive.current = After(e.receive.legacy, h.number)
  BY <1>4, <1>5, ReceivedFacts
<1>7. server' = Sent(g)
  BY <1>1, <1>5, Zenon
<1>8. /\ IsEnd(server') /\ SameKeys(g, server') /\ server'.receive = g.receive
      /\ server'.send.legacy = g.send.legacy
      /\ server'.send.current = After(g.send.legacy, g.send.current)
  BY <1>6, <1>7, SentFacts
<1>9. SameKeys(e, server') /\ KeysNamed(server') /\ server'.token = server.token + 1
  <2>1. SameKeys(e, server')
    BY <1>6, <1>8 DEF SameKeys
  <2> QED
    BY <2>1, NamedKept DEF SameKeys
<1>10. Typed'
  <2>1. \A k \in DOMAIN serverOut' : serverOut'[k].token <= server'.token
    <3>1. SUFFICES ASSUME NEW k \in DOMAIN serverOut' PROVE serverOut'[k].token <= server'.token
      OBVIOUS
    <3>2. PICK d : d = serverOut'[k]
      OBVIOUS
    <3>3. server.token \in Nat
      BY <1>3, EndFields
    <3>4. CASE k = Len(serverOut')
      <4>1. d = c
        BY <1>3, <3>2, <3>4, AppendFacts
      <4> QED
        BY <1>9, <3>2, <3>3, <4>1
    <3>5. CASE k # Len(serverOut')
      <4>1. k \in DOMAIN serverOut /\ d = serverOut[k]
        BY <1>3, <3>1, <3>2, <3>5, AppendFacts
      <4>2. d \in ChunkRecord /\ d.token <= server.token
        BY <1>0, <1>3, <4>1, SeqFacts DEF Typed
      <4>3. d.token \in Nat
        BY <4>2 DEF ChunkRecord
      <4> QED
        BY <1>9, <3>2, <3>3, <4>2, <4>3
    <3> QED
      BY <3>4, <3>5
  <2> QED
    BY <1>0, <1>2, <1>4, <1>8, <1>9, <2>1, Zenon DEF Typed
<1>11. OneRenewer' /\ (Awaiting' <=> Awaiting)
  BY <1>0, <1>2, CallersKept
<1>12. NumbersFollow'
  <2>1. server.send \in Handle
    BY <1>3, EndFields
  <2>2. Stream(toClient, serverOut, server.send, client.receive)
    BY <1>0, <1>2, Zenon DEF NumbersFollow
  <2>3. Stream(toClient, serverOut', server'.send, client.receive)
    <3>1. PICK s, z, t : s = server.send /\ z = server'.send /\ t = serverOut'
      OBVIOUS
    <3>2. /\ s \in Handle /\ z.legacy = s.legacy /\ z.current = After(s.legacy, s.current)
          /\ c.number = s.current /\ t = Append(serverOut, c)
          /\ Stream(toClient, serverOut, s, client.receive)
      BY <1>6, <1>8, <2>1, <2>2, <3>1, Zenon
    <3>3. Stream(toClient, t, z, client.receive)
      BY <1>3, <3>2, StreamWrite
    <3> QED
      BY <3>1, <3>3, Zenon
  <2>4. /\ server'.receive.legacy = server.receive.legacy
        /\ server'.receive.current = After(server.receive.legacy, h.number)
    BY <1>6, <1>8, Zenon
  <2> QED
    BY <1>0, <1>1, <1>2, <2>3, <2>4, ServerTakes DEF Open
<1>13. RenewalTracked'
  <2>1. IF c.body.grant = 0 THEN refused' /\ server'.local = server.local
        ELSE /\ c.body.grant = server'.token /\ server'.local = server'.token
             /\ server'.token \in DOMAIN server'.remote
    BY <1>9, Zenon DEF SameKeys
  <2> QED
    BY <1>0, <1>1, <1>2, <1>9, <1>10, <1>11, <2>1, TrackedOpen
<1>14. Judged'
  BY <1>2 DEF Judged, Open
<1> QED
  BY <1>10, <1>11, <1>12, <1>13, <1>14, Zenon DEF IInv

LEMMA ServerReadOpenStep ==
    ASSUME IInv, ServerReadOpen
    PROVE  IInv'
<1>0. Typed
  BY Zenon DEF IInv
<1>1. PICK f : f = [server EXCEPT !.token = @ + 1]
  OBVIOUS
<1>2. IsEnd(server) /\ KeysNamed(server) /\ toServer \in Seq(ChunkRecord) /\ now \in Nat
  BY <1>0, QueuesTyped
<1>3. /\ IsEnd(f) /\ KeysNamed(f) /\ f.token = server.token + 1
      /\ f.send = server.send /\ f.receive = server.receive
  BY <1>1, <1>2, NextTokenFacts
<1>4. Renew = DeriveKeys(f, f.token, now)
  BY <1>1, <1>3, Zenon DEF Renew
<1>5. /\ IsEnd(Renew) /\ KeysNamed(Renew) /\ Renew.token = f.token /\ Renew.local = f.token
      /\ Renew.token \in DOMAIN Renew.remote /\ Renew.send = f.send /\ Renew.receive = f.receive
  BY <1>3, <1>4, DeriveFacts, Zenon
<1>6. ReadsOpen /\ server' = Sent(Received(Renew, Head(toServer)))
      /\ serverOut' = Append(serverOut, OpenAnswer(Renew, Renew.token))
  BY Zenon DEF ServerReadOpen
<1>7. PICK c : c = OpenAnswer(Renew, Renew.token)
  OBVIOUS
<1>8. Renew.token \in Nat \ {0} /\ "OPN" \in Kinds
  BY <1>5, EndFields DEF Kinds
<1>9. PICK b : b = Body(Head(toServer).body.req, Renew.token, now)
  OBVIOUS
<1>10. Head(toServer).body.req \in Nat
  <2>1. Head(toServer) \in ChunkRecord
    BY <1>2, <1>6, SeqTail DEF ReadsOpen
  <2> QED
    BY <2>1 DEF ChunkRecord
<1>11. /\ b \in [req : Nat, grant : Nat, at : Nat] /\ b.req = Head(toServer).body.req
       /\ b.grant = Renew.token
  <2>1. PICK r, g : r = Head(toServer).body.req /\ g = Renew.token
    OBVIOUS
  <2>2. r \in Nat /\ g \in Nat /\ b = Body(r, g, now)
    BY <1>8, <1>9, <1>10, <2>1
  <2>3. b \in [req : Nat, grant : Nat, at : Nat] /\ b.req = r /\ b.grant = g
    <3>1. now \in Nat
      BY <1>2
    <3>2. /\ Body(r, g, now) \in [req : Nat, grant : Nat, at : Nat]
          /\ Body(r, g, now).req = r /\ Body(r, g, now).grant = g
      BY <2>2, <3>1, BodyFacts
    <3> QED
      BY <2>2, <3>2
  <2> QED
    BY <2>1, <2>3, Zenon
<1>12. c = Chunk(Renew, "OPN", b)
  BY <1>7, <1>8, <1>9 DEF OpenAnswer
<1>13. c \in ChunkRecord /\ c.kind = "OPN" /\ c.body = b /\ c.number = Renew.send.current /\ c.token = 0
  BY <1>5, <1>8, <1>11, <1>12, ChunkFacts
<1>14. PICK e : e = Renew
  OBVIOUS
<1>15. /\ IsEnd(e) /\ KeysNamed(e) /\ e.token = server.token + 1 /\ e.local = e.token
       /\ e.token \in DOMAIN e.remote /\ e.send = server.send /\ e.receive = server.receive
       /\ server' = Sent(Received(e, Head(toServer)))
  BY <1>3, <1>5, <1>6, <1>14, Zenon
<1>16. /\ c.number = server.send.current /\ c.body.req = Head(toServer).body.req
       /\ serverOut' = Append(serverOut, c) /\ c.body.grant = e.token /\ c.body.grant # 0
  BY <1>3, <1>5, <1>6, <1>7, <1>8, <1>11, <1>13, <1>14
<1> QED
  BY <1>6, <1>13, <1>15, <1>16, OpenStep

LEMMA ServerRefusesOpenStep ==
    ASSUME IInv, ServerRefusesOpen
    PROVE  IInv'
<1>0. Typed
  BY Zenon DEF IInv
<1>1. PICK e : e = [server EXCEPT !.token = @ + 1]
  OBVIOUS
<1>2. IsEnd(server) /\ KeysNamed(server) /\ toServer \in Seq(ChunkRecord)
  BY <1>0, QueuesTyped
<1>3. /\ IsEnd(e) /\ KeysNamed(e) /\ e.token = server.token + 1 /\ e.local = server.local
      /\ e.send = server.send /\ e.receive = server.receive
  BY <1>1, <1>2, NextTokenFacts
<1>4. ReadsOpen /\ server' = Sent(Received(e, Head(toServer))) /\ refused'
      /\ serverOut' = Append(serverOut, OpenAnswer(server, 0))
  BY <1>1 DEF ServerRefusesOpen
<1>5. PICK c : c = OpenAnswer(server, 0)
  OBVIOUS
<1>6. PICK b : b = Body(Head(toServer).body.req, 0, 0)
  OBVIOUS
<1>7. Head(toServer).body.req \in Nat
  <2>1. Head(toServer) \in ChunkRecord
    BY <1>2, <1>4, SeqTail DEF ReadsOpen
  <2> QED
    BY <2>1 DEF ChunkRecord
<1>8. b \in [req : Nat, grant : Nat, at : Nat] /\ b.req = Head(toServer).body.req /\ b.grant = 0
  BY <1>6, <1>7, BodyFacts
<1>9. c = Chunk(server, "OPN", b)
  BY <1>5, <1>6 DEF OpenAnswer
<1>10. c \in ChunkRecord /\ c.kind = "OPN" /\ c.body = b /\ c.number = server.send.current /\ c.token = 0
  <2>1. "OPN" \in Kinds
    BY DEF Kinds
  <2> QED
    BY <1>2, <1>8, <1>9, <2>1, ChunkFacts
<1>11. /\ c.body.req = Head(toServer).body.req /\ serverOut' = Append(serverOut, c) /\ c.body.grant = 0
  BY <1>4, <1>5, <1>8, <1>10, Zenon
<1> QED
  BY <1>3, <1>4, <1>10, <1>11, OpenStep

-----------------------------------------------------------------------------
(***************************************************************************)
(* The server writes and encodes.                                          *)
(***************************************************************************)

LEMMA TrackedRespond ==
    ASSUME Typed, RenewalTracked, NEW c \in ChunkRecord, c.kind # "OPN",
           serverOut' = Append(serverOut, c), SameKeys(server, server'),
           UNCHANGED <<client, outgoing, clientOut, toServer, toClient, awaited, renewals, refused,
                       status, abandoned>>,
           Awaiting' <=> Awaiting
    PROVE  RenewalTracked'
<1>1. serverOut \in Seq(ChunkRecord)
  BY QueuesTyped
<1>2. SameKeys(client, client')
  BY SameEnd
<1>3. /\ Agree' <=> Agree
      /\ \A d : Known(d)' <=> Known(d)
      /\ server'.local \in DOMAIN client'.remote <=> server.local \in DOMAIN client.remote
  BY <1>2, EndsKept
<1>4. \A d : Answers(d)' <=> Answers(d)
  BY <1>2, AnswersKept
<1>5. Clear(serverOut) => Clear(serverOut)'
  BY <1>1, ClearAppend, Zenon
<1>6. Asked => Asked'
  <2>1. Clear(toClient)' <=> Clear(toClient)
    BY DEF Clear
  <2> QED
    BY <1>3, <1>5, <2>1 DEF Asked
<1>7. Clear(outgoing)' <=> Clear(outgoing)
  BY DEF Clear
<1>8. Clear(clientOut)' <=> Clear(clientOut)
  BY DEF Clear
<1>9. Clear(toServer)' <=> Clear(toServer)
  BY DEF Clear
<1>10. RenewIn(clientOut)' <=> RenewIn(clientOut)
  BY DEF RenewIn, OnlyAt
<1>11. RenewIn(toServer)' <=> RenewIn(toServer)
  BY DEF RenewIn, OnlyAt
<1>12. Served => Served'
  BY <1>7, <1>8, <1>9 DEF Served
<1>13. NoRenew => NoRenew'
  BY <1>6, <1>7, <1>8, <1>9 DEF NoRenew
<1>14. Queued => Queued'
  BY <1>6, <1>8, <1>9 DEF Queued, OnlyAt
<1>15. (Written => Written') /\ (OnWire => OnWire')
  BY <1>6, <1>7, <1>8, <1>9, <1>10, <1>11 DEF Written, OnWire
<1>16. Returned => Returned'
  <2>1. server'.token = server.token
    BY DEF SameKeys
  <2> QED
    BY <1>3, <1>4, <1>5, <1>12, <2>1 DEF Returned, OnlyAt
<1>17. Answered => Answered'
  <2>1. SUFFICES ASSUME Answered PROVE Answered'
    OBVIOUS
  <2>2. PICK k \in DOMAIN serverOut :
          /\ OnlyAt(serverOut, k) /\ Answers(serverOut[k])
          /\ serverOut[k].body.grant # 0 =>
               \A j \in DOMAIN serverOut : j < k => serverOut[j].token # server.token
    BY <2>1, Zenon DEF Answered
  <2>3. OnlyAt(Append(serverOut, c), k) /\ Append(serverOut, c)[k] = serverOut[k]
    BY <1>1, <2>2, OnlyAppend
  <2>4. OnlyAt(serverOut', k) /\ serverOut'[k] = serverOut[k] /\ k \in DOMAIN serverOut'
    BY <2>3, Zenon DEF OnlyAt
  <2>5. \A j \in DOMAIN serverOut' : j < k => j \in DOMAIN serverOut /\ serverOut'[j] = serverOut[j]
    <3>1. SUFFICES ASSUME NEW j \in DOMAIN serverOut', j < k
                   PROVE  j \in DOMAIN serverOut /\ serverOut'[j] = serverOut[j]
      OBVIOUS
    <3>2. PICK n : n = Len(serverOut')
      OBVIOUS
    <3>3. n \in Nat /\ k < n /\ k \in Int
      <4>1. DOMAIN serverOut = 1..Len(serverOut) /\ Len(serverOut) \in Nat /\ n = Len(serverOut) + 1
        BY <1>1, <3>2, SeqFacts, AppendFacts
      <4> QED
        BY <2>2, <4>1
    <3>4. j # n
      BY <3>1, <3>3
    <3> QED
      BY <1>1, <3>1, <3>2, <3>4, AppendFacts
  <2>6. Served' /\ Clear(toClient)' /\ (\A j \in DOMAIN toClient : Known(toClient[j]))'
    BY <1>3, <1>12, <2>1 DEF Answered, Clear
  <2>7. Answers(serverOut[k])'
    BY <1>4, <2>2, <2>4, Zenon
  <2>8. server'.token = server.token
    BY DEF SameKeys
  <2>9. serverOut'[k].body.grant # 0 =>
               \A j \in DOMAIN serverOut' : j < k => serverOut'[j].token # server'.token
    BY <2>2, <2>4, <2>5, <2>8, Zenon
  <2> QED
    BY <2>4, <2>6, <2>7, <2>9, Zenon DEF Answered
<1>18. Open' <=> Open
  BY DEF Open
<1> QED
  BY <1>13, <1>14, <1>15, <1>16, <1>17, <1>18, Zenon DEF RenewalTracked

LEMMA ServerRespondStep ==
    ASSUME IInv, ServerRespond
    PROVE  IInv'
<1>0. Typed /\ OneRenewer /\ NumbersFollow /\ RenewalTracked /\ Judged
  BY Zenon DEF IInv
<1>1. PICK c : c = Chunk(server, "MSG", NoBody)
  OBVIOUS
<1>2. /\ Open /\ server' = Sent(server) /\ serverOut' = Append(serverOut, c)
      /\ UNCHANGED <<now, client, outgoing, clientOut, toServer, toClient, pc, renewing, answer, awaited,
                     renewals, status, rejected, abandoned, refused>>
  BY <1>1 DEF ServerRespond, calls, ended
<1>3. serverOut \in Seq(ChunkRecord) /\ IsEnd(server) /\ KeysNamed(server)
  BY <1>0, QueuesTyped
<1>4. c \in ChunkRecord /\ c.kind = "MSG" /\ c.number = server.send.current /\ c.token = server.token
  <2>1. "MSG" \in Kinds /\ NoBody \in [req : Nat, grant : Nat, at : Nat]
    BY DEF Kinds, NoBody, Body
  <2> QED
    BY <1>1, <1>3, <2>1, ChunkFacts
<1>5. /\ IsEnd(server') /\ SameKeys(server, server') /\ server'.receive = server.receive
      /\ server'.send.legacy = server.send.legacy
      /\ server'.send.current = After(server.send.legacy, server.send.current)
  BY <1>2, <1>3, SentFacts
<1>6. Typed'
  <2>1. KeysNamed(server') /\ server'.token = server.token
    BY <1>3, <1>5, NamedKept DEF SameKeys
  <2>2. serverOut' \in Seq(ChunkRecord)
    BY <1>2, <1>3, <1>4, SeqAppend
  <2>3. \A k \in DOMAIN serverOut' : serverOut'[k].token <= server'.token
    <3>1. SUFFICES ASSUME NEW k \in DOMAIN serverOut' PROVE serverOut'[k].token <= server'.token
      OBVIOUS
    <3>2. CASE k = Len(serverOut')
      <4>1. serverOut'[k] = c
        BY <1>2, <1>3, <1>4, <3>2, AppendFacts
      <4>2. server.token \in Nat
        BY <1>3, EndFields
      <4>3. server.token <= server.token
        BY <4>2
      <4> QED
        BY <1>4, <2>1, <4>1, <4>3, Zenon
    <3>3. CASE k # Len(serverOut')
      <4>1. k \in DOMAIN serverOut /\ serverOut'[k] = serverOut[k]
        BY <1>2, <1>3, <1>4, <3>1, <3>3, AppendFacts
      <4> QED
        BY <1>0, <2>1, <4>1, Zenon DEF Typed
    <3> QED
      BY <3>2, <3>3
  <2> QED
    BY <1>0, <1>2, <1>5, <2>1, <2>2, <2>3, Zenon DEF Typed
<1>7. OneRenewer' /\ (Awaiting' <=> Awaiting)
  BY <1>0, <1>2, CallersKept
<1>8. NumbersFollow'
  <2>1. /\ Stream(toClient, serverOut, server.send, client.receive)
        /\ Legacy => Stream(toServer, clientOut, client.send, server.receive)
    BY <1>0, <1>2, Zenon DEF NumbersFollow
  <2>2. server.send \in Handle
    BY <1>3, EndFields
  <2>3. Stream(toClient, serverOut', server'.send, client.receive)
    <3>1. PICK s, z, t : s = server.send /\ z = server'.send /\ t = serverOut'
      OBVIOUS
    <3>2. /\ s \in Handle /\ z.legacy = s.legacy /\ z.current = After(s.legacy, s.current)
          /\ c.number = s.current /\ t = Append(serverOut, c)
          /\ Stream(toClient, serverOut, s, client.receive)
      BY <1>2, <1>4, <1>5, <2>1, <2>2, <3>1, Zenon
    <3>3. Stream(toClient, t, z, client.receive)
      BY <1>3, <1>4, <3>2, StreamWrite
    <3> QED
      BY <3>1, <3>3, Zenon
  <2> QED
    BY <1>2, <1>5, <2>1, <2>3, Zenon DEF NumbersFollow
<1>9. RenewalTracked'
  BY <1>0, <1>2, <1>4, <1>5, <1>7, TrackedRespond
<1>10. Judged'
  BY <1>0, <1>2, <1>5, JudgedKept
<1> QED
  BY <1>6, <1>7, <1>8, <1>9, <1>10, Zenon DEF IInv

LEMMA TokenFits ==
    ASSUME NEW d, d.keys = server.local
    PROVE  /\ server.local \in DOMAIN client.remote => Known(d)
           /\ server.local = server.token => (Honest(d) => d.token = server.token)
           /\ server.local = server.token /\ d.token # server.token => Known(d)
  BY Zenon DEF Known, Honest

\* The answer goes onto the wire behind what was secured with the keys before.
LEMMA AnsweredEncode ==
    ASSUME Typed, Typed', Answered, serverOut # <<>>, serverOut' = Tail(serverOut),
           NEW h, h = Head(serverOut), NEW d \in ChunkRecord, d.kind = h.kind, d.token = h.token,
           h.kind = "OPN" => d = h, h.kind # "OPN" => d.keys = server.local,
           toClient' = Append(toClient, d),
           UNCHANGED <<client, server, renewals, refused>>, Served'
    PROVE  Answered' \/ Returned'
<1>1. /\ serverOut \in Seq(ChunkRecord) /\ toClient \in Seq(ChunkRecord)
      /\ serverOut' \in Seq(ChunkRecord) /\ toClient' \in Seq(ChunkRecord)
  BY QueuesTyped DEF Typed
<1>2. SameKeys(client, client') /\ SameKeys(server, server')
  BY SameEnd
<1>3. /\ \A c : Known(c)' <=> Known(c)
      /\ \A c : Answers(c)' <=> Answers(c)
  BY <1>2, EndsKept, AnswersKept
<1>4. Clear(toClient) /\ \A k \in DOMAIN toClient : Known(toClient[k])
  BY Zenon DEF Answered
<1>5. PICK k \in DOMAIN serverOut :
        /\ OnlyAt(serverOut, k) /\ Answers(serverOut[k])
        /\ serverOut[k].body.grant # 0 =>
             \A j \in DOMAIN serverOut : j < k => serverOut[j].token # server.token
  BY Zenon DEF Answered
<1>6. /\ Len(toClient') \in DOMAIN toClient' /\ toClient'[Len(toClient')] = d
      /\ \A j \in DOMAIN toClient' : j # Len(toClient') => j \in DOMAIN toClient /\ toClient'[j] = toClient[j]
      /\ Len(toClient') \in Nat /\ \A j \in DOMAIN toClient' : j \in Nat /\ j <= Len(toClient')
  <2>1. Len(toClient') \in Nat /\ DOMAIN toClient' = 1..Len(toClient')
    BY <1>1, SeqFacts
  <2> QED
    BY <1>1, <2>1, AppendFacts
<1>7. CASE h.kind = "OPN"
  <2>1. h = serverOut[k] /\ Clear(serverOut)' /\ d = h
    BY <1>1, <1>5, <1>7, OnlyTail, Zenon
  <2>2. OnlyAt(toClient', Len(toClient'))
    BY <1>1, <1>4, <1>7, <2>1, ClearAppend, Zenon
  <2>3. PICK n : n = Len(toClient')
    OBVIOUS
  <2>4. /\ n \in DOMAIN toClient' /\ OnlyAt(toClient', n) /\ toClient'[n] = serverOut[k]
    BY <1>6, <2>1, <2>2, <2>3, Zenon
  <2>5. Answers(toClient[n])'
    BY <1>3, <1>5, <2>4, Zenon
  <2>6. (\A j \in DOMAIN toClient : j < n => Known(toClient[j]))'
    <3>1. \A j \in DOMAIN toClient' : j < n => j # n
      BY <1>6, <2>3
    <3> QED
      BY <1>3, <1>4, <1>6, <2>3, <3>1, Zenon
  <2>7. \A j \in DOMAIN toClient' : ~(j > n)
    BY <1>6, <2>3
  <2> QED
    BY <2>1, <2>4, <2>5, <2>6, <2>7, Zenon DEF Returned
<1>8. CASE h.kind # "OPN"
  <2>1. /\ OnlyAt(serverOut', k - 1) /\ serverOut'[k - 1] = serverOut[k] /\ k # 1 /\ k \in Int
    BY <1>1, <1>5, <1>8, OnlyTail, Zenon
  <2>2. Clear(toClient)'
    BY <1>1, <1>4, <1>8, ClearAppend, Zenon
  <2>3. Known(d)
    <3>1. 1 \in DOMAIN serverOut /\ h = serverOut[1] /\ 1 < k
      <4>1. DOMAIN serverOut = 1..Len(serverOut) /\ Len(serverOut) \in Nat
        BY <1>1, SeqFacts
      <4>2. 1 \in DOMAIN serverOut /\ h = serverOut[1]
        BY <1>1, SeqTail
      <4> QED
        BY <1>5, <2>1, <4>1, <4>2
    <3>2. CASE serverOut[k].body.grant = 0
      <4>1. server.local \in DOMAIN client.remote
        BY <1>5, <3>2, Zenon DEF Answers
      <4> QED
        BY <1>8, <4>1, TokenFits, Zenon
    <3>3. CASE serverOut[k].body.grant # 0
      <4>1. server.local = server.token /\ d.token # server.token
        BY <1>5, <3>1, <3>3, Zenon DEF Answers
      <4> QED
        BY <1>8, <4>1, TokenFits, Zenon
    <3> QED
      BY <3>2, <3>3
  <2>4. (\A j \in DOMAIN toClient : Known(toClient[j]))'
    BY <1>3, <1>4, <1>6, <2>3, Zenon
  <2>5. \A j \in DOMAIN serverOut' : j < k - 1 =>
          j + 1 \in DOMAIN serverOut /\ j + 1 < k /\ serverOut'[j] = serverOut[j + 1]
    <3>1. \A j \in DOMAIN serverOut' : j + 1 \in DOMAIN serverOut /\ serverOut'[j] = serverOut[j + 1]
      BY <1>1, TailFacts
    <3>2. \A j \in DOMAIN serverOut' : j \in Int
      <4>1. DOMAIN serverOut' = 1..Len(serverOut') /\ Len(serverOut') \in Nat
        BY <1>1, SeqFacts
      <4> QED
        BY <4>1
    <3>3. \A j \in DOMAIN serverOut' : j < k - 1 => j + 1 < k
      BY <2>1, <3>2
    <3> QED
      BY <3>1, <3>3, Zenon
  <2>6. serverOut'[k - 1].body.grant # 0 =>
          \A j \in DOMAIN serverOut' : j < k - 1 => serverOut'[j].token # server'.token
    BY <1>5, <2>1, <2>5, Zenon
  <2>7. k - 1 \in DOMAIN serverOut' /\ Answers(serverOut[k - 1])'
    BY <1>3, <1>5, <2>1, Zenon DEF OnlyAt
  <2> QED
    BY <2>1, <2>2, <2>4, <2>6, <2>7, Zenon DEF Answered
<1> QED
  BY <1>7, <1>8

\* Chunks secured after the answer are secured with the keys it announces.
LEMMA ReturnedEncode ==
    ASSUME Typed, Typed', Returned, serverOut # <<>>, serverOut' = Tail(serverOut),
           NEW d \in ChunkRecord, d.kind # "OPN", d.keys = server.local,
           toClient' = Append(toClient, d), UNCHANGED <<client, server, renewals, refused>>, Served'
    PROVE  Returned'
<1>1. /\ serverOut \in Seq(ChunkRecord) /\ toClient \in Seq(ChunkRecord) /\ toClient' \in Seq(ChunkRecord)
  BY QueuesTyped DEF Typed
<1>2. SameKeys(client, client') /\ SameKeys(server, server')
  BY SameEnd
<1>3. /\ \A c : Known(c)' <=> Known(c)
      /\ \A c : Answers(c)' <=> Answers(c)
  BY <1>2, EndsKept, AnswersKept
<1>4. PICK k \in DOMAIN toClient :
        /\ OnlyAt(toClient, k) /\ Answers(toClient[k])
        /\ \A j \in DOMAIN toClient : j < k => Known(toClient[j])
        /\ \A j \in DOMAIN toClient : j > k =>
             IF toClient[k].body.grant = 0 THEN Known(toClient[j])
             ELSE Honest(toClient[j]) => toClient[j].token = server.token
  BY Zenon DEF Returned
<1>5. PICK n : n = Len(toClient')
  OBVIOUS
<1>6. /\ n \in DOMAIN toClient' /\ toClient'[n] = d /\ k # n /\ ~(n < k)
      /\ \A j \in DOMAIN toClient' : j # n => j \in DOMAIN toClient /\ toClient'[j] = toClient[j]
  <2>1. /\ Len(toClient) \in Nat /\ DOMAIN toClient = 1..Len(toClient) /\ n = Len(toClient) + 1
    BY <1>1, <1>5, SeqFacts, AppendFacts
  <2>2. k # n /\ ~(n < k)
    BY <1>4, <2>1
  <2> QED
    BY <1>1, <1>5, <2>2, AppendFacts
<1>7. OnlyAt(Append(toClient, d), k) /\ Append(toClient, d)[k] = toClient[k]
  BY <1>1, <1>4, OnlyAppend
<1>8. OnlyAt(toClient', k) /\ toClient'[k] = toClient[k] /\ k \in DOMAIN toClient'
  BY <1>7, Zenon DEF OnlyAt
<1>9. Answers(toClient[k])'
  BY <1>3, <1>4, <1>8, Zenon
<1>10. (\A j \in DOMAIN toClient : j < k => Known(toClient[j]))'
  BY <1>3, <1>4, <1>6, Zenon
<1>11. Clear(serverOut)'
  BY <1>1, ClearTail, Zenon DEF Returned
<1>12. IF toClient[k].body.grant = 0 THEN Known(d) ELSE Honest(d) => d.token = server.token
  BY <1>4, TokenFits, Zenon DEF Answers
<1>13. (\A j \in DOMAIN toClient : j > k =>
             IF toClient[k].body.grant = 0 THEN Known(toClient[j])
             ELSE Honest(toClient[j]) => toClient[j].token = server.token)'
  BY <1>3, <1>4, <1>6, <1>8, <1>12, Zenon
<1> QED
  BY <1>8, <1>9, <1>10, <1>11, <1>13, Zenon DEF Returned

LEMMA TrackedServerEncode ==
    ASSUME Typed, Typed', RenewalTracked, serverOut # <<>>, serverOut' = Tail(serverOut),
           NEW h, h = Head(serverOut), NEW d \in ChunkRecord, d.kind = h.kind, d.token = h.token,
           h.kind = "OPN" => d = h, h.kind # "OPN" => d.keys = server.local,
           toClient' = Append(toClient, d),
           UNCHANGED <<client, server, outgoing, clientOut, toServer, awaited, renewals, refused,
                       status, abandoned>>,
           Awaiting' <=> Awaiting
    PROVE  RenewalTracked'
<1>1. /\ serverOut \in Seq(ChunkRecord) /\ toClient \in Seq(ChunkRecord)
  BY QueuesTyped
<1>2. SameKeys(client, client') /\ SameKeys(server, server')
  BY SameEnd
<1>3. /\ Agree' <=> Agree
      /\ \A c : Known(c)' <=> Known(c)
      /\ server'.local \in DOMAIN client'.remote <=> server.local \in DOMAIN client.remote
  BY <1>2, EndsKept
<1>4. Clear(serverOut) => Clear(serverOut)' /\ h.kind # "OPN"
  BY <1>1, ClearTail, Zenon
<1>5. Asked => Asked'
  <2>1. SUFFICES ASSUME Asked PROVE Asked'
    OBVIOUS
  <2>2. /\ Clear(serverOut)' /\ h.kind # "OPN" /\ d.keys = server.local /\ Clear(toClient)
        /\ \A k \in DOMAIN toClient : Known(toClient[k])
        /\ server.local \in DOMAIN client.remote
    BY <1>4, <2>1, Zenon DEF Asked
  <2>3. Clear(toClient)'
    BY <1>1, <2>2, ClearAppend, Zenon
  <2>4. Known(d)
    BY <2>2, TokenFits, Zenon
  <2>5. /\ toClient'[Len(toClient')] = d
        /\ \A j \in DOMAIN toClient' : j # Len(toClient') => j \in DOMAIN toClient /\ toClient'[j] = toClient[j]
    BY <1>1, AppendFacts
  <2>6. (\A k \in DOMAIN toClient : Known(toClient[k]))'
    BY <1>3, <2>2, <2>4, <2>5, Zenon
  <2> QED
    BY <1>3, <2>1, <2>2, <2>3, <2>6, Zenon DEF Asked
<1>6. Clear(outgoing)' <=> Clear(outgoing)
  BY DEF Clear
<1>7. Clear(clientOut)' <=> Clear(clientOut)
  BY DEF Clear
<1>8. Clear(toServer)' <=> Clear(toServer)
  BY DEF Clear
<1>9. RenewIn(clientOut)' <=> RenewIn(clientOut)
  BY DEF RenewIn, OnlyAt
<1>10. RenewIn(toServer)' <=> RenewIn(toServer)
  BY DEF RenewIn, OnlyAt
<1>11. Served => Served'
  BY <1>6, <1>7, <1>8 DEF Served
<1>12. NoRenew => NoRenew'
  BY <1>5, <1>6, <1>7, <1>8 DEF NoRenew
<1>13. Queued => Queued'
  BY <1>5, <1>7, <1>8 DEF Queued, OnlyAt
<1>14. (Written => Written') /\ (OnWire => OnWire')
  BY <1>5, <1>6, <1>7, <1>8, <1>9, <1>10 DEF Written, OnWire
<1>15. Answered => Answered' \/ Returned'
  BY <1>11, AnsweredEncode DEF Answered
<1>16. Returned => Returned'
  BY <1>4, <1>11, ReturnedEncode DEF Returned
<1>17. Open' <=> Open
  BY DEF Open
<1> QED
  BY <1>12, <1>13, <1>14, <1>15, <1>16, <1>17, Zenon DEF RenewalTracked

LEMMA ServerEncodeStep ==
    ASSUME IInv, ServerEncode
    PROVE  IInv'
<1>0. Typed /\ OneRenewer /\ NumbersFollow /\ RenewalTracked /\ Judged
  BY Zenon DEF IInv
<1>1. PICK h : h = Head(serverOut)
  OBVIOUS
<1>2. PICK d : d = Secured(server, h)
  OBVIOUS
<1>3. /\ serverOut # <<>> /\ serverOut' = Tail(serverOut) /\ toClient' = Append(toClient, d)
      /\ UNCHANGED <<now, client, server, outgoing, clientOut, toServer, pc, renewing, answer, awaited,
                     renewals, status, rejected, abandoned, refused>>
  BY <1>1, <1>2 DEF ServerEncode, calls, ended
<1>4. serverOut \in Seq(ChunkRecord) /\ toClient \in Seq(ChunkRecord) /\ IsEnd(server)
  BY <1>0, QueuesTyped
<1>5. h \in ChunkRecord /\ serverOut' \in Seq(ChunkRecord) /\ h = serverOut[1]
  BY <1>1, <1>3, <1>4, SeqTail
<1>6. /\ d \in ChunkRecord /\ d.kind = h.kind /\ d.number = h.number /\ d.token = h.token
      /\ (h.kind = "OPN" => d = h) /\ (h.kind # "OPN" => d.keys = server.local)
  BY <1>2, <1>4, <1>5, SecuredFacts
<1>7. Typed'
  <2>1. toClient' \in Seq(ChunkRecord)
    BY <1>3, <1>4, <1>6, SeqAppend
  <2>2. \A k \in DOMAIN serverOut' : k + 1 \in DOMAIN serverOut /\ serverOut'[k] = serverOut[k + 1]
    BY <1>3, <1>4, TailFacts
  <2>3. \A k \in DOMAIN serverOut' : serverOut'[k].token <= server'.token
    BY <1>0, <1>3, <2>2, Zenon DEF Typed
  <2> QED
    BY <1>0, <1>3, <1>5, <2>1, <2>3, Zenon DEF Typed
<1>8. OneRenewer' /\ (Awaiting' <=> Awaiting)
  BY <1>0, <1>3, CallersKept
<1>9. NumbersFollow'
  <2>1. SUFFICES ASSUME Open
                 PROVE  /\ Stream(toClient', serverOut', server.send, client.receive)
                        /\ Legacy => Stream(toServer, clientOut, client.send, server.receive)
    BY <1>3, Zenon DEF NumbersFollow, Open
  <2>2. /\ Stream(toClient, serverOut, server.send, client.receive)
        /\ Legacy => Stream(toServer, clientOut, client.send, server.receive)
    BY <1>0, <2>1, Zenon DEF NumbersFollow
  <2>3. Stream(toClient', serverOut', server.send, client.receive)
    BY <1>3, <1>4, <1>5, <1>6, <2>2, StreamEncode, Zenon
  <2> QED
    BY <2>2, <2>3, Zenon
<1>10. RenewalTracked'
  BY <1>0, <1>1, <1>3, <1>6, <1>7, <1>8, TrackedServerEncode
<1>11. Judged'
  BY <1>0, <1>3, JudgedKept, SameEnd
<1> QED
  BY <1>7, <1>8, <1>9, <1>10, <1>11, Zenon DEF IInv

-----------------------------------------------------------------------------
(***************************************************************************)
(* The client reads.                                                       *)
(***************************************************************************)

LEMMA ClientTakes ==
    ASSUME Typed, NumbersFollow, toClient # <<>>, toClient' = Tail(toClient),
           client'.receive.legacy = client.receive.legacy,
           client'.receive.current = After(client.receive.legacy, Head(toClient).number),
           client'.send = client.send,
           UNCHANGED <<server, serverOut, clientOut, toServer>>, Open' => Open
    PROVE  NumbersFollow'
<1>1. toClient \in Seq(ChunkRecord)
  BY QueuesTyped
<1>2. Head(toClient) = toClient[1]
  BY <1>1, SeqTail
<1>3. SUFFICES ASSUME Open
               PROVE  /\ Stream(toClient', serverOut, server.send, client'.receive)
                      /\ Legacy => Stream(toServer, clientOut, client.send, server.receive)
  BY Zenon DEF NumbersFollow
<1>4. /\ Stream(toClient, serverOut, server.send, client.receive)
      /\ Legacy => Stream(toServer, clientOut, client.send, server.receive)
  BY <1>3, Zenon DEF NumbersFollow
<1>5. \A z : z.legacy = client.receive.legacy
             /\ z.current = After(client.receive.legacy, toClient[1].number) =>
                Stream(toClient', serverOut, server.send, z)
  BY <1>1, <1>4, StreamRead, Zenon
<1> QED
  BY <1>2, <1>4, <1>5, Zenon

\* What is in front of the answer to a Renew the client can still verify.
LEMMA HeadKnown ==
    ASSUME Typed, RenewalTracked, Open, ~abandoned, toClient # <<>>, Head(toClient).kind # "OPN"
    PROVE  Known(Head(toClient))
<1>1. toClient \in Seq(ChunkRecord)
  BY QueuesTyped
<1>2. 1 \in DOMAIN toClient /\ Head(toClient) = toClient[1]
  BY <1>1, SeqTail
<1>3. CASE Asked \/ Answered
  BY <1>2, <1>3, Zenon DEF Asked, Answered
<1>4. CASE Returned
  <2>1. PICK k \in DOMAIN toClient :
          /\ OnlyAt(toClient, k)
          /\ \A j \in DOMAIN toClient : j < k => Known(toClient[j])
    BY <1>4, Zenon DEF Returned
  <2>2. k # 1
    BY <1>2, <2>1, Zenon DEF OnlyAt
  <2>3. 1 < k
    <3>1. DOMAIN toClient = 1..Len(toClient) /\ Len(toClient) \in Nat
      BY <1>1, SeqFacts
    <3> QED
      BY <2>1, <2>2, <3>1
  <2> QED
    BY <1>2, <2>1, <2>3, Zenon
<1> QED
  BY <1>3, <1>4, Zenon DEF RenewalTracked, NoRenew, Queued, Written, OnWire

LEMMA TrackedClientRead ==
    ASSUME Typed, RenewalTracked, toClient # <<>>, toClient' = Tail(toClient),
           Head(toClient).kind # "OPN", SameKeys(client, client'),
           UNCHANGED <<server, outgoing, clientOut, serverOut, toServer, awaited, renewals, refused,
                       status, abandoned>>,
           Awaiting' <=> Awaiting
    PROVE  RenewalTracked'
<1>1. toClient \in Seq(ChunkRecord) /\ toClient' \in Seq(ChunkRecord)
  BY QueuesTyped, SeqTail
<1>2. SameKeys(server, server')
  BY SameEnd
<1>3. /\ Agree' <=> Agree
      /\ \A c : Known(c)' <=> Known(c)
      /\ server'.local \in DOMAIN client'.remote <=> server.local \in DOMAIN client.remote
      /\ \A c : Answers(c)' <=> Answers(c)
  BY <1>2, EndsKept, AnswersKept
<1>4. \A j \in DOMAIN toClient' : j + 1 \in DOMAIN toClient /\ toClient'[j] = toClient[j + 1]
  BY <1>1, TailFacts
<1>5. Clear(toClient) => Clear(toClient)'
  BY <1>1, ClearTail, Zenon
<1>6. (\A k \in DOMAIN toClient : Known(toClient[k])) => (\A k \in DOMAIN toClient : Known(toClient[k]))'
  BY <1>3, <1>4, Zenon
<1>7. Clear(serverOut)' <=> Clear(serverOut)
  BY DEF Clear
<1>8. Asked => Asked'
  BY <1>3, <1>5, <1>6, <1>7, Zenon DEF Asked
<1>9. Clear(outgoing)' <=> Clear(outgoing)
  BY DEF Clear
<1>10. Clear(clientOut)' <=> Clear(clientOut)
  BY DEF Clear
<1>11. Clear(toServer)' <=> Clear(toServer)
  BY DEF Clear
<1>12. RenewIn(clientOut)' <=> RenewIn(clientOut)
  BY DEF RenewIn, OnlyAt
<1>13. RenewIn(toServer)' <=> RenewIn(toServer)
  BY DEF RenewIn, OnlyAt
<1>14. Served => Served'
  BY <1>9, <1>10, <1>11 DEF Served
<1>15. NoRenew => NoRenew'
  BY <1>8, <1>9, <1>10, <1>11 DEF NoRenew
<1>16. Queued => Queued'
  BY <1>8, <1>10, <1>11 DEF Queued, OnlyAt
<1>17. (Written => Written') /\ (OnWire => OnWire')
  BY <1>8, <1>9, <1>10, <1>11, <1>12, <1>13 DEF Written, OnWire
<1>18. Answered => Answered'
  BY <1>3, <1>5, <1>6, <1>14, Zenon DEF Answered
<1>19. Returned => Returned'
  <2>1. SUFFICES ASSUME Returned PROVE Returned'
    OBVIOUS
  <2>2. PICK k \in DOMAIN toClient :
          /\ OnlyAt(toClient, k) /\ Answers(toClient[k])
          /\ \A j \in DOMAIN toClient : j < k => Known(toClient[j])
          /\ \A j \in DOMAIN toClient : j > k =>
               IF toClient[k].body.grant = 0 THEN Known(toClient[j])
               ELSE Honest(toClient[j]) => toClient[j].token = server.token
    BY <2>1, Zenon DEF Returned
  <2>3. OnlyAt(toClient', k - 1) /\ toClient'[k - 1] = toClient[k] /\ k \in Int
    BY <1>1, <2>2, OnlyTail, Zenon
  <2>4. PICK n \in Int : n = k - 1
    BY <2>3
  <2>5. n \in DOMAIN toClient' /\ OnlyAt(toClient', n) /\ toClient'[n] = toClient[k]
    BY <2>3, <2>4, Zenon DEF OnlyAt
  <2>6. \A j \in DOMAIN toClient' : (j < n => j + 1 < k) /\ (j > n => j + 1 > k)
    <3>1. DOMAIN toClient' = 1..Len(toClient') /\ Len(toClient') \in Nat
      BY <1>1, SeqFacts
    <3> QED
      BY <2>3, <2>4, <3>1
  <2>7. Answers(toClient[n])'
    BY <1>3, <2>2, <2>5, Zenon
  <2>8. (\A j \in DOMAIN toClient : j < n => Known(toClient[j]))'
    BY <1>3, <1>4, <2>2, <2>6, Zenon
  <2>9. (\A j \in DOMAIN toClient : j > n =>
               IF toClient[n].body.grant = 0 THEN Known(toClient[j])
               ELSE Honest(toClient[j]) => toClient[j].token = server.token)'
    BY <1>3, <1>4, <2>2, <2>5, <2>6, Zenon
  <2>10. Served' /\ Clear(serverOut)'
    BY <1>7, <1>14, <2>1, Zenon DEF Returned
  <2> QED
    BY <2>5, <2>7, <2>8, <2>9, <2>10, Zenon DEF Returned
<1>20. Open' <=> Open
  BY DEF Open
<1> QED
  BY <1>15, <1>16, <1>17, <1>18, <1>19, <1>20, Zenon DEF RenewalTracked

LEMMA ClientReadStep ==
    ASSUME IInv, ClientRead
    PROVE  IInv'
<1>0. Typed /\ OneRenewer /\ NumbersFollow /\ RenewalTracked /\ Judged
  BY Zenon DEF IInv
<1>1. PICK h : h = Head(toClient)
  OBVIOUS
<1>2. /\ Open /\ toClient # <<>> /\ toClient' = Tail(toClient) /\ h.kind # "OPN"
      /\ client' = Received(client, h)
      /\ UNCHANGED <<now, server, outgoing, clientOut, serverOut, toServer, pc, renewing, answer, awaited,
                     renewals, status, rejected, abandoned, refused>>
  BY <1>1 DEF ClientRead, calls, ended
<1>3. toClient \in Seq(ChunkRecord) /\ IsEnd(client) /\ KeysNamed(client)
  BY <1>0, QueuesTyped
<1>4. h \in ChunkRecord /\ toClient' \in Seq(ChunkRecord)
  BY <1>1, <1>2, <1>3, SeqTail
<1>5. /\ IsEnd(client') /\ SameKeys(client, client') /\ client'.send = client.send
      /\ client'.receive.legacy = client.receive.legacy
      /\ client'.receive.current = After(client.receive.legacy, h.number)
  BY <1>2, <1>3, <1>4, ReceivedFacts
<1>6. Typed'
  <2>1. KeysNamed(client')
    BY <1>3, <1>5, NamedKept
  <2> QED
    BY <1>0, <1>2, <1>4, <1>5, <2>1, Zenon DEF Typed
<1>7. OneRenewer' /\ (Awaiting' <=> Awaiting)
  BY <1>0, <1>2, CallersKept
<1>8. NumbersFollow'
  BY <1>0, <1>1, <1>2, <1>5, ClientTakes DEF Open
<1>9. RenewalTracked'
  BY <1>0, <1>1, <1>2, <1>5, <1>7, TrackedClientRead
<1>10. Judged'
  BY <1>0, <1>2, JudgedKept, SameEnd
<1> QED
  BY <1>6, <1>7, <1>8, <1>9, <1>10, Zenon DEF IInv

\* The answer to the Renew is taken: the two ends agree again, or it was refused.
LEMMA TrackedReadOpen ==
    ASSUME Typed, RenewalTracked, Open, toClient # <<>>, toClient' = Tail(toClient),
           NEW h, h = Head(toClient), h.kind = "OPN",
           awaited = h.body.req => /\ awaited' = 0 /\ answer' # "none"
                                   /\ h.body.grant = 0 => SameKeys(client, client')
                                   /\ h.body.grant # 0 =>
                                        /\ client'.token = h.body.grant /\ client'.local = h.body.grant
                                        /\ h.body.grant \in DOMAIN client'.remote,
           UNCHANGED <<server, outgoing, clientOut, serverOut, toServer, renewals, refused, abandoned>>
    PROVE  RenewalTracked'
<1>1. toClient \in Seq(ChunkRecord)
  BY QueuesTyped
<1>2. SUFFICES ASSUME ~abandoned PROVE ~Awaiting' /\ NoRenew'
  BY Zenon DEF RenewalTracked
<1>3. ~Clear(toClient)
  BY <1>1, ClearTail, Zenon
<1>4. Returned
  BY <1>2, <1>3, Zenon DEF RenewalTracked, NoRenew, Queued, Written, OnWire, Answered, Asked
<1>5. PICK k \in DOMAIN toClient :
        /\ OnlyAt(toClient, k) /\ Answers(toClient[k])
        /\ \A j \in DOMAIN toClient : j > k =>
             IF toClient[k].body.grant = 0 THEN Known(toClient[j])
             ELSE Honest(toClient[j]) => toClient[j].token = server.token
  BY <1>4, Zenon DEF Returned
<1>6. k = 1 /\ Clear(toClient)' /\ h = toClient[k]
  BY <1>1, <1>5, OnlyTail, Zenon
<1>7. Served /\ Clear(serverOut) /\ Answers(h)
  BY <1>4, <1>5, <1>6, Zenon DEF Returned
<1>8. awaited = h.body.req
  BY <1>7, Zenon DEF Served, Answers
<1>9. Clear(outgoing)' /\ Clear(clientOut)' /\ Clear(toServer)' /\ Clear(serverOut)' /\ awaited' = 0
  BY <1>7, <1>8 DEF Served, Clear
<1>10. ~Awaiting'
  BY <1>8, Zenon DEF Awaiting
<1>11. \A j \in DOMAIN toClient' : j + 1 \in DOMAIN toClient /\ j + 1 > k /\ toClient'[j] = toClient[j + 1]
  <2>1. \A j \in DOMAIN toClient' : j + 1 \in DOMAIN toClient /\ j + 1 # 1 /\ toClient'[j] = toClient[j + 1]
    BY <1>1, TailFacts
  <2>2. \A j \in DOMAIN toClient : j # 1 => j > k
    <3>1. DOMAIN toClient = 1..Len(toClient) /\ Len(toClient) \in Nat
      BY <1>1, SeqFacts
    <3> QED
      BY <1>6, <3>1
  <2> QED
    BY <2>1, <2>2, Zenon
<1>12. Asked'
  <2>1. CASE h.body.grant = 0
    <3>1. SameKeys(client, client') /\ SameKeys(server, server')
      BY <1>8, <2>1, SameEnd, Zenon
    <3>2. /\ \A c : Known(c)' <=> Known(c)
          /\ server'.local \in DOMAIN client'.remote <=> server.local \in DOMAIN client.remote
      BY <3>1, EndsKept
    <3>3. refused /\ server.local \in DOMAIN client.remote
      BY <1>7, <2>1, Zenon DEF Answers
    <3>4. (\A j \in DOMAIN toClient : Known(toClient[j]))'
      BY <1>5, <1>6, <1>11, <2>1, <3>2, Zenon
    <3> QED
      BY <1>6, <1>9, <3>2, <3>3, <3>4, Zenon DEF Asked
  <2>2. CASE h.body.grant # 0
    <3>1. /\ client'.token = h.body.grant /\ client'.local = h.body.grant
          /\ h.body.grant \in DOMAIN client'.remote
      BY <1>8, <2>2, Zenon
    <3>2. /\ h.body.grant = server.token /\ server.local = server.token
          /\ server.token \in DOMAIN server.remote
      BY <1>7, <2>2, Zenon DEF Answers
    <3>3. Agree' /\ server'.local \in DOMAIN client'.remote
      BY <3>1, <3>2, Zenon DEF Agree
    <3>4. \A j \in DOMAIN toClient' : Honest(toClient'[j]) => toClient'[j].token = server.token
      BY <1>5, <1>6, <1>11, <2>2, Zenon
    <3>5. (\A j \in DOMAIN toClient : Known(toClient[j]))'
      BY <3>1, <3>2, <3>4, Zenon DEF Known
    <3> QED
      BY <1>6, <1>9, <3>3, <3>5, Zenon DEF Asked
  <2> QED
    BY <2>1, <2>2
<1> QED
  BY <1>9, <1>10, <1>12, Zenon DEF NoRenew

\* end_issue_or_renew_secure_channel
LEMMA EndRenewFacts ==
    ASSUME Typed, NEW t \in Nat \ {0}, NEW at, NEW e, e = EndRenew(t, at)
    PROVE  /\ IsEnd(e) /\ KeysNamed(e) /\ e.token = t /\ e.local = t /\ t \in DOMAIN e.remote
           /\ e.send = client.send /\ e.receive = client.receive
<1>1. IsEnd(client) /\ KeysNamed(client)
  BY QueuesTyped
<1>2. PICK f : f = SetSecurityToken(client, t, at)
  OBVIOUS
<1>3. /\ IsEnd(f) /\ KeysNamed(f) /\ f.token = t /\ f.send = client.send /\ f.receive = client.receive
  BY <1>1, <1>2, TokenFacts
<1>4. e = DeriveKeys(f, f.token, now)
  BY <1>2, <1>3, Zenon DEF EndRenew
<1>5. /\ IsEnd(e) /\ KeysNamed(e) /\ e.token = f.token /\ e.local = f.token
      /\ e.token \in DOMAIN e.remote /\ e.send = f.send /\ e.receive = f.receive
  BY <1>3, <1>4, DeriveFacts
<1> QED
  BY <1>3, <1>5, Zenon

LEMMA ClientReadOpenStep ==
    ASSUME IInv, ClientReadOpen
    PROVE  IInv'
<1>0. Typed /\ OneRenewer /\ NumbersFollow /\ RenewalTracked /\ Judged
  BY Zenon DEF IInv
<1>1. PICK h : h = Head(toClient)
  OBVIOUS
<1>2. PICK e : e = IF awaited = h.body.req /\ h.body.grant # 0 THEN EndRenew(h.body.grant, h.body.at)
                   ELSE client
  OBVIOUS
<1>3. /\ Open /\ toClient # <<>> /\ toClient' = Tail(toClient) /\ h.kind = "OPN"
      /\ client' = Received(e, h)
      /\ awaited' = (IF awaited = h.body.req THEN 0 ELSE awaited)
      /\ awaited = h.body.req => answer' # "none"
      /\ UNCHANGED <<now, server, outgoing, clientOut, serverOut, toServer, pc, renewing,
                     renewals, status, rejected, abandoned, refused>>
  <2>1. /\ Open /\ toClient # <<>> /\ h.kind = "OPN" /\ AnswerRenew(h.body)
        /\ UNCHANGED <<now, server, outgoing, clientOut, serverOut, toServer, pc, renewing,
                       renewals, status, rejected, abandoned, refused>>
    BY <1>1 DEF ClientReadOpen, ended
  <2>2. /\ toClient' = Tail(toClient) /\ client' = Received(e, h)
        /\ awaited' = IF awaited = h.body.req THEN 0 ELSE awaited
        /\ answer' = IF awaited = h.body.req THEN (IF h.body.grant = 0 THEN "fault" ELSE "token")
                     ELSE answer
    BY <1>1, <1>2, <2>1, Zenon DEF AnswerRenew
  <2>3. awaited = h.body.req => answer' # "none"
    BY <2>2
  <2> QED
    BY <2>1, <2>2, <2>3, Zenon
<1>4. toClient \in Seq(ChunkRecord) /\ IsEnd(client) /\ KeysNamed(client)
  BY <1>0, QueuesTyped
<1>5. h \in ChunkRecord /\ toClient' \in Seq(ChunkRecord)
  BY <1>1, <1>3, <1>4, SeqTail
<1>6. h.body.grant \in Nat
  BY <1>5 DEF ChunkRecord
<1>7. /\ IsEnd(e) /\ KeysNamed(e) /\ e.send = client.send /\ e.receive = client.receive
      /\ awaited = h.body.req /\ h.body.grant # 0 =>
           e.token = h.body.grant /\ e.local = h.body.grant /\ h.body.grant \in DOMAIN e.remote
      /\ h.body.grant = 0 => e = client
  <2>1. CASE awaited = h.body.req /\ h.body.grant # 0
    <3>1. PICK t, at : t = h.body.grant /\ at = h.body.at
      OBVIOUS
    <3>2. t \in Nat \ {0} /\ e = EndRenew(t, at)
      BY <1>2, <1>6, <2>1, <3>1
    <3>3. /\ IsEnd(e) /\ KeysNamed(e) /\ e.token = t /\ e.local = t /\ t \in DOMAIN e.remote
          /\ e.send = client.send /\ e.receive = client.receive
      BY <1>0, <3>2, EndRenewFacts
    <3> QED
      BY <2>1, <3>1, <3>3, Zenon
  <2>2. CASE ~(awaited = h.body.req /\ h.body.grant # 0)
    <3>1. e = client
      BY <1>2, <2>2, Zenon
    <3> QED
      BY <1>4, <2>2, <3>1, Zenon
  <2> QED
    BY <2>1, <2>2
<1>8. /\ IsEnd(client') /\ SameKeys(e, client') /\ client'.send = e.send
      /\ client'.receive.legacy = e.receive.legacy
      /\ client'.receive.current = After(e.receive.legacy, h.number)
  BY <1>3, <1>5, <1>7, ReceivedFacts
<1>9. Typed'
  <2>1. KeysNamed(client')
    BY <1>7, <1>8, NamedKept
  <2> QED
    BY <1>0, <1>3, <1>5, <1>8, <2>1, Zenon DEF Typed
<1>10. OneRenewer'
  BY <1>0, <1>3, CallersKept
<1>11. NumbersFollow'
  BY <1>0, <1>1, <1>3, <1>7, <1>8, ClientTakes DEF Open
<1>12. RenewalTracked'
  <2>1. h.body.grant = 0 => SameKeys(client, client')
    BY <1>7, <1>8, Zenon
  <2>2. awaited = h.body.req /\ h.body.grant # 0 =>
          /\ client'.token = h.body.grant /\ client'.local = h.body.grant
          /\ h.body.grant \in DOMAIN client'.remote
    BY <1>7, <1>8, Zenon DEF SameKeys
  <2> QED
    BY <1>0, <1>1, <1>3, <2>1, <2>2, TrackedReadOpen
<1>13. Judged'
  BY <1>0, <1>3, JudgedKept, SameEnd
<1> QED
  BY <1>9, <1>10, <1>11, <1>12, <1>13, Zenon DEF IInv

-----------------------------------------------------------------------------
(***************************************************************************)
(* A chunk is rejected.                                                    *)
(***************************************************************************)

LEMMA ClientRejectsStep ==
    ASSUME IInv, ClientRejects
    PROVE  IInv'
<1>0. Typed /\ OneRenewer /\ NumbersFollow /\ RenewalTracked /\ Judged
  BY Zenon DEF IInv
<1>1. PICK h : h = Head(toClient)
  OBVIOUS
<1>2. /\ Open /\ toClient # <<>> /\ toClient' = Tail(toClient) /\ ~Takes(client, h)
      /\ rejected' = h /\ status' = (IF Verifies(client, h) THEN "number" ELSE "client")
      /\ UNCHANGED <<now, client, server, outgoing, clientOut, serverOut, toServer, pc, renewing, answer,
                     renewals, abandoned>>
  BY <1>1 DEF ClientRejects, Reject, calls
<1>3. toClient \in Seq(ChunkRecord) /\ IsEnd(client) /\ KeysNamed(client)
  BY <1>0, QueuesTyped
<1>4. h \in ChunkRecord /\ toClient' \in Seq(ChunkRecord) /\ h = toClient[1]
  BY <1>1, <1>2, <1>3, SeqTail
<1>5. InOrder(client, h)
  <2>1. Stream(toClient, serverOut, server.send, client.receive)
    BY <1>0, <1>2, Zenon DEF NumbersFollow
  <2>2. h.number = client.receive.current
    BY <1>2, <1>3, <1>4, <2>1, StreamRead, Zenon
  <2> QED
    BY <2>2, Zenon DEF InOrder, Expected
<1>6. ~Verifies(client, h) /\ status' = "client"
  BY <1>2, <1>5, Zenon DEF Takes
<1>7. h.kind # "OPN" /\ ~(h.token \in DOMAIN client.remote /\ client.remote[h.token].keys = h.keys)
  BY <1>6, Zenon DEF Verifies
<1>8. h.token # h.keys \/ abandoned
  <2>1. SUFFICES ASSUME ~abandoned, h.token = h.keys PROVE FALSE
    OBVIOUS
  <2>2. Known(h)
    BY <1>0, <1>1, <1>2, <1>7, <2>1, HeadKnown
  <2>3. h.token \in DOMAIN client.remote
    BY <1>7, <2>1, <2>2, Zenon DEF Known, Honest
  <2> QED
    BY <1>3, <1>7, <2>1, <2>3, Zenon DEF KeysNamed
<1>9. ~Open'
  BY <1>6 DEF Open
<1>10. Typed'
  BY <1>0, <1>2, <1>4, Zenon DEF Typed
<1>11. OneRenewer'
  BY <1>0, <1>2, CallersKept
<1>12. NumbersFollow' /\ RenewalTracked'
  BY <1>9, Zenon DEF NumbersFollow, RenewalTracked
<1>13. Judged'
  BY <1>2, <1>6, <1>8 DEF Judged
<1> QED
  BY <1>10, <1>11, <1>12, <1>13, Zenon DEF IInv

LEMMA ServerRejectsStep ==
    ASSUME IInv, ServerRejects
    PROVE  IInv'
<1>0. Typed /\ OneRenewer /\ NumbersFollow /\ RenewalTracked /\ Judged
  BY Zenon DEF IInv
<1>1. PICK h : h = Head(toServer)
  OBVIOUS
<1>2. /\ Open /\ toServer # <<>> /\ toServer' = Tail(toServer) /\ ~Takes(server, h)
      /\ rejected' = h /\ status' = (IF Verifies(server, h) THEN "number" ELSE "server")
      /\ UNCHANGED <<now, client, server, outgoing, clientOut, serverOut, toClient, pc, renewing, answer,
                     renewals, abandoned>>
  BY <1>1 DEF ServerRejects, Reject, calls
<1>3. toServer \in Seq(ChunkRecord) /\ IsEnd(server) /\ KeysNamed(server)
  BY <1>0, QueuesTyped
<1>4. h \in ChunkRecord /\ toServer' \in Seq(ChunkRecord) /\ h = toServer[1]
  BY <1>1, <1>2, <1>3, SeqTail
<1>5. Legacy => ~Verifies(server, h)
  <2>1. SUFFICES ASSUME Legacy PROVE InOrder(server, h)
    BY <1>2, Zenon DEF Takes
  <2>2. Stream(toServer, clientOut, client.send, server.receive)
    BY <1>0, <1>2, <2>1, Zenon DEF NumbersFollow
  <2>3. h.number = server.receive.current
    BY <1>2, <1>3, <1>4, <2>2, StreamRead, Zenon
  <2> QED
    BY <2>3, Zenon DEF InOrder, Expected
<1>6. ~Verifies(server, h) => h.token # h.keys \/ h.token \notin DOMAIN server.remote
  BY <1>3, Zenon DEF Verifies, KeysNamed
<1>7. ~Open'
  BY <1>2 DEF Open
<1>8. Typed'
  BY <1>0, <1>2, <1>4, Zenon DEF Typed
<1>9. OneRenewer'
  BY <1>0, <1>2, CallersKept
<1>10. NumbersFollow' /\ RenewalTracked'
  BY <1>7, Zenon DEF NumbersFollow, RenewalTracked
<1>11. Judged'
  BY <1>2, <1>5, <1>6 DEF Judged
<1> QED
  BY <1>8, <1>9, <1>10, <1>11, Zenon DEF IInv

-----------------------------------------------------------------------------
(***************************************************************************)
(* The invariant holds at first, and every step keeps it.                  *)
(***************************************************************************)

LEMMA IssuedFacts ==
    ASSUME NEW s \in BOOLEAN, NEW r \in BOOLEAN, NEW e, e = Issued(s, r)
    PROVE  /\ IsEnd(e) /\ KeysNamed(e) /\ e.token = 1 /\ e.local = 1 /\ 1 \in DOMAIN e.remote
           /\ e.send.legacy = s /\ e.send.current = After(s, NewHandle(s).current)
           /\ e.receive.legacy = r /\ e.receive.current = After(r, NewHandle(s).current)
<1>1. /\ NewHandle(s) \in Handle /\ NewHandle(s).legacy = s
      /\ NewHandle(r) \in Handle /\ NewHandle(r).legacy = r
  BY DEF NewHandle, Handle
<1>2. PICK a, b : a = Increment(NewHandle(s), 1) /\ b = Validated(NewHandle(r), NewHandle(s).current)
  OBVIOUS
<1>3. NewHandle(s).current \in Int
  BY <1>1, HandleFields
<1>4. /\ a \in Handle /\ a.legacy = s /\ a.current = After(s, NewHandle(s).current)
  BY <1>1, <1>2, IncrementFacts
<1>5. /\ b \in Handle /\ b.legacy = r /\ b.current = After(r, NewHandle(s).current)
  BY <1>1, <1>2, <1>3, ValidatedFacts
<1>6. PICK f : f = [token |-> 1, created |-> 0, local |-> 1, remote |-> <<>>, send |-> a, receive |-> b]
  OBVIOUS
<1>7. /\ IsEnd(f) /\ f.token = 1 /\ f.local = 1 /\ f.remote = <<>> /\ f.send = a /\ f.receive = b
  BY <1>4, <1>5, <1>6 DEF IsEnd
<1>8. KeysNamed(f)
  BY <1>7 DEF KeysNamed
<1>9. f = [f EXCEPT !.local = f.token]
  BY <1>6
<1>10. e = DeriveKeys(f, f.token, 0)
  BY <1>2, <1>6, <1>7, <1>9, Zenon DEF Issued, DeriveKeys
<1>11. /\ IsEnd(e) /\ KeysNamed(e) /\ e.token = f.token /\ e.local = f.token
       /\ e.token \in DOMAIN e.remote /\ e.send = f.send /\ e.receive = f.receive
  BY <1>7, <1>8, <1>10, DeriveFacts
<1> QED
  BY <1>4, <1>5, <1>7, <1>11, Zenon

LEMMA IInvInit == Init => IInv
<1>1. SUFFICES ASSUME Init PROVE IInv
  OBVIOUS
<1>2. /\ client = Issued(Legacy, Legacy) /\ server = Issued(Legacy, TRUE) /\ Legacy \in BOOLEAN
      /\ TRUE \in BOOLEAN
  BY <1>1, ConstantsOK DEF Init
<1>3. /\ IsEnd(client) /\ KeysNamed(client) /\ client.token = 1 /\ client.local = 1
      /\ 1 \in DOMAIN client.remote
      /\ client.send.legacy = Legacy /\ client.send.current = After(Legacy, NewHandle(Legacy).current)
      /\ client.receive.legacy = Legacy /\ client.receive.current = After(Legacy, NewHandle(Legacy).current)
  BY <1>2, IssuedFacts, Zenon
<1>4. /\ IsEnd(server) /\ KeysNamed(server) /\ server.token = 1 /\ server.local = 1
      /\ 1 \in DOMAIN server.remote
      /\ server.send.legacy = Legacy /\ server.send.current = After(Legacy, NewHandle(Legacy).current)
      /\ server.receive.legacy = TRUE /\ server.receive.current = After(TRUE, NewHandle(Legacy).current)
  BY <1>2, IssuedFacts, Zenon
<1>5. /\ outgoing = <<>> /\ clientOut = <<>> /\ serverOut = <<>> /\ toServer = <<>> /\ toClient = <<>>
      /\ now = 0 /\ renewals = 0 /\ awaited = 0 /\ answer = "none" /\ renewing = FALSE
      /\ pc = [p \in Callers |-> "idle"] /\ status = "open" /\ ~abandoned /\ ~refused
  BY <1>1 DEF Init
<1>6. Typed
  BY <1>3, <1>4, <1>5 DEF Typed
<1>7. OneRenewer
  BY <1>5 DEF OneRenewer, Renewer
<1>8. \A l, n : Chain(l, <<>>, n) /\ Start(<<>>, n) = n
  BY DEF Chain, Start
<1>9. NumbersFollow
  <2>1. Stream(toClient, serverOut, server.send, client.receive)
    BY <1>3, <1>4, <1>5, <1>8, Zenon DEF Stream
  <2>2. Legacy => Stream(toServer, clientOut, client.send, server.receive)
    <3>1. Legacy => Legacy = TRUE
      BY <1>2
    <3> QED
      BY <1>3, <1>4, <1>5, <1>8, <3>1, Zenon DEF Stream
  <2> QED
    BY <2>1, <2>2, Zenon DEF NumbersFollow
<1>10. RenewalTracked
  <2>1. ~Awaiting
    BY <1>5 DEF Awaiting
  <2>2. Clear(outgoing) /\ Clear(clientOut) /\ Clear(serverOut) /\ Clear(toServer) /\ Clear(toClient)
    BY <1>5 DEF Clear
  <2>3. Agree /\ server.local \in DOMAIN client.remote
    BY <1>3, <1>4, Zenon DEF Agree
  <2>4. \A k \in DOMAIN toClient : Known(toClient[k])
    BY <1>5
  <2> QED
    BY <1>5, <2>1, <2>2, <2>3, <2>4, Zenon DEF RenewalTracked, NoRenew, Asked
<1>11. Judged
  BY <1>5 DEF Judged
<1> QED
  BY <1>6, <1>7, <1>9, <1>10, <1>11, Zenon DEF IInv

LEMMA IInvStep == IInv /\ [Next]_vars => IInv'
<1>1. SUFFICES ASSUME IInv, [Next]_vars PROVE IInv'
  OBVIOUS
<1>2. CASE \E p \in Callers : Call(p)
  BY <1>1, <1>2, CallStep
<1>3. CASE Transport
  BY <1>1, <1>3, ClientWriteStep, ClientEncodeStep, ClientReadOpenStep, ClientReadStep, ClientRejectsStep
     DEF Transport
<1>4. CASE Connection
  BY <1>1, <1>4, ServerReadOpenStep, ServerRefusesOpenStep, ServerReadStep, ServerRejectsStep,
     ServerRespondStep, ServerEncodeStep
     DEF Connection
<1>5. CASE Clock \/ UNCHANGED vars
  <2>1. /\ UNCHANGED <<conn, calls, ended>> /\ (now' = now \/ now' = now + 1)
    BY <1>5 DEF Clock, vars
  <2>2. /\ UNCHANGED <<client, server, outgoing, clientOut, serverOut, toServer, toClient, pc, renewing,
                       answer, awaited, renewals, status, rejected, abandoned, refused>>
    BY <2>1 DEF conn, calls, ended
  <2>3. Typed /\ OneRenewer /\ NumbersFollow /\ RenewalTracked /\ Judged
    BY <1>1, Zenon DEF IInv
  <2>4. Typed'
    <3>1. now' \in Nat
      BY <2>1, <2>3 DEF Typed
    <3> QED
      BY <2>2, <2>3, <3>1, Zenon DEF Typed
  <2>5. OneRenewer' /\ (Awaiting' <=> Awaiting)
    BY <2>2, <2>3, CallersKept
  <2>6. NumbersFollow'
    BY <2>2, <2>3, NumbersKept DEF Open
  <2>7. SameKeys(client, client') /\ SameKeys(server, server')
    BY <2>2, SameEnd
  <2>8. RenewalTracked'
    BY <2>2, <2>3, <2>5, <2>7, TrackedKept DEF Open
  <2>9. Judged'
    BY <2>2, <2>3, <2>7, JudgedKept
  <2> QED
    BY <2>4, <2>5, <2>6, <2>8, <2>9, Zenon DEF IInv
<1> QED
  BY <1>1, <1>2, <1>3, <1>4, <1>5, Zenon DEF Next

LEMMA Invariant == Spec => []IInv
  BY IInvInit, IInvStep, PTL DEF Spec

-----------------------------------------------------------------------------
(***************************************************************************)
(* The theorems.                                                           *)
(***************************************************************************)

\* Whatever the callers, the two transport tasks and the clock do, once no renewal is
\* under way, none was given up and none refused, the client and the server secure with
\* the same token and each holds the keys of the other (send and
\* end_issue_or_renew_secure_channel on the client, open_secure_channel on the server).
THEOREM EndsAlwaysAgree == Spec => []EndsAgree
<1>1. IInv => EndsAgree
  <2>1. SUFFICES ASSUME IInv, Open, ~Exchanging
                 PROVE  /\ client.token = server.token
                        /\ client.token \in DOMAIN server.remote /\ server.token \in DOMAIN client.remote
                        /\ server.remote[client.token].keys = client.local
                        /\ client.remote[server.token].keys = server.local
    BY Zenon DEF EndsAgree
  <2>2. ~Awaiting /\ ~abandoned /\ ~refused
    BY <2>1, Zenon DEF Exchanging, Awaiting
  <2>3. NoRenew
    BY <2>1, <2>2, Zenon DEF IInv, RenewalTracked
  <2>4. Agree
    BY <2>2, <2>3, Zenon DEF NoRenew, Asked
  <2>5. KeysNamed(client) /\ KeysNamed(server)
    BY <2>1, QueuesTyped DEF IInv
  <2> QED
    BY <2>4, <2>5, Zenon DEF Agree, KeysNamed
<1> QED
  BY <1>1, Invariant, PTL

\* With the numbering of the RSA policies at both ends no chunk is refused for its
\* sequence number, across every wrap-around; and a chunk whose header names the keys
\* that secured it is refused only by a server that has dropped those keys, or by a
\* client that has given up a Renew (verify_and_remove_security, validate_and_increment).
THEOREM HonestAlwaysAccepted == Legacy => (Spec => []HonestChunksAccepted)
<1>1. Legacy /\ IInv => HonestChunksAccepted
  BY Zenon DEF IInv, Judged, HonestChunksAccepted
<1>2. SUFFICES ASSUME Legacy PROVE Spec => []HonestChunksAccepted
  OBVIOUS
<1>3. IInv => HonestChunksAccepted
  BY <1>1, <1>2
<1> QED
  BY <1>3, Invariant, PTL
=============================================================================
