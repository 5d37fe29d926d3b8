----------------------- MODULE ServerConnectionProofs -----------------------
(***************************************************************************)
(* Proofs about ServerConnection for any number of requests, every limit   *)
(* on the requests in flight and every timeout.                            *)
(***************************************************************************)
EXTENDS ServerConnection, SequenceTheorems, TLAPS

-----------------------------------------------------------------------------
(***************************************************************************)
(* The inductive invariant.                                                *)
(***************************************************************************)

\* What a poll holds while it is suspended: a chunk only while its security is
\* awaited, with the send buffer empty; a frame only while it is verified; and
\* messages of a batch only after the socket has been read.
PollShape ==
    /\ IF poll.pc = "encoding" THEN Len(poll.chunk) = 1 /\ buffer = <<>> ELSE poll.chunk = <<>>
    /\ IF poll.pc = "verifying" THEN Len(poll.frame) = 1 ELSE poll.frame = <<>>
    /\ poll.batch # <<>> => poll.pc \in {"verifying", "drain", "process"}

\* The frames on the wire are the last ones sent.
FramesInOrder ==
    /\ Len(wireIn) <= sent
    /\ \A k \in DOMAIN wireIn : wireIn[k].id = sent - Len(wireIn) + k

\* Consecutive numbers from base + 1 on, and no error message.
Numbered(s, base) == \A k \in DOMAIN s : s[k].seq = base + k /\ s[k].kind # "err"
NoError(s) == \A k \in DOMAIN s : s[k].kind # "err"

\* What is written, in the buffer, being secured and queued is one sequence.
Whole ==
    /\ Numbered(out, 0)
    /\ Numbered(buffer, Len(out))
    /\ Numbered(poll.chunk, Len(out) + Len(buffer))
    /\ Numbered(chunks, Len(out) + Len(buffer) + Len(poll.chunk))
    /\ nextSeq = Len(out) + Len(buffer) + Len(poll.chunk) + Len(chunks) + 1

\* The error message has replaced the queue ...
ErrorQueued ==
    /\ Numbered(out, 0) /\ Numbered(buffer, Len(out)) /\ poll.chunk = <<>>
    /\ chunks # <<>>
    /\ \A k \in DOMAIN chunks : k > 1 => chunks[k].kind # "err"
    /\ chunks[1].kind = "err"

\* ... or is in the send buffer ...
ErrorBuffered ==
    /\ Numbered(out, 0) /\ poll.chunk = <<>> /\ NoError(chunks)
    /\ Len(buffer) = 1 /\ buffer[1].kind = "err"

\* ... or has been written; nothing after it is numbered any more.
ErrorWritten ==
    /\ NoError(buffer) /\ NoError(poll.chunk) /\ NoError(chunks)
    /\ \E e \in DOMAIN out :
         /\ out[e].kind = "err"
         /\ \A k \in DOMAIN out : k # e => out[k].kind # "err"
         /\ \A k \in DOMAIN out : k < e => out[k].seq = k

\* WireContiguousUnlessCancelled: there is one error message at most, and none
\* on a connection that runs.
SendInOrder ==
    "encode" \notin mishaps =>
      /\ Whole \/ ErrorQueued \/ ErrorBuffered \/ ErrorWritten
      /\ conn = "Running" => Whole

IInv ==
    /\ TypeOK /\ PollShape /\ FramesInOrder
    /\ SendInOrder
    /\ NoRequestForgotten

\* Types and shapes, which the other parts rest on.
Shape == TypeOK /\ PollShape /\ FramesInOrder

-----------------------------------------------------------------------------
(***************************************************************************)
(* Sequences.                                                              *)
(***************************************************************************)

LEMMA SeqFacts ==
    ASSUME NEW S, NEW s \in Seq(S)
    PROVE  /\ Len(s) \in Nat /\ DOMAIN s = 1..Len(s) /\ (s = <<>> <=> Len(s) = 0)
           /\ \A k \in DOMAIN s : s[k] \in S
  OBVIOUS

LEMMA SingletonFacts ==
    ASSUME NEW S, NEW e \in S
    PROVE  <<e>> \in Seq(S) /\ Len(<<e>>) = 1 /\ DOMAIN <<e>> = {1} /\ <<e>>[1] = e
  OBVIOUS

LEMMA AppendFacts ==
    ASSUME NEW S, NEW s \in Seq(S), NEW e \in S
    PROVE  /\ Append(s, e) \in Seq(S) /\ Len(Append(s, e)) = Len(s) + 1
           /\ \A k \in 1..Len(s) : Append(s, e)[k] = s[k]
           /\ Append(s, e)[Len(s) + 1] = e
  OBVIOUS

LEMMA TailFacts ==
    ASSUME NEW S, NEW s \in Seq(S), s # <<>>
    PROVE  /\ Head(s) \in S /\ Head(s) = s[1] /\ 1 \in DOMAIN s
           /\ Tail(s) \in Seq(S) /\ Len(Tail(s)) = Len(s) - 1
           /\ \A k \in 1..Len(s) - 1 : Tail(s)[k] = s[k + 1]
  OBVIOUS

LEMMA ConcatFacts ==
    ASSUME NEW S, NEW s \in Seq(S), NEW t \in Seq(S)
    PROVE  s \o t \in Seq(S) /\ Len(s \o t) = Len(s) + Len(t)
  OBVIOUS

LEMMA IdsInFacts ==
    ASSUME NEW s, NEW x
    PROVE  x \in IdsIn(s) <=> \E k \in DOMAIN s : s[k].id = x
  BY DEF IdsIn, ToSet

LEMMA IdsInAppend ==
    ASSUME NEW S, NEW s \in Seq(S), NEW e \in S
    PROVE  IdsIn(Append(s, e)) = IdsIn(s) \cup {e.id}
<1>1. DOMAIN s = 1..Len(s) /\ DOMAIN Append(s, e) = 1..(Len(s) + 1) /\ Len(s) \in Nat
      /\ (\A k \in 1..Len(s) : Append(s, e)[k] = s[k]) /\ Append(s, e)[Len(s) + 1] = e
  BY AppendFacts, SeqFacts
<1>2. \A k \in 1..(Len(s) + 1) : k \in 1..Len(s) \/ k = Len(s) + 1
  BY <1>1
<1>3. 1..Len(s) \subseteq 1..(Len(s) + 1) /\ Len(s) + 1 \in 1..(Len(s) + 1)
  BY <1>1
<1>4. \A x : x \in IdsIn(Append(s, e)) => x \in IdsIn(s) \cup {e.id}
  <2> TAKE x
  <2> HAVE x \in IdsIn(Append(s, e))
  <2>0. PICK k \in DOMAIN Append(s, e) : Append(s, e)[k].id = x
    BY IdsInFacts
  <2>1. k \in 1..(Len(s) + 1) /\ Append(s, e)[k].id = x
    BY <1>1, <2>0
  <2>2. CASE k \in 1..Len(s)
    BY <1>1, <2>1, <2>2, IdsInFacts
  <2>3. CASE k = Len(s) + 1
    BY <1>1, <2>1, <2>3
  <2> QED
    BY <1>2, <2>2, <2>3
<1>5. \A x : x \in IdsIn(s) \cup {e.id} => x \in IdsIn(Append(s, e))
  <2> TAKE x
  <2>1. ASSUME x \in IdsIn(s) PROVE x \in IdsIn(Append(s, e))
    <3>1. PICK k \in 1..Len(s) : s[k].id = x
      BY <1>1, <2>1, IdsInFacts
    <3>2. k \in DOMAIN Append(s, e) /\ Append(s, e)[k].id = x
      BY <1>1, <1>3, <3>1
    <3> QED
      BY <3>2, IdsInFacts
  <2>2. ASSUME x = e.id PROVE x \in IdsIn(Append(s, e))
    <3>1. Len(s) + 1 \in DOMAIN Append(s, e) /\ Append(s, e)[Len(s) + 1].id = x
      BY <1>1, <1>3, <2>2
    <3> QED
      BY <3>1, IdsInFacts
  <2> QED
    BY <2>1, <2>2
<1> QED
  BY <1>4, <1>5

LEMMA IdsInConcat ==
    ASSUME NEW S, NEW s \in Seq(S), NEW t \in Seq(S)
    PROVE  IdsIn(s \o t) = IdsIn(s) \cup IdsIn(t)
<1> DEFINE u == s \o t
           n == Len(s)
           m == Len(t)
<1>1. u \in Seq(S) /\ Len(u) = n + m
      /\ \A k \in 1..n + m : u[k] = IF k <= n THEN s[k] ELSE t[k - n]
  BY ConcatProperties
<1>2. n \in Nat /\ m \in Nat /\ DOMAIN s = 1..n /\ DOMAIN t = 1..m
  BY SeqFacts
<1>3. DOMAIN u = 1..(n + m)
  BY <1>1, SeqFacts
<1> HIDE DEF u, n, m
<1>4. \A k \in 1..n : k \in 1..(n + m) /\ u[k] = s[k]
  BY <1>1, <1>2
<1>5. \A k \in 1..m : n + k \in 1..(n + m) /\ u[n + k] = t[k]
  <2> TAKE k \in 1..m
  <2>1. n + k \in 1..(n + m) /\ ~(n + k <= n) /\ (n + k) - n = k
    BY <1>2
  <2> QED
    BY <1>1, <2>1
<1>6. \A k \in 1..(n + m) : (k \in 1..n /\ u[k] = s[k]) \/ (k - n \in 1..m /\ u[k] = t[k - n])
  BY <1>1, <1>2
<1>7. \A x : x \in IdsIn(u) => x \in IdsIn(s) \cup IdsIn(t)
  <2> TAKE x
  <2> HAVE x \in IdsIn(u)
  <2>1. PICK k \in 1..(n + m) : u[k].id = x
    BY <1>3, IdsInFacts
  <2>2. CASE k \in 1..n /\ u[k] = s[k]
    BY <1>2, <2>1, <2>2, IdsInFacts
  <2>3. CASE k - n \in 1..m /\ u[k] = t[k - n]
    BY <1>2, <2>1, <2>3, IdsInFacts
  <2> QED
    BY <1>6, <2>2, <2>3
<1>8. \A x : x \in IdsIn(s) \cup IdsIn(t) => x \in IdsIn(u)
  <2> TAKE x
  <2>1. ASSUME x \in IdsIn(s) PROVE x \in IdsIn(u)
    BY <1>2, <1>3, <1>4, <2>1, IdsInFacts
  <2>2. ASSUME x \in IdsIn(t) PROVE x \in IdsIn(u)
    BY <1>2, <1>3, <1>5, <2>2, IdsInFacts
  <2> QED
    BY <2>1, <2>2
<1>9. IdsIn(u) = IdsIn(s) \cup IdsIn(t)
  BY <1>7, <1>8
<1> QED
  BY <1>9 DEF u

LEMMA IdsInTail ==
    ASSUME NEW S, NEW s \in Seq(S), s # <<>>
    PROVE  IdsIn(s) = {Head(s).id} \cup IdsIn(Tail(s))
<1>1. /\ Head(s) = s[1] /\ 1 \in DOMAIN s /\ DOMAIN s = 1..Len(s) /\ Len(s) \in Nat \ {0}
      /\ DOMAIN Tail(s) = 1..(Len(s) - 1) /\ \A k \in 1..Len(s) - 1 : Tail(s)[k] = s[k + 1]
  BY TailFacts, SeqFacts
<1>2. \A k \in 1..Len(s) : k = 1 \/ (k - 1 \in 1..(Len(s) - 1) /\ (k - 1) + 1 = k)
  BY <1>1
<1>3. \A k \in 1..(Len(s) - 1) : k + 1 \in 1..Len(s)
  BY <1>1
<1>4. \A x : x \in IdsIn(s) => x \in {Head(s).id} \cup IdsIn(Tail(s))
  <2> TAKE x
  <2> HAVE x \in IdsIn(s)
  <2>1. PICK k \in 1..Len(s) : s[k].id = x
    BY <1>1, IdsInFacts
  <2>2. CASE k = 1
    BY <1>1, <2>1, <2>2
  <2>3. CASE k # 1
    <3>1. k - 1 \in 1..(Len(s) - 1) /\ Tail(s)[k - 1] = s[k]
      BY <1>1, <1>2, <2>3
    <3> QED
      BY <1>1, <2>1, <3>1, IdsInFacts
  <2> QED
    BY <2>2, <2>3
<1>5. \A x : x \in {Head(s).id} \cup IdsIn(Tail(s)) => x \in IdsIn(s)
  <2> TAKE x
  <2>1. ASSUME x = Head(s).id PROVE x \in IdsIn(s)
    BY <1>1, <2>1, IdsInFacts
  <2>2. ASSUME x \in IdsIn(Tail(s)) PROVE x \in IdsIn(s)
    <3>0. PICK k \in DOMAIN Tail(s) : Tail(s)[k].id = x
      BY <2>2, IdsInFacts
    <3>1. k \in 1..(Len(s) - 1) /\ Tail(s)[k].id = x
      BY <1>1, <3>0
    <3>2. k + 1 \in DOMAIN s /\ s[k + 1].id = x
      BY <1>1, <1>3, <3>1
    <3> QED
      BY <3>2, IdsInFacts
  <2> QED
    BY <2>1, <2>2
<1> QED
  BY <1>4, <1>5

LEMMA IdsInSmall ==
    /\ IdsIn(<<>>) = {}
    /\ \A e : IdsIn(<<e>>) = {e.id}
<1>1. DOMAIN <<>> = {} /\ \A e : DOMAIN <<e>> = {1} /\ <<e>>[1] = e
  OBVIOUS
<1> QED
  BY <1>1, IdsInFacts

LEMMA NumberedConcat ==
    ASSUME NEW s \in Seq(Chunk), NEW t \in Seq(Chunk), NEW base \in Nat,
           Numbered(s, base), Numbered(t, base + Len(s))
    PROVE  Numbered(s \o t, base)
<1> DEFINE u == s \o t
           n == Len(s)
           m == Len(t)
<1>1. u \in Seq(Chunk) /\ Len(u) = n + m
      /\ \A k \in 1..n + m : u[k] = IF k <= n THEN s[k] ELSE t[k - n]
  BY ConcatProperties
<1>2. n \in Nat /\ m \in Nat /\ DOMAIN s = 1..n /\ DOMAIN t = 1..m
  BY SeqFacts
<1>3. DOMAIN u = 1..(n + m)
  BY <1>1, SeqFacts
<1>4. (\A k \in 1..n : s[k].seq = base + k /\ s[k].kind # "err")
      /\ \A k \in 1..m : t[k].seq = (base + n) + k /\ t[k].kind # "err"
  BY <1>2 DEF Numbered
<1> HIDE DEF u, n, m
<1>5. \A k \in 1..(n + m) : u[k].seq = base + k /\ u[k].kind # "err"
  <2> TAKE k \in 1..(n + m)
  <2>1. CASE k <= n
    <3>1. k \in 1..n /\ u[k] = s[k]
      BY <1>1, <1>2, <2>1
    <3> QED
      BY <1>4, <3>1
  <2>2. CASE ~(k <= n)
    <3>1. k - n \in 1..m /\ u[k] = t[k - n] /\ (base + n) + (k - n) = base + k
      BY <1>1, <1>2, <2>2
    <3> QED
      BY <1>4, <3>1
  <2> QED
    BY <2>1, <2>2
<1> QED
  BY <1>3, <1>5 DEF Numbered, u

LEMMA NoErrorConcat ==
    ASSUME NEW s \in Seq(Chunk), NEW t \in Seq(Chunk), NoError(s), NoError(t)
    PROVE  NoError(s \o t)
<1>1. /\ DOMAIN (s \o t) = 1..(Len(s) + Len(t)) /\ Len(s) \in Nat /\ Len(t) \in Nat
      /\ \A k \in 1..Len(s) + Len(t) : (s \o t)[k] = IF k <= Len(s) THEN s[k] ELSE t[k - Len(s)]
      /\ DOMAIN s = 1..Len(s) /\ DOMAIN t = 1..Len(t)
  BY ConcatProperties, SeqFacts
<1>2. \A k \in 1..Len(s) + Len(t) : IF k <= Len(s) THEN k \in DOMAIN s ELSE k - Len(s) \in DOMAIN t
  BY <1>1
<1> QED
  BY <1>1, <1>2 DEF NoError

LEMMA NumberedTail ==
    ASSUME NEW s \in Seq(Chunk), s # <<>>, NEW base \in Nat, Numbered(s, base)
    PROVE  Numbered(<<Head(s)>>, base) /\ Numbered(Tail(s), base + 1)
<1>1. /\ Head(s) = s[1] /\ 1 \in DOMAIN s /\ DOMAIN s = 1..Len(s) /\ Len(s) \in Nat \ {0}
      /\ DOMAIN Tail(s) = 1..(Len(s) - 1) /\ \A k \in 1..Len(s) - 1 : Tail(s)[k] = s[k + 1]
  BY TailFacts, SeqFacts
<1>2. s[1].seq = base + 1 /\ s[1].kind # "err"
  BY <1>1 DEF Numbered
<1>3. Numbered(<<Head(s)>>, base)
  BY <1>1, <1>2 DEF Numbered
<1>4. \A k \in 1..(Len(s) - 1) : k + 1 \in DOMAIN s /\ base + (k + 1) = (base + 1) + k
  BY <1>1
<1>5. \A k \in 1..(Len(s) - 1) : Tail(s)[k].seq = (base + 1) + k /\ Tail(s)[k].kind # "err"
  BY <1>1, <1>4 DEF Numbered
<1> QED
  BY <1>1, <1>3, <1>5 DEF Numbered

LEMMA NoErrorTail ==
    ASSUME NEW s \in Seq(Chunk), s # <<>>, \A k \in DOMAIN s : k > 1 => s[k].kind # "err"
    PROVE  NoError(Tail(s))
<1>1. /\ DOMAIN s = 1..Len(s) /\ Len(s) \in Nat \ {0}
      /\ DOMAIN Tail(s) = 1..(Len(s) - 1) /\ \A k \in 1..Len(s) - 1 : Tail(s)[k] = s[k + 1]
  BY TailFacts, SeqFacts
<1>2. \A k \in 1..(Len(s) - 1) : k + 1 \in DOMAIN s /\ k + 1 > 1
  BY <1>1
<1> QED
  BY <1>1, <1>2 DEF NoError

-----------------------------------------------------------------------------
(***************************************************************************)
(* Types and shapes, by group of variables.                                *)
(***************************************************************************)

ClientOK == sent \in 0..MaxRequests /\ wireIn \in Seq(Frame) /\ eof \in BOOLEAN /\ FramesInOrder
ConnOK ==
    /\ conn \in {"Running", "Closing", "Closed"} /\ late \in BOOLEAN
    /\ mishaps \subseteq {"limit", "drain", "encode", "verify"}
RequestOK ==
    /\ DOMAIN pending \subseteq Ids
    /\ \A i \in DOMAIN pending : pending[i] \in {"running", "done", "panicked"}
    /\ DOMAIN deadlines \subseteq Ids
    /\ \A i \in DOMAIN deadlines : deadlines[i] \in 0..RequestTimeout
    /\ completed \subseteq Ids /\ signals \subseteq Ids
SendOK ==
    /\ responses \in Seq(Ids) /\ nextSeq \in Nat /\ out \in Seq(Chunk)
    /\ chunks \in Seq(Chunk) /\ buffer \in Seq(Chunk) /\ Len(buffer) <= 1
Poll == [pc : {"none", "encoding", "io", "verifying", "drain", "process"},
         chunk : Seq(Chunk), frame : Seq(Frame), batch : Seq(Frame)]
PollOK == poll \in Poll /\ PollShape

LEMMA Groups == Shape <=> ClientOK /\ ConnOK /\ RequestOK /\ SendOK /\ PollOK
  BY Zenon DEF Shape, TypeOK, ClientOK, ConnOK, RequestOK, SendOK, PollOK, Poll

LEMMA NoPollFacts ==
    NoPoll \in Poll /\ NoPoll.pc = "none" /\ NoPoll.chunk = <<>> /\ NoPoll.frame = <<>>
    /\ NoPoll.batch = <<>>
<1>1. <<>> \in Seq(Chunk) /\ <<>> \in Seq(Frame)
  OBVIOUS
<1> QED
  BY <1>1 DEF NoPoll, Poll

LEMMA ClientFrame ==
    ASSUME ClientOK, UNCHANGED clientVars
    PROVE  ClientOK'
  BY DEF ClientOK, clientVars, FramesInOrder

LEMMA RequestFrame ==
    ASSUME RequestOK, UNCHANGED requestVars
    PROVE  RequestOK'
  BY DEF RequestOK, requestVars

LEMMA SendFrame ==
    ASSUME SendOK, UNCHANGED sendVars
    PROVE  SendOK'
  BY DEF SendOK, sendVars

LEMMA PollFrame ==
    ASSUME PollOK, UNCHANGED <<poll, buffer>>
    PROVE  PollOK'
  BY DEF PollOK, PollShape

\* The poll is over.
LEMMA PollEnds ==
    ASSUME poll' = NoPoll
    PROVE  PollOK'
  BY NoPollFacts DEF PollOK, PollShape

\* Another arm of the select! has dropped the poll.
LEMMA DropFacts ==
    ASSUME PollOK, ConnOK, DropPoll
    PROVE  /\ PollOK' /\ poll' = NoPoll /\ conn # "Closed"
           /\ mishaps \subseteq mishaps' /\ mishaps' \subseteq {"limit", "drain", "encode", "verify"}
           /\ poll.chunk # <<>> => "encode" \in mishaps'
           /\ poll.frame # <<>> => "verify" \in mishaps'
           /\ poll.batch # <<>> => "verify" \in mishaps'
<1>1. poll' = NoPoll /\ conn # "Closed" /\ poll.pc \in {"none", "encoding", "io", "verifying"}
      /\ mishaps' = mishaps \union (IF poll.pc = "encoding" THEN {"encode"} ELSE {})
                            \union (IF poll.pc = "verifying" THEN {"verify"} ELSE {})
  BY DEF DropPoll, Selecting
<1>2. PollOK'
  BY <1>1, PollEnds
<1> QED
  BY <1>1, <1>2 DEF PollOK, PollShape, ConnOK

\* A message is encoded.
LEMMA WriteFacts ==
    ASSUME SendOK, NEW kind \in {"msg", "osc"}, NEW id \in Ids, Write(kind, id)
    PROVE  /\ Written(kind, id) \in Chunk /\ Written(kind, id).seq = nextSeq
           /\ Written(kind, id).id = id /\ Written(kind, id).kind = kind
           /\ chunks' = Append(chunks, Written(kind, id)) /\ chunks' \in Seq(Chunk)
           /\ Len(chunks') = Len(chunks) + 1 /\ nextSeq' = nextSeq + 1 /\ nextSeq' \in Nat
<1>1. nextSeq \in Nat /\ chunks \in Seq(Chunk)
  BY DEF SendOK
<1>2. id \in 0..MaxRequests
  BY ServerConnectionAssumption DEF Ids
<1>3. /\ Written(kind, id) \in Chunk /\ Written(kind, id).seq = nextSeq
      /\ Written(kind, id).id = id /\ Written(kind, id).kind = kind
  BY <1>1, <1>2 DEF Written, Chunk
<1>4. chunks' = Append(chunks, Written(kind, id)) /\ nextSeq' = nextSeq + 1
  BY DEF Write
<1> QED
  BY <1>1, <1>3, <1>4, AppendFacts

LEMMA FatalFacts ==
    ASSUME SendOK, FatalError
    PROVE  /\ conn' = "Closing" /\ chunks' \in Seq(Chunk)
           /\ conn # "Running" => chunks' = chunks
           /\ conn = "Running" => Len(chunks') = 1 /\ chunks'[1].kind = "err"
<1>1. ErrorChunk \in Chunk /\ ErrorChunk.kind = "err"
  BY ServerConnectionAssumption DEF ErrorChunk, Chunk
<1>2. <<ErrorChunk>> \in Seq(Chunk) /\ Len(<<ErrorChunk>>) = 1 /\ <<ErrorChunk>>[1] = ErrorChunk
  BY <1>1, SingletonFacts
<1> QED
  BY <1>1, <1>2 DEF FatalError, SendOK

-----------------------------------------------------------------------------
(***************************************************************************)
(* Frames of the two safety properties.                                    *)
(***************************************************************************)

LEMMA InOrderFrame ==
    ASSUME SendInOrder, UNCHANGED <<chunks, buffer, nextSeq, out>>, mishaps \subseteq mishaps',
           conn' = "Running" => conn = "Running",
           "encode" \notin mishaps' => poll'.chunk = poll.chunk
    PROVE  SendInOrder'
<1> SUFFICES ASSUME "encode" \notin mishaps'
             PROVE  (Whole \/ ErrorQueued \/ ErrorBuffered \/ ErrorWritten)'
                    /\ (conn' = "Running" => Whole')
  BY DEF SendInOrder
<1>1. (Whole \/ ErrorQueued \/ ErrorBuffered \/ ErrorWritten) /\ (conn = "Running" => Whole)
  BY DEF SendInOrder
<1>2. poll'.chunk = poll.chunk
  OBVIOUS
<1>3. Whole => Whole'
  BY <1>2 DEF Whole
<1>4. (ErrorQueued => ErrorQueued') /\ (ErrorBuffered => ErrorBuffered')
      /\ (ErrorWritten => ErrorWritten')
  BY <1>2 DEF ErrorQueued, ErrorBuffered, ErrorWritten
<1> QED
  BY <1>1, <1>3, <1>4

\* A request is known where it was, or the connection no longer runs, or the step is
\* one of the exceptions.
LEMMA KnownFrame ==
    ASSUME NoRequestForgotten,
           conn' = "Running" => conn = "Running",
           mishaps \subseteq mishaps',
           conn' = "Running" /\ mishaps' = {} => Received' \subseteq Received \cup Known'
                                                 /\ Known \subseteq Known'
    PROVE  NoRequestForgotten'
<1>1. conn' = "Running" /\ mishaps' = {} => Received \subseteq Known
  BY DEF NoRequestForgotten
<1> QED
  BY <1>1 DEF NoRequestForgotten

LEMMA Parts ==
    IInv <=> /\ ClientOK /\ ConnOK /\ RequestOK /\ SendOK /\ PollOK
             /\ SendInOrder /\ NoRequestForgotten
<1>1. IInv <=> Shape /\ SendInOrder /\ NoRequestForgotten
  BY DEF IInv, Shape
<1> QED
  BY <1>1, Groups

LEMMA PartsNext ==
    ASSUME ClientOK', ConnOK', RequestOK', SendOK', PollOK', SendInOrder', NoRequestForgotten'
    PROVE  IInv'
<1>1. TypeOK' /\ PollShape' /\ FramesInOrder'
  BY Zenon DEF TypeOK, ClientOK, ConnOK, RequestOK, SendOK, PollOK, Poll
<1> QED
  BY <1>1 DEF IInv

\* What is known apart from what the poll holds.
Settled == DOMAIN pending \union ToSet(responses) \union IdsIn(chunks) \union IdsIn(buffer) \union IdsIn(out)
Held == IdsIn(poll.frame) \union IdsIn(poll.batch) \union IdsIn(poll.chunk)

LEMMA KnownParts == Known = Held \cup Settled
  BY DEF Known, Held, Settled

\* A poll that is dropped without a mishap holds no request.
LEMMA DropHeld ==
    ASSUME PollOK, ConnOK, DropPoll, mishaps' = {}
    PROVE  Held = {}
<1>1. poll.chunk = <<>> /\ poll.frame = <<>> /\ poll.batch = <<>>
  BY DropFacts
<1> QED
  BY <1>1, IdsInSmall DEF Held

-----------------------------------------------------------------------------
(***************************************************************************)
(* The client, the clock and the handlers.                                 *)
(***************************************************************************)

LEMMA SendStep ==
    ASSUME IInv, NEW kind \in Kinds, Send(kind)
    PROVE  IInv'
<1> DEFINE f == [id |-> sent + 1, kind |-> kind]
<1>1. /\ ClientOK /\ ConnOK /\ RequestOK /\ SendOK /\ PollOK /\ SendInOrder /\ NoRequestForgotten
  BY Parts
<1>2. /\ sent < MaxRequests /\ sent' = sent + 1 /\ wireIn' = Append(wireIn, f)
      /\ UNCHANGED <<eof, conn, late, requestVars, sendVars, poll, mishaps>>
  BY DEF Send
<1>3. sent \in Nat /\ sent + 1 \in Ids /\ sent' \in 0..MaxRequests
  BY <1>1, <1>2, ServerConnectionAssumption DEF ClientOK, Ids
<1>4. f \in Frame /\ f.id = sent + 1
  BY <1>3 DEF Frame
<1> HIDE DEF f
<1>5. wireIn \in Seq(Frame) /\ Len(wireIn) \in Nat /\ DOMAIN wireIn = 1..Len(wireIn)
      /\ Len(wireIn) <= sent /\ \A k \in 1..Len(wireIn) : wireIn[k].id = sent - Len(wireIn) + k
  BY <1>1 DEF ClientOK, FramesInOrder
<1>6. /\ wireIn' \in Seq(Frame) /\ Len(wireIn') = Len(wireIn) + 1
      /\ DOMAIN wireIn' = 1..(Len(wireIn) + 1)
      /\ \A k \in 1..Len(wireIn) : wireIn'[k] = wireIn[k]
      /\ wireIn'[Len(wireIn) + 1] = f
  BY <1>2, <1>4, <1>5, AppendFacts, SeqFacts
<1>7. FramesInOrder'
  <2>1. Len(wireIn') <= sent'
    BY <1>2, <1>3, <1>5, <1>6
  <2>2. ASSUME NEW k \in 1..(Len(wireIn) + 1)
        PROVE  wireIn'[k].id = sent' - Len(wireIn') + k
    <3>1. CASE k \in 1..Len(wireIn)
      BY <1>2, <1>3, <1>5, <1>6, <3>1
    <3>2. CASE k = Len(wireIn) + 1
      BY <1>2, <1>3, <1>4, <1>5, <1>6, <3>2
    <3> QED
      BY <1>5, <3>1, <3>2
  <2> QED
    BY <1>6, <2>1, <2>2 DEF FramesInOrder
<1>8. ClientOK'
  BY <1>1, <1>2, <1>3, <1>6, <1>7 DEF ClientOK
<1>9. ConnOK' /\ RequestOK' /\ SendOK' /\ PollOK'
  BY <1>1, <1>2, RequestFrame, SendFrame, PollFrame DEF ConnOK, sendVars
<1>10. SendInOrder'
  BY <1>1, <1>2, InOrderFrame DEF sendVars
<1>11. NoRequestForgotten'
  <2>1. Received' = Received
    <3>1. sent' - Len(wireIn') = sent - Len(wireIn)
      BY <1>2, <1>3, <1>5, <1>6
    <3> QED
      BY <3>1 DEF Received
  <2>2. Known' = Known
    BY <1>2 DEF Known, requestVars, sendVars
  <2> QED
    BY <1>1, <1>2, <2>1, <2>2 DEF NoRequestForgotten
<1> QED
  BY <1>8, <1>9, <1>10, <1>11, PartsNext

\* Steps of the client, the clock and the handlers touch neither the transport nor
\* what is known of a request.
LEMMA AsideStep ==
    ASSUME IInv, UNCHANGED <<sent, wireIn, conn, late, sendVars, poll, mishaps>>,
           eof' \in BOOLEAN, RequestOK', DOMAIN pending' = DOMAIN pending
    PROVE  IInv'
<1>1. /\ ClientOK /\ ConnOK /\ RequestOK /\ SendOK /\ PollOK /\ SendInOrder /\ NoRequestForgotten
  BY Parts
<1>2. ClientOK'
  BY <1>1 DEF ClientOK, FramesInOrder
<1>3. ConnOK' /\ SendOK' /\ PollOK'
  BY <1>1, SendFrame, PollFrame DEF ConnOK, sendVars
<1>4. SendInOrder'
  BY <1>1, InOrderFrame DEF sendVars
<1>5. NoRequestForgotten'
  <2>1. Received' = Received /\ Known' = Known
    BY DEF Received, Known, sendVars
  <2> QED
    BY <1>1, <2>1 DEF NoRequestForgotten
<1> QED
  BY <1>2, <1>3, <1>4, <1>5, PartsNext

LEMMA DisconnectStep ==
    ASSUME IInv, Disconnect
    PROVE  IInv'
<1>1. RequestOK
  BY Parts
<1>2. UNCHANGED requestVars /\ eof' = TRUE
      /\ UNCHANGED <<sent, wireIn, conn, late, sendVars, poll, mishaps>>
  BY DEF Disconnect
<1>3. RequestOK' /\ DOMAIN pending' = DOMAIN pending
  BY <1>1, <1>2, RequestFrame DEF requestVars
<1> QED
  BY <1>2, <1>3, AsideStep

LEMMA HandlerEndsStep ==
    ASSUME IInv, NEW i \in DOMAIN pending, NEW result \in {"done", "panicked"},
           HandlerEnds(i, result)
    PROVE  IInv'
<1>1. RequestOK /\ eof \in BOOLEAN
  BY Parts DEF ClientOK
<1>2. /\ pending' = [pending EXCEPT ![i] = result]
      /\ UNCHANGED <<deadlines, completed, signals, eof>>
      /\ UNCHANGED <<sent, wireIn, conn, late, sendVars, poll, mishaps>>
  BY DEF HandlerEnds, clientVars
<1>3. DOMAIN pending' = DOMAIN pending
  BY <1>2
<1>4. \A k \in DOMAIN pending' : pending'[k] \in {"running", "done", "panicked"}
  BY <1>1, <1>2, <1>3 DEF RequestOK
<1>5. RequestOK'
  BY <1>1, <1>2, <1>3, <1>4 DEF RequestOK
<1>6. eof' \in BOOLEAN
  BY <1>1, <1>2
<1> QED
  BY <1>2, <1>3, <1>5, <1>6, AsideStep

LEMMA TickStep ==
    ASSUME IInv, Tick
    PROVE  IInv'
<1>1. RequestOK /\ eof \in BOOLEAN
  BY Parts DEF ClientOK
<1>2. /\ deadlines' = [i \in DOMAIN deadlines |-> IF deadlines[i] = 0 THEN 0 ELSE deadlines[i] - 1]
      /\ UNCHANGED <<pending, completed, signals, eof>>
      /\ UNCHANGED <<sent, wireIn, conn, late, sendVars, poll, mishaps>>
  BY DEF Tick, clientVars
<1>3. DOMAIN deadlines' = DOMAIN deadlines
      /\ \A i \in DOMAIN deadlines : deadlines'[i] = IF deadlines[i] = 0 THEN 0 ELSE deadlines[i] - 1
  BY <1>2
<1>4. \A i \in DOMAIN deadlines' : deadlines'[i] \in 0..RequestTimeout
  <2> TAKE i \in DOMAIN deadlines'
  <2>1. deadlines[i] \in 0..RequestTimeout /\ RequestTimeout \in Nat
    BY <1>1, <1>3, ServerConnectionAssumption DEF RequestOK
  <2> QED
    BY <1>3, <2>1
<1>5. RequestOK'
  BY <1>1, <1>2, <1>3, <1>4 DEF RequestOK
<1>6. eof' \in BOOLEAN /\ DOMAIN pending' = DOMAIN pending
  BY <1>1, <1>2
<1> QED
  BY <1>2, <1>5, <1>6, AsideStep

-----------------------------------------------------------------------------
(***************************************************************************)
(* The arms that drop the poll.                                            *)
(***************************************************************************)

\* fatal_error replaces the queue, so that the numbers go on up to the error.
LEMMA FatalInOrder ==
    ASSUME SendOK, PollOK, ConnOK, SendInOrder, DropPoll, FatalError,
           UNCHANGED <<buffer, nextSeq, out>>
    PROVE  SendInOrder'
<1>1. /\ poll' = NoPoll /\ mishaps \subseteq mishaps'
      /\ "encode" \notin mishaps' => poll.chunk = <<>>
  BY DropFacts
<1>2. poll'.chunk = <<>>
  BY <1>1, NoPollFacts
<1>3. /\ conn' = "Closing" /\ chunks' \in Seq(Chunk)
      /\ conn # "Running" => chunks' = chunks
      /\ conn = "Running" => Len(chunks') = 1 /\ chunks'[1].kind = "err"
  BY FatalFacts
<1>4. CASE conn # "Running"
  BY <1>1, <1>2, <1>3, <1>4, InOrderFrame
<1>5. CASE conn = "Running"
  <2> SUFFICES ASSUME "encode" \notin mishaps'
               PROVE  ErrorQueued'
    BY <1>3 DEF SendInOrder
  <2>1. Numbered(out, 0) /\ Numbered(buffer, Len(out))
    BY <1>1, <1>5 DEF SendInOrder, Whole
  <2>2. Numbered(out', 0) /\ Numbered(buffer', Len(out'))
    BY <2>1
  <2>3. DOMAIN chunks' = 1..1 /\ chunks' # <<>> /\ chunks'[1].kind = "err"
    BY <1>3, <1>5, SeqFacts
  <2> QED
    BY <1>2, <2>2, <2>3 DEF ErrorQueued
<1> QED
  BY <1>4, <1>5

LEMMA FatalStep ==
    ASSUME IInv, DropPoll, FatalError, RequestOK', late' \in BOOLEAN,
           UNCHANGED <<clientVars, responses, buffer, nextSeq, out>>
    PROVE  IInv'
<1>1. /\ ClientOK /\ ConnOK /\ RequestOK /\ SendOK /\ PollOK /\ SendInOrder /\ NoRequestForgotten
  BY Parts
<1>2. ClientOK'
  BY <1>1, ClientFrame
<1>3. conn' = "Closing" /\ chunks' \in Seq(Chunk)
  BY <1>1, FatalFacts
<1>4. SendOK'
  BY <1>1, <1>3 DEF SendOK
<1>5. PollOK' /\ mishaps' \subseteq {"limit", "drain", "encode", "verify"}
  BY <1>1, DropFacts
<1>6. ConnOK'
  BY <1>3, <1>5 DEF ConnOK
<1>7. SendInOrder'
  BY <1>1, FatalInOrder
<1>8. NoRequestForgotten'
  BY <1>3 DEF NoRequestForgotten
<1> QED
  BY <1>2, <1>4, <1>5, <1>6, <1>7, <1>8, PartsNext

LEMMA HaltStep ==
    ASSUME IInv, HaltArm
    PROVE  IInv'
<1>1. RequestOK
  BY Parts
<1>2. /\ DropPoll /\ FatalError /\ late' = TRUE /\ UNCHANGED requestVars
      /\ UNCHANGED <<clientVars, responses, buffer, nextSeq, out>>
  BY DEF HaltArm
<1>3. RequestOK' /\ late' \in BOOLEAN
  BY <1>1, <1>2, RequestFrame
<1> QED
  BY <1>2, <1>3, FatalStep

LEMMA PanicStep ==
    ASSUME IInv, NEW i \in DOMAIN pending, PanicArm(i)
    PROVE  IInv'
<1>1. RequestOK /\ late \in BOOLEAN
  BY Parts DEF ConnOK
<1>2. /\ DropPoll /\ FatalError /\ pending' = Without(pending, {i})
      /\ UNCHANGED <<late, deadlines, completed, signals>>
      /\ UNCHANGED <<clientVars, responses, buffer, nextSeq, out>>
  BY DEF PanicArm
<1>3. DOMAIN pending' = DOMAIN pending \ {i} /\ \A x \in DOMAIN pending' : pending'[x] = pending[x]
  BY <1>2 DEF Without
<1>4. RequestOK' /\ late' \in BOOLEAN
  BY <1>1, <1>2, <1>3 DEF RequestOK
<1> QED
  BY <1>2, <1>4, FatalStep

LEMMA DeadlineStep ==
    ASSUME IInv, DeadlineArm
    PROVE  IInv'
<1> DEFINE due == {i \in DOMAIN deadlines : deadlines[i] = 0}
<1>1. /\ ClientOK /\ ConnOK /\ RequestOK /\ SendOK /\ PollOK /\ SendInOrder /\ NoRequestForgotten
  BY Parts
<1>2. /\ DropPoll /\ deadlines' = Without(deadlines, due) /\ completed' = completed \ due
      /\ signals' = signals \ (due \ completed)
      /\ UNCHANGED <<clientVars, conn, late, pending, sendVars>>
  BY DEF DeadlineArm
<1> HIDE DEF due
<1>3. DOMAIN deadlines' = DOMAIN deadlines \ due
      /\ \A x \in DOMAIN deadlines' : deadlines'[x] = deadlines[x]
  BY <1>2 DEF Without
<1>4. RequestOK'
  BY <1>1, <1>2, <1>3 DEF RequestOK
<1>5. /\ PollOK' /\ poll' = NoPoll /\ mishaps \subseteq mishaps'
      /\ mishaps' \subseteq {"limit", "drain", "encode", "verify"}
      /\ "encode" \notin mishaps' => poll.chunk = <<>>
  BY <1>1, <1>2, DropFacts
<1>6. ClientOK' /\ SendOK' /\ ConnOK'
  BY <1>1, <1>2, <1>5, ClientFrame, SendFrame DEF ConnOK
<1>7. SendInOrder'
  <2>1. "encode" \notin mishaps' => poll'.chunk = poll.chunk
    BY <1>5, NoPollFacts
  <2> QED
    BY <1>1, <1>2, <1>5, <2>1, InOrderFrame DEF sendVars
<1>8. NoRequestForgotten'
  <2>1. Received' = Received
    BY <1>2 DEF Received, clientVars
  <2>2. mishaps' = {} => Known \subseteq Known'
    <3>1. mishaps' = {} => Held = {}
      BY <1>1, <1>2, DropHeld
    <3>2. Settled = Settled'
      BY <1>2 DEF Settled, sendVars
    <3>3. Settled' \subseteq Known'
      BY DEF Settled, Known
    <3> QED
      BY <3>1, <3>2, <3>3, KnownParts
  <2> QED
    BY <1>1, <1>2, <1>5, <2>1, <2>2, KnownFrame
<1> QED
  BY <1>4, <1>5, <1>6, <1>7, <1>8, PartsNext

LEMMA ResponseStep ==
    ASSUME IInv, NEW i \in DOMAIN pending, ResponseArm(i)
    PROVE  IInv'
<1>1. /\ ClientOK /\ ConnOK /\ RequestOK /\ SendOK /\ PollOK /\ SendInOrder /\ NoRequestForgotten
  BY Parts
<1>2. /\ DropPoll /\ pending' = Without(pending, {i}) /\ completed' = completed \union {i}
      /\ signals' = signals \ {i} /\ responses' = Append(responses, i)
      /\ UNCHANGED <<clientVars, conn, late, deadlines, chunks, buffer, nextSeq, out>>
  BY DEF ResponseArm
<1>3. i \in Ids /\ responses \in Seq(Ids)
  BY <1>1 DEF RequestOK, SendOK
<1>4. DOMAIN pending' = DOMAIN pending \ {i} /\ \A x \in DOMAIN pending' : pending'[x] = pending[x]
  BY <1>2 DEF Without
<1>5. RequestOK'
  BY <1>1, <1>2, <1>3, <1>4 DEF RequestOK
<1>6. /\ PollOK' /\ poll' = NoPoll /\ mishaps \subseteq mishaps'
      /\ mishaps' \subseteq {"limit", "drain", "encode", "verify"}
      /\ "encode" \notin mishaps' => poll.chunk = <<>>
  BY <1>1, <1>2, DropFacts
<1>7. responses' \in Seq(Ids) /\ ToSet(responses') = ToSet(responses) \cup {i}
  <2>1. /\ responses' \in Seq(Ids) /\ DOMAIN responses' = 1..(Len(responses) + 1)
        /\ DOMAIN responses = 1..Len(responses) /\ Len(responses) \in Nat
        /\ \A k \in 1..Len(responses) : responses'[k] = responses[k]
        /\ responses'[Len(responses) + 1] = i
    BY <1>2, <1>3, AppendFacts, SeqFacts
  <2>2. \A k : k \in 1..(Len(responses) + 1) <=> k \in 1..Len(responses) \/ k = Len(responses) + 1
    BY <2>1
  <2> QED
    BY <2>1, <2>2 DEF ToSet
<1>8. ClientOK' /\ SendOK' /\ ConnOK'
  <2>1. ClientOK'
    BY <1>1, <1>2, ClientFrame
  <2> QED
    BY <1>1, <1>2, <1>6, <1>7, <2>1 DEF SendOK, ConnOK
<1>9. SendInOrder'
  <2>1. "encode" \notin mishaps' => poll'.chunk = poll.chunk
    BY <1>6, NoPollFacts
  <2> QED
    BY <1>1, <1>2, <1>6, <2>1, InOrderFrame
<1>10. NoRequestForgotten'
  <2>1. Received' = Received
    BY <1>2 DEF Received, clientVars
  <2>2. mishaps' = {} => Known \subseteq Known'
    <3>1. mishaps' = {} => Held = {}
      BY <1>1, <1>2, DropHeld
    <3>2. Settled \subseteq Settled'
      BY <1>2, <1>4, <1>7 DEF Settled
    <3>3. Settled' \subseteq Known'
      BY DEF Settled, Known
    <3> QED
      BY <3>1, <3>2, <3>3, KnownParts
  <2> QED
    BY <1>1, <1>2, <1>6, <2>1, <2>2, KnownFrame
<1> QED
  BY <1>5, <1>6, <1>8, <1>9, <1>10, PartsNext

-----------------------------------------------------------------------------
(***************************************************************************)
(* The poll of the transport.                                              *)
(***************************************************************************)

\* The responses get the numbers that follow.
LEMMA EncodedFacts ==
    ASSUME SendOK
    PROVE  /\ Encoded \in Seq(Chunk) /\ Len(Encoded) = Len(responses) /\ Len(responses) \in Nat
           /\ \A base \in Nat : nextSeq = base + 1 => Numbered(Encoded, base)
           /\ NoError(Encoded) /\ IdsIn(Encoded) = ToSet(responses)
<1>1. responses \in Seq(Ids) /\ nextSeq \in Nat /\ Len(responses) \in Nat
      /\ DOMAIN responses = 1..Len(responses) /\ \A k \in 1..Len(responses) : responses[k] \in Ids
  BY SeqFacts DEF SendOK
<1>2. PICK e : e = Encoded
  OBVIOUS
<1>3. DOMAIN e = 1..Len(responses) /\ \A k \in 1..Len(responses) :
        e[k] = [id |-> responses[k], seq |-> nextSeq + k - 1, kind |-> "msg"]
  BY <1>2 DEF Encoded
<1>4. \A k \in 1..Len(responses) : /\ e[k].id = responses[k] /\ e[k].seq = nextSeq + k - 1
                                   /\ e[k].kind = "msg" /\ e[k] \in Chunk
  <2> TAKE k \in 1..Len(responses)
  <2>1. responses[k] \in 0..MaxRequests
    BY <1>1, ServerConnectionAssumption DEF Ids
  <2>2. nextSeq + k - 1 \in Nat
    BY <1>1
  <2> QED
    BY <1>3, <2>1, <2>2 DEF Chunk
<1>5. e \in [1..Len(responses) -> Chunk]
  <2>1. e = [k \in 1..Len(responses) |-> [id |-> responses[k], seq |-> nextSeq + k - 1, kind |-> "msg"]]
    BY <1>2 DEF Encoded
  <2> QED
    BY <1>3, <1>4, <2>1
<1>6. e \in Seq(Chunk) /\ Len(e) = Len(responses)
  BY <1>1, <1>5
<1>7. \A base \in Nat : nextSeq = base + 1 => Numbered(e, base)
  <2> SUFFICES ASSUME NEW base \in Nat, nextSeq = base + 1, NEW k \in 1..Len(responses)
               PROVE  e[k].seq = base + k /\ e[k].kind # "err"
    BY <1>3 DEF Numbered
  <2>1. nextSeq + k - 1 = base + k
    BY <1>1
  <2> QED
    BY <1>4, <2>1
<1>8. NoError(e)
  BY <1>3, <1>4 DEF NoError
<1>9. IdsIn(e) = ToSet(responses)
  <2>1. \A x : x \in IdsIn(e) <=> \E k \in 1..Len(responses) : responses[k] = x
    BY <1>3, <1>4, IdsInFacts
  <2>2. \A x : x \in ToSet(responses) <=> \E k \in 1..Len(responses) : responses[k] = x
    BY <1>1 DEF ToSet
  <2> QED
    BY <2>1, <2>2
<1> QED
  BY <1>1, <1>2, <1>6, <1>7, <1>8, <1>9

\* The three outcomes of PollBegin for the send side: nothing is taken, a chunk is
\* taken to be secured, or it goes into the send buffer.
Moved(queued) ==
    \/ chunks' = queued /\ buffer' = buffer /\ poll'.chunk = <<>>
    \/ /\ queued # <<>> /\ buffer = <<>> /\ buffer' = <<>> /\ Head(queued).kind # "err"
       /\ chunks' = Tail(queued) /\ poll'.chunk = <<Head(queued)>> /\ poll'.pc = "encoding"
    \/ /\ queued # <<>> /\ buffer = <<>> /\ buffer' = <<Head(queued)>>
       /\ chunks' = Tail(queued) /\ poll'.chunk = <<>>

LEMMA PollBeginShape ==
    ASSUME PollOK, SendOK, PollBegin
    PROVE  /\ Moved(chunks \o Encoded) /\ PollOK' /\ SendOK'
           /\ poll.chunk = <<>> /\ poll.frame = <<>> /\ poll.batch = <<>>
           /\ poll'.frame = <<>> /\ poll'.batch = <<>>
           /\ responses' = <<>> /\ nextSeq' = nextSeq + Len(responses)
           /\ UNCHANGED <<clientVars, late, requestVars, out, mishaps>>
           /\ conn' = conn \/ (conn = "Closing" /\ conn' = "Closed")
<1>1. /\ poll \in Poll /\ poll.pc = "none" /\ poll.chunk = <<>> /\ poll.frame = <<>>
      /\ poll.batch = <<>>
  BY DEF PollOK, PollShape, PollBegin
<1>2. PICK q : q = chunks \o Encoded
  OBVIOUS
<1>3. q \in Seq(Chunk)
  BY <1>2, EncodedFacts, ConcatProperties DEF SendOK
<1>4. /\ responses' = <<>> /\ nextSeq' = nextSeq + Len(responses)
      /\ UNCHANGED <<clientVars, late, requestVars, out, mishaps>>
  BY DEF PollBegin
<1>5. CASE ~ShouldEncode(q)
  <2>1. /\ chunks' = q /\ buffer' = buffer
        /\ \/ conn = "Closing" /\ conn' = "Closed" /\ poll' = poll
           \/ poll' = [poll EXCEPT !.pc = "io"] /\ conn' = conn
    BY <1>2, <1>5 DEF PollBegin
  <2>2. /\ poll' \in Poll /\ poll'.pc \in {"none", "io"} /\ poll'.chunk = <<>>
        /\ poll'.frame = <<>> /\ poll'.batch = <<>>
    BY <1>1, <2>1 DEF Poll
  <2>3. PollOK'
    BY <2>2 DEF PollOK, PollShape
  <2>4. SendOK'
    <3>1. nextSeq' \in Nat /\ responses' \in Seq(Ids)
      BY <1>4, EncodedFacts DEF SendOK
    <3> QED
      BY <1>3, <1>4, <2>1, <3>1 DEF SendOK
  <2> QED
    BY <1>1, <1>2, <1>4, <2>1, <2>2, <2>3, <2>4 DEF Moved
<1>6. CASE ShouldEncode(q)
  <2>1. q # <<>> /\ buffer = <<>> /\ chunks' = Tail(q)
    BY <1>2, <1>6 DEF PollBegin, ShouldEncode
  <2>2. PICK h : h = Head(q)
    OBVIOUS
  <2>3. h \in Chunk /\ Tail(q) \in Seq(Chunk)
    BY <1>3, <2>1, <2>2, TailFacts
  <2>4. <<h>> \in Seq(Chunk) /\ Len(<<h>>) = 1 /\ <<h>> # <<>>
    BY <2>3, SingletonFacts
  <2>5. nextSeq' \in Nat /\ responses' \in Seq(Ids)
    BY <1>4, EncodedFacts DEF SendOK
  <2>6. CASE Secured /\ h.kind = "osc"
    <3>1. buffer' = buffer /\ conn' = conn
          /\ poll' = [poll EXCEPT !.pc = "encoding", !.chunk = <<h>>]
      BY <1>2, <1>6, <2>2, <2>6 DEF PollBegin
    <3>2. /\ poll' \in Poll /\ poll'.pc = "encoding" /\ poll'.chunk = <<h>>
          /\ poll'.frame = <<>> /\ poll'.batch = <<>>
      BY <1>1, <2>4, <3>1 DEF Poll
    <3>3. PollOK'
      BY <2>1, <2>4, <3>1, <3>2 DEF PollOK, PollShape
    <3>4. SendOK'
      BY <1>4, <2>1, <2>3, <2>5, <3>1 DEF SendOK
    <3> QED
      BY <1>1, <1>2, <1>4, <2>1, <2>2, <2>6, <3>1, <3>2, <3>3, <3>4 DEF Moved
  <2>7. CASE ~(Secured /\ h.kind = "osc")
    <3>1. buffer' = buffer \o <<h>>
          /\ IF buffer' = <<>> /\ conn = "Closing"
             THEN conn' = "Closed" /\ poll' = poll
             ELSE poll' = [poll EXCEPT !.pc = "io"] /\ conn' = conn
      BY <1>2, <1>6, <2>2, <2>7 DEF PollBegin
    <3>2. buffer' = <<h>>
      BY <2>1, <2>4, <3>1, ConcatEmptySeq
    <3>3. poll' = [poll EXCEPT !.pc = "io"] /\ conn' = conn
      BY <2>4, <3>1, <3>2
    <3>4. /\ poll' \in Poll /\ poll'.pc = "io" /\ poll'.chunk = <<>>
          /\ poll'.frame = <<>> /\ poll'.batch = <<>>
      BY <1>1, <3>3 DEF Poll
    <3>5. PollOK'
      BY <3>4 DEF PollOK, PollShape
    <3>6. SendOK'
      BY <1>4, <2>1, <2>3, <2>4, <2>5, <3>2 DEF SendOK
    <3> QED
      BY <1>1, <1>2, <1>4, <2>1, <2>2, <3>2, <3>3, <3>4, <3>5, <3>6 DEF Moved
  <2> QED
    BY <2>6, <2>7
<1> QED
  BY <1>5, <1>6

\* The numbers stay in order whatever was taken from the queue.
LEMMA MovedWhole ==
    ASSUME SendOK, PollOK, PollBegin, Whole
    PROVE  Whole'
<1>1. PICK q : q = chunks \o Encoded
  OBVIOUS
<1>2. /\ Moved(q) /\ poll.chunk = <<>> /\ out' = out /\ nextSeq' = nextSeq + Len(responses)
  BY <1>1, PollBeginShape
<1>3. /\ chunks \in Seq(Chunk) /\ buffer \in Seq(Chunk) /\ out \in Seq(Chunk)
      /\ Len(chunks) \in Nat /\ Len(buffer) \in Nat /\ Len(out) \in Nat
      /\ Encoded \in Seq(Chunk) /\ Len(Encoded) = Len(responses) /\ Len(responses) \in Nat
  BY EncodedFacts, SeqFacts DEF SendOK
<1>4. PICK base : base = Len(out) + Len(buffer)
  OBVIOUS
<1>5. base \in Nat /\ base + Len(chunks) \in Nat
  BY <1>3, <1>4
<1>6. /\ Numbered(out, 0) /\ Numbered(buffer, Len(out)) /\ Numbered(chunks, base)
      /\ nextSeq = (base + Len(chunks)) + 1
  <2>1. Len(poll.chunk) = 0 /\ base + 0 = base
    BY <1>2, <1>5
  <2> QED
    BY <1>4, <2>1 DEF Whole
<1>7. Numbered(Encoded, base + Len(chunks))
  BY <1>5, <1>6, EncodedFacts
<1>8. Numbered(q, base)
  BY <1>1, <1>3, <1>5, <1>6, <1>7, NumberedConcat
<1>9. q \in Seq(Chunk) /\ Len(q) = Len(chunks) + Len(responses)
  <2>1. PICK e : e = Encoded
    OBVIOUS
  <2>2. q = chunks \o e /\ e \in Seq(Chunk) /\ Len(e) = Len(responses)
    BY <1>1, <1>3, <2>1
  <2>3. chunks \in Seq(Chunk)
    BY <1>3
  <2>4. chunks \o e \in Seq(Chunk) /\ Len(chunks \o e) = Len(chunks) + Len(e)
    BY <2>2, <2>3, ConcatFacts
  <2> QED
    BY <2>2, <2>4
<1>10. nextSeq' = base + Len(q) + 1 /\ Len(q) \in Nat
  BY <1>2, <1>3, <1>5, <1>6, <1>9
<1>11. Numbered(out', 0)
  BY <1>2, <1>6
<1>12. CASE chunks' = q /\ buffer' = buffer /\ poll'.chunk = <<>>
  <2>1. Numbered(buffer', Len(out')) /\ Numbered(poll'.chunk, Len(out') + Len(buffer'))
    BY <1>2, <1>6, <1>12 DEF Numbered
  <2>2. /\ Len(out') + Len(buffer') + Len(poll'.chunk) = base
        /\ nextSeq' = base + Len(chunks') + 1
    BY <1>2, <1>3, <1>4, <1>10, <1>12
  <2>3. Numbered(chunks', Len(out') + Len(buffer') + Len(poll'.chunk))
    BY <1>8, <1>12, <2>2
  <2> QED
    BY <1>11, <2>1, <2>2, <2>3 DEF Whole
<1>13. ASSUME q # <<>>, buffer = <<>>
       PROVE  /\ Numbered(<<Head(q)>>, base) /\ Numbered(Tail(q), base + 1) /\ base = Len(out)
              /\ nextSeq' = base + 1 + Len(Tail(q)) + 1 /\ Len(<<Head(q)>>) = 1
  <2>1. Len(Tail(q)) = Len(q) - 1 /\ Len(buffer) = 0
    BY <1>9, <1>13, TailFacts
  <2>2. base = Len(out) /\ nextSeq' = base + 1 + Len(Tail(q)) + 1
    <3>1. PICK n, t : n = Len(q) /\ t = Len(Tail(q))
      OBVIOUS
    <3>2. n \in Nat /\ t = n - 1 /\ nextSeq' = base + n + 1
      BY <1>10, <2>1, <3>1
    <3>3. base = Len(out) /\ nextSeq' = base + 1 + t + 1
      BY <1>3, <1>4, <1>5, <2>1, <3>2
    <3> QED
      BY <3>1, <3>3
  <2>3. Len(<<Head(q)>>) = 1
    OBVIOUS
  <2> QED
    BY <1>5, <1>8, <1>9, <1>13, <2>2, <2>3, NumberedTail
<1>14. CASE /\ q # <<>> /\ buffer = <<>> /\ buffer' = <<>>
            /\ chunks' = Tail(q) /\ poll'.chunk = <<Head(q)>>
  <2>1. Len(buffer') = 0 /\ Len(poll'.chunk) = 1 /\ base = Len(out')
    BY <1>2, <1>13, <1>14
  <2>2. Len(out') + Len(buffer') = base /\ Len(out') + Len(buffer') + Len(poll'.chunk) = base + 1
    BY <1>5, <2>1
  <2>3. Numbered(buffer', Len(out'))
    BY <1>14 DEF Numbered
  <2>4. Numbered(poll'.chunk, Len(out') + Len(buffer'))
    BY <1>13, <1>14, <2>2
  <2>5. Numbered(chunks', Len(out') + Len(buffer') + Len(poll'.chunk))
    BY <1>13, <1>14, <2>2
  <2>6. nextSeq' = Len(out') + Len(buffer') + Len(poll'.chunk) + Len(chunks') + 1
    BY <1>13, <1>14, <2>2
  <2> QED
    BY <1>11, <2>3, <2>4, <2>5, <2>6 DEF Whole
<1>15. CASE /\ q # <<>> /\ buffer = <<>> /\ buffer' = <<Head(q)>>
            /\ chunks' = Tail(q) /\ poll'.chunk = <<>>
  <2>1. Len(buffer') = 1 /\ Len(poll'.chunk) = 0 /\ base = Len(out')
    BY <1>2, <1>13, <1>15
  <2>2. Len(out') + Len(buffer') + Len(poll'.chunk) = base + 1
    BY <1>5, <2>1
  <2>3. Numbered(buffer', Len(out'))
    BY <1>13, <1>15, <2>1
  <2>4. Numbered(poll'.chunk, Len(out') + Len(buffer'))
    BY <1>15 DEF Numbered
  <2>5. Numbered(chunks', Len(out') + Len(buffer') + Len(poll'.chunk))
    BY <1>13, <1>15, <2>2
  <2>6. nextSeq' = Len(out') + Len(buffer') + Len(poll'.chunk) + Len(chunks') + 1
    BY <1>13, <1>15, <2>2
  <2> QED
    BY <1>11, <2>3, <2>4, <2>5, <2>6 DEF Whole
<1> QED
  BY <1>2, <1>12, <1>14, <1>15, Zenon DEF Moved

LEMMA MovedError ==
    ASSUME SendOK, PollOK, PollBegin, ErrorQueued \/ ErrorBuffered \/ ErrorWritten
    PROVE  ErrorQueued' \/ ErrorBuffered' \/ ErrorWritten'
<1>1. PICK q : q = chunks \o Encoded
  OBVIOUS
<1>2. Moved(q) /\ poll.chunk = <<>> /\ out' = out
  BY <1>1, PollBeginShape
<1>3. /\ chunks \in Seq(Chunk) /\ Encoded \in Seq(Chunk) /\ NoError(Encoded)
      /\ Len(chunks) \in Nat /\ DOMAIN chunks = 1..Len(chunks) /\ Len(Encoded) \in Nat
      /\ DOMAIN Encoded = 1..Len(Encoded)
  BY EncodedFacts, SeqFacts DEF SendOK
<1>4. /\ q \in Seq(Chunk) /\ DOMAIN q = 1..(Len(chunks) + Len(Encoded))
      /\ \A k \in 1..(Len(chunks) + Len(Encoded)) :
           q[k] = IF k <= Len(chunks) THEN chunks[k] ELSE Encoded[k - Len(chunks)]
  BY <1>1, <1>3, ConcatProperties, SeqFacts
<1>5. CASE ErrorQueued
  <2>1. Len(chunks) >= 1 /\ 1 \in DOMAIN q /\ q # <<>>
    BY <1>3, <1>4, <1>5 DEF ErrorQueued
  <2>2. q[1].kind = "err"
    BY <1>3, <1>4, <1>5, <2>1 DEF ErrorQueued
  <2>3. \A k \in DOMAIN q : k > 1 => q[k].kind # "err"
    <3> SUFFICES ASSUME NEW k \in 1..(Len(chunks) + Len(Encoded)), k > 1
                 PROVE  q[k].kind # "err"
      BY <1>4
    <3>1. CASE k <= Len(chunks)
      <4>1. k \in DOMAIN chunks /\ q[k] = chunks[k]
        BY <1>3, <1>4, <3>1
      <4> QED
        BY <1>5, <4>1 DEF ErrorQueued
    <3>2. CASE ~(k <= Len(chunks))
      <4>1. k - Len(chunks) \in DOMAIN Encoded /\ q[k] = Encoded[k - Len(chunks)]
        BY <1>3, <1>4, <3>2
      <4> QED
        BY <1>3, <4>1 DEF NoError
    <3> QED
      BY <3>1, <3>2
  <2>4. Head(q) = q[1] /\ NoError(Tail(q)) /\ Len(<<Head(q)>>) = 1 /\ <<Head(q)>>[1] = Head(q)
    BY <1>4, <2>1, <2>3, TailFacts, NoErrorTail
  <2>5. Numbered(out', 0)
    BY <1>2, <1>5 DEF ErrorQueued
  <2>6. CASE chunks' = q /\ buffer' = buffer /\ poll'.chunk = <<>>
    <3>1. ErrorQueued'
      <4>1. Numbered(buffer', Len(out'))
        BY <1>2, <1>5, <2>6 DEF ErrorQueued
      <4> QED
        BY <2>1, <2>2, <2>3, <2>5, <2>6, <4>1 DEF ErrorQueued
    <3> QED
      BY <3>1
  <2>7. CASE Head(q).kind # "err"
    BY <2>2, <2>4, <2>7
  <2>8. CASE buffer' = <<Head(q)>> /\ chunks' = Tail(q) /\ poll'.chunk = <<>>
    <3>1. ErrorBuffered'
      BY <2>2, <2>4, <2>5, <2>8 DEF ErrorBuffered
    <3> QED
      BY <3>1
  <2> QED
    BY <1>2, <2>6, <2>7, <2>8 DEF Moved
<1>6. CASE ErrorBuffered
  <2>1. buffer # <<>>
    BY <1>6 DEF ErrorBuffered
  <2>2. chunks' = q /\ buffer' = buffer /\ poll'.chunk = <<>>
    BY <1>2, <2>1 DEF Moved
  <2>3. NoError(q)
    BY <1>1, <1>3, <1>6, NoErrorConcat DEF ErrorBuffered
  <2>4. ErrorBuffered'
    BY <1>2, <1>6, <2>2, <2>3 DEF ErrorBuffered
  <2> QED
    BY <2>4
<1>7. CASE ErrorWritten
  <2>1. NoError(q) /\ NoError(buffer)
    BY <1>1, <1>3, <1>7, NoErrorConcat DEF ErrorWritten
  <2>2. NoError(<<>>)
    BY DEF NoError
  <2>3. ASSUME q # <<>>
        PROVE  NoError(<<Head(q)>>) /\ NoError(Tail(q))
    <3>1. /\ Head(q) = q[1] /\ 1 \in DOMAIN q /\ \A k \in DOMAIN q : k > 1 => q[k].kind # "err"
      BY <1>4, <2>1, <2>3, TailFacts DEF NoError
    <3>2. NoError(Tail(q))
      BY <1>4, <2>3, <3>1, NoErrorTail
    <3> QED
      BY <2>1, <3>1, <3>2 DEF NoError
  <2>4. NoError(buffer') /\ NoError(poll'.chunk) /\ NoError(chunks')
    BY <1>2, <2>1, <2>2, <2>3, Zenon DEF Moved
  <2>5. ErrorWritten'
    BY <1>2, <1>7, <2>4 DEF ErrorWritten
  <2> QED
    BY <2>5
<1> QED
  BY <1>5, <1>6, <1>7

\* The queued answers are where they were, one step further.
LEMMA MovedKnown ==
    ASSUME SendOK, PollOK, PollBegin
    PROVE  Known = Known'
<1>1. PICK q : q = chunks \o Encoded
  OBVIOUS
<1>2. /\ Moved(q) /\ poll.chunk = <<>> /\ poll.frame = <<>> /\ poll.batch = <<>>
      /\ poll'.frame = <<>> /\ poll'.batch = <<>> /\ responses' = <<>>
      /\ UNCHANGED <<requestVars, out>>
  BY <1>1, PollBeginShape
<1>3. /\ chunks \in Seq(Chunk) /\ Encoded \in Seq(Chunk) /\ q \in Seq(Chunk)
      /\ IdsIn(Encoded) = ToSet(responses)
  BY <1>1, EncodedFacts, ConcatProperties DEF SendOK
<1>4. IdsIn(q) = IdsIn(chunks) \cup ToSet(responses)
  BY <1>1, <1>3, IdsInConcat
<1>5. IdsIn(<<>>) = {} /\ ToSet(<<>>) = {}
  BY IdsInSmall DEF ToSet
<1>6. q # <<>> => IdsIn(<<Head(q)>>) \cup IdsIn(Tail(q)) = IdsIn(q)
  BY <1>3, IdsInTail, IdsInSmall
<1>7. IdsIn(poll'.chunk) \cup IdsIn(chunks') \cup IdsIn(buffer') = IdsIn(q) \cup IdsIn(buffer)
  BY <1>2, <1>5, <1>6 DEF Moved
<1>8. Known = DOMAIN pending \cup IdsIn(out) \cup IdsIn(q) \cup IdsIn(buffer)
  BY <1>2, <1>4, <1>5 DEF Known
<1>9. Known' = DOMAIN pending \cup IdsIn(out)
               \cup (IdsIn(poll'.chunk) \cup IdsIn(chunks') \cup IdsIn(buffer'))
  BY <1>2, <1>5 DEF Known, requestVars
<1> QED
  BY <1>7, <1>8, <1>9

LEMMA PollBeginStep ==
    ASSUME IInv, PollBegin
    PROVE  IInv'
<1>1. /\ ClientOK /\ ConnOK /\ RequestOK /\ SendOK /\ PollOK /\ SendInOrder /\ NoRequestForgotten
  BY Parts
<1>2. /\ PollOK' /\ SendOK' /\ UNCHANGED <<clientVars, late, requestVars, out, mishaps>>
      /\ conn' = conn \/ (conn = "Closing" /\ conn' = "Closed")
  BY <1>1, PollBeginShape
<1>3. ClientOK' /\ RequestOK' /\ ConnOK'
  BY <1>1, <1>2, ClientFrame, RequestFrame DEF ConnOK
<1>4. SendInOrder'
  <2>1. Whole => Whole'
    BY <1>1, MovedWhole
  <2>2. ErrorQueued \/ ErrorBuffered \/ ErrorWritten => ErrorQueued' \/ ErrorBuffered' \/ ErrorWritten'
    BY <1>1, MovedError
  <2>3. mishaps' = mishaps /\ (conn' = "Running" => conn = "Running")
    BY <1>2
  <2> QED
    BY <1>1, <2>1, <2>2, <2>3 DEF SendInOrder
<1>5. NoRequestForgotten'
  <2>1. Known = Known' /\ Received' = Received
    BY <1>1, <1>2, MovedKnown DEF Received, clientVars
  <2>2. mishaps' = mishaps /\ (conn' = "Running" => conn = "Running")
    BY <1>2
  <2> QED
    BY <1>1, <2>1, <2>2, KnownFrame
<1> QED
  BY <1>2, <1>3, <1>4, <1>5, PartsNext

LEMMA EncodeDoneStep ==
    ASSUME IInv, EncodeDone
    PROVE  IInv'
<1>1. /\ ClientOK /\ ConnOK /\ RequestOK /\ SendOK /\ PollOK /\ SendInOrder /\ NoRequestForgotten
  BY Parts
<1>2. /\ poll.pc = "encoding" /\ buffer' = poll.chunk
      /\ poll' = [poll EXCEPT !.pc = "io", !.chunk = <<>>]
      /\ UNCHANGED <<clientVars, conn, late, requestVars, responses, chunks, nextSeq, out, mishaps>>
  BY DEF EncodeDone
<1>3. /\ poll \in Poll /\ poll.chunk \in Seq(Chunk) /\ Len(poll.chunk) = 1 /\ buffer = <<>>
      /\ poll.frame = <<>> /\ poll.batch = <<>>
  BY <1>1, <1>2 DEF PollOK, PollShape, Poll
<1>4. /\ poll' \in Poll /\ poll'.pc = "io" /\ poll'.chunk = <<>> /\ poll'.frame = <<>>
      /\ poll'.batch = <<>>
  <2>1. <<>> \in Seq(Chunk)
    OBVIOUS
  <2> QED
    BY <1>2, <1>3, <2>1 DEF Poll
<1>5. PollOK'
  BY <1>4 DEF PollOK, PollShape
<1>6. ClientOK' /\ RequestOK' /\ ConnOK'
  BY <1>1, <1>2, ClientFrame, RequestFrame DEF ConnOK
<1>7. SendOK'
  BY <1>1, <1>2, <1>3 DEF SendOK
<1>8. SendInOrder'
  <2>1. Len(out) \in Nat /\ Len(buffer) = 0 /\ Len(buffer') = 1 /\ Len(poll.chunk) = 1
        /\ Len(poll'.chunk) = 0
    BY <1>1, <1>2, <1>3, <1>4, SeqFacts DEF SendOK
  <2>2. Whole => Whole'
    <3>1. /\ Len(out) + Len(buffer) = Len(out)
          /\ Len(out) + Len(buffer) + Len(poll.chunk) = Len(out') + Len(buffer') + Len(poll'.chunk)
      BY <1>2, <2>1
    <3>2. Numbered(poll'.chunk, Len(out') + Len(buffer'))
      BY <1>4 DEF Numbered
    <3> QED
      BY <1>2, <3>1, <3>2 DEF Whole
  <2>3. ~ErrorQueued /\ ~ErrorBuffered
    <3>1. poll.chunk # <<>>
      BY <1>3, SeqFacts
    <3> QED
      BY <3>1 DEF ErrorQueued, ErrorBuffered
  <2>4. ErrorWritten => ErrorWritten'
    <3>1. NoError(poll'.chunk)
      BY <1>4 DEF NoError
    <3> QED
      BY <1>2, <3>1 DEF ErrorWritten
  <2> QED
    BY <1>1, <1>2, <2>2, <2>3, <2>4 DEF SendInOrder
<1>9. NoRequestForgotten'
  <2>1. Received' = Received
    BY <1>2 DEF Received, clientVars
  <2>2. Known' = Known
    BY <1>2, <1>3, <1>4 DEF Known, requestVars
  <2> QED
    BY <1>1, <1>2, <2>1, <2>2, KnownFrame
<1> QED
  BY <1>5, <1>6, <1>7, <1>8, <1>9, PartsNext

\* The chunk in the send buffer is the next one on the wire.
LEMMA WriteOutInOrder ==
    ASSUME SendOK, SendInOrder, buffer # <<>>, out' = out \o buffer, buffer' = <<>>,
           poll.chunk = <<>>, poll'.chunk = <<>>, UNCHANGED <<conn, chunks, nextSeq, mishaps>>
    PROVE  SendInOrder'
<1>1. /\ out \in Seq(Chunk) /\ buffer \in Seq(Chunk) /\ Len(out) \in Nat /\ Len(buffer) = 1
      /\ Len(buffer') = 0 /\ Len(poll.chunk) = 0 /\ Len(poll'.chunk) = 0
      /\ DOMAIN out = 1..Len(out) /\ DOMAIN buffer = {1}
  <2>1. out \in Seq(Chunk) /\ buffer \in Seq(Chunk) /\ Len(buffer) <= 1
    BY DEF SendOK
  <2>2. /\ Len(out) \in Nat /\ DOMAIN out = 1..Len(out) /\ Len(buffer) \in Nat /\ Len(buffer) # 0
        /\ DOMAIN buffer = 1..Len(buffer)
    BY <2>1, SeqFacts
  <2>3. Len(buffer) = 1 /\ 1..1 = {1}
    BY <2>1, <2>2
  <2>4. Len(buffer') = 0 /\ Len(poll.chunk) = 0 /\ Len(poll'.chunk) = 0
    OBVIOUS
  <2> QED
    BY <2>1, <2>2, <2>3, <2>4
<1>2. /\ out' \in Seq(Chunk) /\ Len(out') = Len(out) + 1 /\ DOMAIN out' = 1..(Len(out) + 1)
      /\ \A k \in 1..Len(out) : out'[k] = out[k]
      /\ out'[Len(out) + 1] = buffer[1]
  <2>1. PICK b : b = buffer
    OBVIOUS
  <2>2. b \in Seq(Chunk) /\ Len(b) = 1 /\ out' = out \o b /\ out \in Seq(Chunk)
    BY <1>1, <2>1
  <2>3. /\ out \o b \in Seq(Chunk) /\ Len(out \o b) = Len(out) + Len(b)
        /\ \A k \in 1..Len(out) + Len(b) :
             (out \o b)[k] = IF k <= Len(out) THEN out[k] ELSE b[k - Len(out)]
    BY <2>2, ConcatProperties
  <2>4. DOMAIN out' = 1..Len(out') /\ Len(out') = Len(out) + 1
    BY <2>2, <2>3, SeqFacts
  <2>5. \A k \in 1..(Len(out) + 1) : out'[k] = IF k <= Len(out) THEN out[k] ELSE b[k - Len(out)]
    BY <2>2, <2>3
  <2>6. (Len(out) + 1) - Len(out) = 1 /\ ~(Len(out) + 1 <= Len(out))
        /\ Len(out) + 1 \in 1..(Len(out) + 1) /\ \A k \in 1..Len(out) : k \in 1..(Len(out) + 1) /\ k <= Len(out)
    BY <1>1
  <2>7. out'[Len(out) + 1] = b[1] /\ \A k \in 1..Len(out) : out'[k] = out[k]
    BY <2>5, <2>6
  <2> QED
    BY <2>1, <2>2, <2>3, <2>4, <2>7
<1>3. \A k : k \in DOMAIN out' <=> k \in 1..Len(out) \/ k = Len(out) + 1
  BY <1>1, <1>2
<1>4. ~(Len(out) + 1 \in 1..Len(out)) /\ \A k \in 1..Len(out) : k < Len(out) + 1
  BY <1>1
<1>5. Numbered(buffer', Len(out')) /\ Numbered(poll'.chunk, Len(out') + Len(buffer'))
      /\ NoError(buffer') /\ NoError(poll'.chunk)
  BY DEF Numbered, NoError
<1>6. Numbered(out, 0) /\ Numbered(buffer, Len(out)) => Numbered(out', 0)
  <2>1. 0 + Len(out) = Len(out)
    BY <1>1
  <2> QED
    BY <1>1, <2>1, NumberedConcat
<1>7. Whole => Whole'
  <2>1. Len(out) + Len(buffer) + Len(poll.chunk) = Len(out') + Len(buffer') + Len(poll'.chunk)
    BY <1>1, <1>2
  <2> QED
    BY <1>5, <1>6, <2>1 DEF Whole
<1>8. ErrorQueued => ErrorQueued'
  BY <1>5, <1>6 DEF ErrorQueued
<1>9. ErrorBuffered => ErrorWritten'
  <2> SUFFICES ASSUME ErrorBuffered
               PROVE  ErrorWritten'
    OBVIOUS
  <2>1. /\ \A k \in 1..Len(out) : out[k].seq = 0 + k /\ out[k].kind # "err"
        /\ buffer[1].kind = "err" /\ NoError(chunks)
    BY <1>1 DEF ErrorBuffered, Numbered
  <2>2. \A k \in 1..Len(out) : out'[k].seq = k /\ out'[k].kind # "err"
    BY <1>2, <2>1
  <2>3. PICK e : e = Len(out) + 1
    OBVIOUS
  <2>4. e \in DOMAIN out' /\ out'[e].kind = "err"
    BY <1>2, <1>3, <2>1, <2>3
  <2>5. \A k \in DOMAIN out' : (k # e => out'[k].kind # "err") /\ (k < e => out'[k].seq = k)
    BY <1>1, <1>3, <2>2, <2>3
  <2> QED
    BY <1>5, <2>1, <2>4, <2>5 DEF ErrorWritten
<1>10. ErrorWritten => ErrorWritten'
  <2> SUFFICES ASSUME ErrorWritten
               PROVE  ErrorWritten'
    OBVIOUS
  <2>1. PICK e \in 1..Len(out) :
          /\ out[e].kind = "err"
          /\ \A k \in 1..Len(out) : k # e => out[k].kind # "err"
          /\ \A k \in 1..Len(out) : k < e => out[k].seq = k
    BY <1>1 DEF ErrorWritten
  <2>2. buffer[1].kind # "err" /\ NoError(chunks)
    BY <1>1 DEF ErrorWritten, NoError
  <2>3. e \in DOMAIN out' /\ out'[e].kind = "err" /\ ~(Len(out) + 1 < e)
    BY <1>1, <1>2, <1>3, <2>1
  <2>4. \A k \in DOMAIN out' : (k # e => out'[k].kind # "err") /\ (k < e => out'[k].seq = k)
    BY <1>2, <1>3, <2>1, <2>2, <2>3
  <2> QED
    BY <1>5, <2>2, <2>3, <2>4 DEF ErrorWritten
<1> QED
  BY <1>7, <1>8, <1>9, <1>10 DEF SendInOrder

LEMMA WriteOutStep ==
    ASSUME IInv, WriteOut
    PROVE  IInv'
<1>1. /\ ClientOK /\ ConnOK /\ RequestOK /\ SendOK /\ PollOK /\ SendInOrder /\ NoRequestForgotten
  BY Parts
<1>2. /\ poll.pc = "io" /\ buffer # <<>> /\ out' = out \o buffer /\ buffer' = <<>> /\ poll' = NoPoll
      /\ UNCHANGED <<clientVars, conn, late, requestVars, responses, chunks, nextSeq, mishaps>>
  BY DEF WriteOut
<1>3. poll.chunk = <<>> /\ poll.frame = <<>> /\ poll.batch = <<>>
  BY <1>1, <1>2 DEF PollOK, PollShape
<1>4. poll'.chunk = <<>> /\ poll'.frame = <<>> /\ poll'.batch = <<>> /\ PollOK'
  BY <1>2, NoPollFacts, PollEnds
<1>5. out \in Seq(Chunk) /\ buffer \in Seq(Chunk)
  BY <1>1 DEF SendOK
<1>6. out' \in Seq(Chunk) /\ IdsIn(out') = IdsIn(out) \cup IdsIn(buffer)
  BY <1>2, <1>5, ConcatFacts, IdsInConcat
<1>7. ClientOK' /\ RequestOK' /\ ConnOK'
  BY <1>1, <1>2, ClientFrame, RequestFrame DEF ConnOK
<1>8. SendOK'
  <2>1. buffer' \in Seq(Chunk) /\ Len(buffer') <= 1
    BY <1>2
  <2> QED
    BY <1>1, <1>2, <1>6, <2>1 DEF SendOK
<1>9. SendInOrder'
  BY <1>1, <1>2, <1>3, <1>4, WriteOutInOrder
<1>10. NoRequestForgotten'
  <2>1. Received' = Received
    BY <1>2 DEF Received, clientVars
  <2>2. Known \subseteq Known'
    BY <1>2, <1>3, <1>4, <1>6 DEF Known, requestVars
  <2> QED
    BY <1>1, <1>2, <2>1, <2>2, KnownFrame
<1> QED
  BY <1>4, <1>7, <1>8, <1>9, <1>10, PartsNext

LEMMA ReadEndStep ==
    ASSUME IInv, ReadEnd
    PROVE  IInv'
<1>1. /\ ClientOK /\ ConnOK /\ RequestOK /\ SendOK /\ PollOK /\ SendInOrder /\ NoRequestForgotten
  BY Parts
<1>2. /\ poll.pc = "io" /\ conn' = "Closed" /\ poll' = NoPoll
      /\ UNCHANGED <<clientVars, late, requestVars, sendVars, mishaps>>
  BY DEF ReadEnd
<1>3. poll.chunk = <<>> /\ poll'.chunk = <<>> /\ PollOK'
  BY <1>1, <1>2, NoPollFacts, PollEnds DEF PollOK, PollShape
<1>4. ClientOK' /\ RequestOK' /\ SendOK' /\ ConnOK'
  BY <1>1, <1>2, ClientFrame, RequestFrame, SendFrame DEF ConnOK
<1>5. SendInOrder'
  BY <1>1, <1>2, <1>3, InOrderFrame DEF sendVars
<1>6. NoRequestForgotten'
  BY <1>2 DEF NoRequestForgotten
<1> QED
  BY <1>3, <1>4, <1>5, <1>6, PartsNext

\* The frame that is read is the next one received.
LEMMA ReadStep ==
    ASSUME IInv, Read
    PROVE  IInv'
<1>1. /\ ClientOK /\ ConnOK /\ RequestOK /\ SendOK /\ PollOK /\ SendInOrder /\ NoRequestForgotten
  BY Parts
<1>2. /\ poll.pc \in {"io", "drain"} /\ wireIn # <<>>
      /\ poll' = [poll EXCEPT !.pc = "verifying", !.frame = <<Head(wireIn)>>]
      /\ wireIn' = Tail(wireIn)
      /\ UNCHANGED <<sent, eof, conn, late, requestVars, sendVars, mishaps>>
  BY DEF Read
<1>3. PICK h : h = Head(wireIn)
  OBVIOUS
<1>4. /\ wireIn \in Seq(Frame) /\ sent \in Nat /\ Len(wireIn) \in Nat \ {0} /\ Len(wireIn) <= sent
      /\ \A k \in 1..Len(wireIn) : wireIn[k].id = sent - Len(wireIn) + k
  BY <1>1, <1>2, ServerConnectionAssumption DEF ClientOK, FramesInOrder
<1>5. /\ h \in Frame /\ h = wireIn[1] /\ wireIn' \in Seq(Frame)
      /\ Len(wireIn') = Len(wireIn) - 1 /\ DOMAIN wireIn' = 1..(Len(wireIn) - 1)
      /\ \A k \in 1..Len(wireIn) - 1 : wireIn'[k] = wireIn[k + 1]
  BY <1>2, <1>3, <1>4, TailFacts, SeqFacts
<1>6. h.id = sent - Len(wireIn) + 1
  BY <1>4, <1>5
<1>7. /\ <<h>> \in Seq(Frame) /\ Len(<<h>>) = 1
  BY <1>5, SingletonFacts
<1>8. poll.chunk = <<>> /\ poll.frame = <<>> /\ poll \in Poll
  BY <1>1, <1>2 DEF PollOK, PollShape
<1>9. /\ poll' \in Poll /\ poll'.pc = "verifying" /\ poll'.chunk = <<>> /\ poll'.frame = <<h>>
      /\ poll'.batch = poll.batch
  BY <1>2, <1>3, <1>7, <1>8 DEF Poll
<1>10. PollOK'
  BY <1>7, <1>9 DEF PollOK, PollShape
<1>11. ClientOK'
  <2>1. Len(wireIn') <= sent'
    BY <1>2, <1>4, <1>5
  <2>2. ASSUME NEW k \in 1..(Len(wireIn) - 1)
        PROVE  wireIn'[k].id = sent' - Len(wireIn') + k
    <3>1. k + 1 \in 1..Len(wireIn)
      BY <1>4
    <3>2. wireIn'[k].id = sent - Len(wireIn) + (k + 1)
      BY <1>4, <1>5, <3>1
    <3> QED
      BY <1>2, <1>4, <1>5, <3>2
  <2>3. FramesInOrder'
    BY <1>5, <2>1, <2>2 DEF FramesInOrder
  <2> QED
    BY <1>1, <1>2, <1>5, <2>3 DEF ClientOK
<1>12. RequestOK' /\ SendOK' /\ ConnOK'
  BY <1>1, <1>2, RequestFrame, SendFrame DEF ConnOK
<1>13. SendInOrder'
  BY <1>1, <1>2, <1>8, <1>9, InOrderFrame DEF sendVars
<1>14. NoRequestForgotten'
  <2>1. Received' = Received \cup {h.id}
    <3>1. PICK n \in Nat : n = sent - Len(wireIn)
      BY <1>4
    <3>2. sent' - Len(wireIn') = n + 1 /\ h.id = n + 1
      BY <1>2, <1>4, <1>5, <1>6, <3>1
    <3>3. 1..(n + 1) = (1..n) \cup {n + 1}
      OBVIOUS
    <3> QED
      BY <3>1, <3>2, <3>3 DEF Received
  <2>2. IdsIn(poll'.frame) = {h.id} /\ IdsIn(poll.frame) = {}
    BY <1>8, <1>9, IdsInSmall
  <2>3. Known \subseteq Known' /\ h.id \in Known'
    BY <1>2, <1>8, <1>9, <2>2 DEF Known, requestVars, sendVars
  <2> QED
    BY <1>1, <1>2, <2>1, <2>3, KnownFrame
<1> QED
  BY <1>10, <1>11, <1>12, <1>13, <1>14, PartsNext

\* A message that is encoded takes its place at the end of the sequence.
LEMMA WriteInOrder ==
    ASSUME SendOK, SendInOrder, NEW kind \in {"msg", "osc"}, NEW id \in Ids, Write(kind, id),
           poll.chunk = <<>>, poll'.chunk = <<>>, UNCHANGED <<conn, buffer, out>>,
           mishaps \subseteq mishaps'
    PROVE  SendInOrder'
<1>1. PICK w : w = Written(kind, id)
  OBVIOUS
<1>2. /\ w \in Chunk /\ w.seq = nextSeq /\ w.kind # "err" /\ chunks' = Append(chunks, w)
      /\ nextSeq' = nextSeq + 1 /\ nextSeq \in Nat /\ chunks \in Seq(Chunk)
  BY <1>1, WriteFacts DEF SendOK
<1>3. PICK n : n = Len(chunks)
  OBVIOUS
<1>4. /\ n \in Nat /\ DOMAIN chunks = 1..n /\ Len(chunks') = n + 1 /\ DOMAIN chunks' = 1..(n + 1)
      /\ (\A k \in 1..n : chunks'[k] = chunks[k]) /\ chunks'[n + 1] = w /\ chunks' # <<>>
  BY <1>2, <1>3, AppendFacts, SeqFacts
<1>5. \A k : k \in 1..(n + 1) <=> k \in 1..n \/ k = n + 1
  BY <1>4
<1>6. Whole => Whole'
  <2> SUFFICES ASSUME Whole
               PROVE  Whole'
    OBVIOUS
  <2>1. PICK base : base = Len(out) + Len(buffer) + Len(poll.chunk)
    OBVIOUS
  <2>2. base \in Nat /\ base = Len(out') + Len(buffer') + Len(poll'.chunk)
    <3>1. Len(out) \in Nat /\ Len(buffer) \in Nat /\ Len(poll.chunk) = 0
      BY SeqFacts DEF SendOK
    <3> QED
      BY <2>1, <3>1
  <2>3. Numbered(chunks, base) /\ nextSeq = base + n + 1
    BY <1>3, <2>1 DEF Whole
  <2>4. \A k \in 1..(n + 1) : chunks'[k].seq = base + k /\ chunks'[k].kind # "err"
    <3> TAKE k \in 1..(n + 1)
    <3>1. CASE k \in 1..n
      BY <1>4, <2>3, <3>1 DEF Numbered
    <3>2. CASE k = n + 1
      <4>1. base + n + 1 = base + k
        BY <1>4, <2>2, <3>2
      <4> QED
        BY <1>2, <1>4, <2>3, <3>2, <4>1
    <3> QED
      BY <1>5, <3>1, <3>2
  <2>5. Numbered(chunks', base)
    BY <1>4, <2>4 DEF Numbered
  <2>6. nextSeq' = base + Len(chunks') + 1
    BY <1>2, <1>4, <2>2, <2>3
  <2>7. Numbered(out', 0) /\ Numbered(buffer', Len(out'))
        /\ Numbered(poll'.chunk, Len(out') + Len(buffer'))
    BY DEF Whole
  <2> QED
    BY <2>2, <2>5, <2>6, <2>7 DEF Whole
<1>7. ErrorQueued => ErrorQueued'
  <2> SUFFICES ASSUME ErrorQueued
               PROVE  ErrorQueued'
    OBVIOUS
  <2>1. 1 \in 1..n
    BY <1>2, <1>3, <1>4, SeqFacts DEF ErrorQueued
  <2>2. chunks'[1].kind = "err"
    BY <1>4, <2>1 DEF ErrorQueued
  <2>3. \A k \in DOMAIN chunks' : k > 1 => chunks'[k].kind # "err"
    BY <1>2, <1>4, <1>5 DEF ErrorQueued
  <2>4. Numbered(out', 0) /\ Numbered(buffer', Len(out'))
    BY DEF ErrorQueued
  <2> QED
    BY <1>4, <2>2, <2>3, <2>4 DEF ErrorQueued
<1>8. NoError(chunks) => NoError(chunks')
  BY <1>2, <1>4, <1>5 DEF NoError
<1>9. (ErrorBuffered => ErrorBuffered') /\ (ErrorWritten => ErrorWritten')
  BY <1>8 DEF ErrorBuffered, ErrorWritten
<1> QED
  BY <1>6, <1>7, <1>9 DEF SendInOrder

LEMMA WriteKnown ==
    ASSUME SendOK, NEW kind \in {"msg", "osc"}, NEW id \in Ids, Write(kind, id)
    PROVE  IdsIn(chunks') = IdsIn(chunks) \cup {id}
<1>1. PICK w : w = Written(kind, id)
  OBVIOUS
<1>2. w \in Chunk /\ w.id = id /\ chunks' = Append(chunks, w) /\ chunks \in Seq(Chunk)
  BY <1>1, WriteFacts DEF SendOK
<1>3. IdsIn(Append(chunks, w)) = IdsIn(chunks) \cup {w.id}
  BY <1>2, IdsInAppend
<1> QED
  BY <1>2, <1>3

\* A request that is held by the poll, and the sequences that hold it.
LEMMA HeadFacts ==
    ASSUME NEW s \in Seq(Frame), s # <<>>
    PROVE  Head(s) \in Frame /\ Head(s).id \in Ids /\ Head(s).kind \in Kinds
<1>1. PICK h : h = Head(s)
  OBVIOUS
<1>2. h \in Frame
  BY <1>1, TailFacts
<1>3. h.id \in Ids /\ h.kind \in Kinds
  BY <1>2 DEF Frame
<1> QED
  BY <1>1, <1>2, <1>3

LEMMA VerifiedStep ==
    ASSUME IInv, Verified
    PROVE  IInv'
<1>1. /\ ClientOK /\ ConnOK /\ RequestOK /\ SendOK /\ PollOK /\ SendInOrder /\ NoRequestForgotten
  BY Parts
<1>2. /\ poll.pc = "verifying"
      /\ UNCHANGED <<clientVars, conn, late, requestVars, responses, buffer, out>>
  BY DEF Verified
<1>3. /\ poll \in Poll /\ poll.chunk = <<>> /\ poll.frame \in Seq(Frame) /\ Len(poll.frame) = 1
      /\ poll.batch \in Seq(Frame)
  BY <1>1, <1>2 DEF PollOK, PollShape, Poll
<1>4. PICK h : h = Head(poll.frame)
  OBVIOUS
<1>5. poll.frame # <<>>
  <2>1. poll.frame \in Seq(Frame) /\ Len(poll.frame) = 1
    BY <1>3
  <2> QED
    BY <2>1, SeqFacts
<1>6. h.id \in Ids /\ IdsIn(poll.frame) = {h.id}
  <2>1. h.id \in Ids
    BY <1>3, <1>4, <1>5, HeadFacts
  <2>2. Tail(poll.frame) = <<>>
    <3>1. Tail(poll.frame) \in Seq(Frame) /\ Len(Tail(poll.frame)) = 0
      BY <1>3, <1>5, TailFacts
    <3> QED
      BY <3>1, SeqFacts
  <2> QED
    BY <1>3, <1>4, <1>5, <2>1, <2>2, IdsInTail, IdsInSmall
<1>7. ClientOK' /\ RequestOK' /\ Received' = Received
  BY <1>1, <1>2, ClientFrame, RequestFrame DEF Received, clientVars
<1>8. CASE h.kind = "bad"
  <2>1. /\ Write("msg", h.id) /\ poll' = NoPoll
        /\ mishaps' = IF poll.batch = <<>> THEN mishaps ELSE mishaps \union {"drain"}
    BY <1>4, <1>8 DEF Verified
  <2>2. poll'.chunk = <<>> /\ PollOK'
    BY <2>1, NoPollFacts, PollEnds
  <2>3. chunks' \in Seq(Chunk) /\ nextSeq' \in Nat
    BY <1>1, <1>6, <2>1, WriteFacts
  <2>4. SendOK' /\ ConnOK'
    BY <1>1, <1>2, <2>1, <2>3 DEF SendOK, ConnOK
  <2>5. mishaps \subseteq mishaps' /\ (mishaps' = {} => poll.batch = <<>>)
    BY <2>1
  <2>6. SendInOrder'
    BY <1>1, <1>2, <1>3, <1>6, <2>1, <2>2, <2>5, WriteInOrder
  <2>7. IdsIn(chunks') = IdsIn(chunks) \cup {h.id}
    BY <1>1, <1>6, <2>1, WriteKnown
  <2>8. mishaps' = {} => Known \subseteq Known'
    <3>1. IdsIn(poll.chunk) = {} /\ (mishaps' = {} => IdsIn(poll.batch) = {})
      BY <1>3, <2>5, IdsInSmall
    <3> QED
      BY <1>2, <1>6, <2>7, <3>1 DEF Known, requestVars
  <2>9. NoRequestForgotten'
    BY <1>1, <1>2, <1>7, <2>5, <2>8, KnownFrame
  <2> QED
    BY <1>7, <2>2, <2>4, <2>6, <2>9, PartsNext
<1>9. CASE h.kind # "bad"
  <2>1. /\ poll' = [poll EXCEPT !.pc = "drain", !.frame = <<>>, !.batch = @ \o poll.frame]
        /\ UNCHANGED <<chunks, nextSeq, mishaps>>
    BY <1>4, <1>9 DEF Verified
  <2>2. PICK b : b = poll.batch \o poll.frame
    OBVIOUS
  <2>3. b \in Seq(Frame) /\ IdsIn(b) = IdsIn(poll.batch) \cup IdsIn(poll.frame)
    BY <1>3, <2>2, ConcatFacts, IdsInConcat
  <2>4. <<>> \in Seq(Frame)
    OBVIOUS
  <2>5. /\ poll' \in Poll /\ poll'.pc = "drain" /\ poll'.chunk = <<>> /\ poll'.frame = <<>>
        /\ poll'.batch = b
    <3>1. poll' = [poll EXCEPT !.pc = "drain", !.frame = <<>>, !.batch = b]
      BY <2>1, <2>2
    <3> QED
      BY <1>3, <2>3, <2>4, <3>1 DEF Poll
  <2>6. PollOK'
    BY <2>5 DEF PollOK, PollShape
  <2>7. SendOK' /\ ConnOK'
    BY <1>1, <1>2, <2>1 DEF SendOK, ConnOK
  <2>8. SendInOrder'
    BY <1>1, <1>2, <1>3, <2>1, <2>5, InOrderFrame
  <2>9. Known \subseteq Known'
    BY <1>2, <1>3, <2>1, <2>3, <2>5 DEF Known, requestVars
  <2>10. NoRequestForgotten'
    BY <1>1, <1>2, <1>7, <2>1, <2>9, KnownFrame
  <2> QED
    BY <1>7, <2>6, <2>7, <2>8, <2>10, PartsNext
<1> QED
  BY <1>8, <1>9

LEMMA DrainEndsStep ==
    ASSUME IInv, DrainEnds
    PROVE  IInv'
<1>1. /\ ClientOK /\ ConnOK /\ RequestOK /\ SendOK /\ PollOK /\ SendInOrder /\ NoRequestForgotten
  BY Parts
<1>2. /\ poll.pc = "drain" /\ poll' = [poll EXCEPT !.pc = "process"]
      /\ UNCHANGED <<clientVars, conn, late, requestVars, sendVars, mishaps>>
  BY DEF DrainEnds
<1>3. poll \in Poll /\ poll.chunk = <<>> /\ poll.frame = <<>>
  BY <1>1, <1>2 DEF PollOK, PollShape
<1>4. /\ poll' \in Poll /\ poll'.pc = "process" /\ poll'.chunk = <<>> /\ poll'.frame = <<>>
      /\ poll'.batch = poll.batch
  BY <1>2, <1>3 DEF Poll
<1>5. PollOK'
  BY <1>4 DEF PollOK, PollShape
<1>6. ClientOK' /\ RequestOK' /\ SendOK' /\ ConnOK'
  BY <1>1, <1>2, ClientFrame, RequestFrame, SendFrame DEF ConnOK
<1>7. SendInOrder'
  BY <1>1, <1>2, <1>3, <1>4, InOrderFrame DEF sendVars
<1>8. NoRequestForgotten'
  <2>1. Received' = Received
    BY <1>2 DEF Received, clientVars
  <2>2. Known' = Known
    BY <1>2, <1>3, <1>4 DEF Known, requestVars, sendVars
  <2> QED
    BY <1>1, <1>2, <2>1, <2>2, KnownFrame
<1> QED
  BY <1>5, <1>6, <1>7, <1>8, PartsNext

LEMMA ProcessNoneStep ==
    ASSUME IInv, ProcessNone
    PROVE  IInv'
<1>1. /\ ClientOK /\ ConnOK /\ RequestOK /\ SendOK /\ PollOK /\ SendInOrder /\ NoRequestForgotten
  BY Parts
<1>2. /\ poll.pc = "process" /\ poll' = NoPoll
      /\ mishaps' = IF poll.batch = <<>> THEN mishaps ELSE mishaps \union {"limit"}
      /\ UNCHANGED <<clientVars, conn, late, requestVars, sendVars>>
  BY DEF ProcessNone
<1>3. poll.chunk = <<>> /\ poll.frame = <<>>
  BY <1>1, <1>2 DEF PollOK, PollShape
<1>4. poll'.chunk = <<>> /\ PollOK'
  BY <1>2, NoPollFacts, PollEnds
<1>5. mishaps \subseteq mishaps' /\ (mishaps' = {} => poll.batch = <<>>)
  BY <1>2
<1>6. ClientOK' /\ RequestOK' /\ SendOK' /\ ConnOK'
  BY <1>1, <1>2, ClientFrame, RequestFrame, SendFrame DEF ConnOK
<1>7. SendInOrder'
  BY <1>1, <1>2, <1>3, <1>4, <1>5, InOrderFrame DEF sendVars
<1>8. NoRequestForgotten'
  <2>1. Received' = Received
    BY <1>2 DEF Received, clientVars
  <2>2. mishaps' = {} => Held = {}
    BY <1>3, <1>5, IdsInSmall DEF Held
  <2>3. Settled' = Settled
    BY <1>2 DEF Settled, requestVars, sendVars
  <2>4. Settled' \subseteq Known'
    BY DEF Settled, Known
  <2>5. mishaps' = {} => Known \subseteq Known'
    BY <2>2, <2>3, <2>4, KnownParts
  <2> QED
    BY <1>1, <1>2, <1>5, <2>1, <2>5, KnownFrame
<1> QED
  BY <1>4, <1>6, <1>7, <1>8, PartsNext

LEMMA ProcessStep ==
    ASSUME IInv, Process
    PROVE  IInv'
<1>1. /\ ClientOK /\ ConnOK /\ RequestOK /\ SendOK /\ PollOK /\ SendInOrder /\ NoRequestForgotten
  BY Parts
<1>2. PICK r : r = Head(poll.batch)
  OBVIOUS
<1>3. /\ poll.pc = "process" /\ poll.batch # <<>>
      /\ UNCHANGED <<clientVars, late, responses, buffer, out, mishaps>>
  BY DEF Process
<1>4. poll \in Poll /\ poll.chunk = <<>> /\ poll.frame = <<>> /\ poll.batch \in Seq(Frame)
  BY <1>1, <1>3 DEF PollOK, PollShape, Poll
<1>5. /\ r.id \in Ids /\ Tail(poll.batch) \in Seq(Frame)
      /\ IdsIn(poll.batch) = {r.id} \cup IdsIn(Tail(poll.batch))
  BY <1>2, <1>3, <1>4, HeadFacts, TailFacts, IdsInTail
<1>6. ClientOK' /\ Received' = Received
  BY <1>1, <1>3, ClientFrame DEF Received, clientVars
<1>7. ASSUME poll' = [poll EXCEPT !.batch = Tail(@)]
      PROVE  /\ poll' \in Poll /\ poll'.pc = "process" /\ poll'.chunk = <<>> /\ poll'.frame = <<>>
             /\ poll'.batch = Tail(poll.batch) /\ PollOK'
  <2>1. PICK t : t = Tail(poll.batch)
    OBVIOUS
  <2>2. poll' = [poll EXCEPT !.batch = t] /\ t \in Seq(Frame)
    BY <1>5, <1>7, <2>1
  <2>3. /\ poll' \in Poll /\ poll'.pc = "process" /\ poll'.chunk = <<>> /\ poll'.frame = <<>>
        /\ poll'.batch = t
    BY <1>3, <1>4, <2>2 DEF Poll
  <2>4. PollOK'
    BY <2>3 DEF PollOK, PollShape
  <2> QED
    BY <2>1, <2>3, <2>4
<1>8. CASE /\ r.kind \in {"sync", "osc"}
           /\ Write(IF r.kind = "osc" THEN "osc" ELSE "msg", r.id)
           /\ poll' = [poll EXCEPT !.batch = Tail(@)]
           /\ UNCHANGED <<conn, requestVars>>
  <2>1. PICK kind \in {"msg", "osc"} : Write(kind, r.id)
    BY <1>8
  <2>2. chunks' \in Seq(Chunk) /\ nextSeq' \in Nat
    BY <1>1, <1>5, <2>1, WriteFacts
  <2>3. SendOK' /\ ConnOK' /\ RequestOK'
    BY <1>1, <1>3, <1>8, <2>2, RequestFrame DEF SendOK, ConnOK
  <2>4. SendInOrder'
    <3>1. poll'.chunk = <<>> /\ mishaps \subseteq mishaps'
      BY <1>3, <1>7, <1>8
    <3> QED
      BY <1>1, <1>3, <1>4, <1>5, <1>8, <2>1, <3>1, WriteInOrder
  <2>5. IdsIn(chunks') = IdsIn(chunks) \cup {r.id}
    BY <1>1, <1>5, <2>1, WriteKnown
  <2>6. Known \subseteq Known'
    BY <1>3, <1>4, <1>5, <1>7, <1>8, <2>5 DEF Known, requestVars
  <2>7. NoRequestForgotten'
    BY <1>1, <1>3, <1>6, <1>8, <2>6, KnownFrame
  <2> QED
    BY <1>6, <1>7, <1>8, <2>3, <2>4, <2>7, PartsNext
<1>9. CASE /\ deadlines' = With(deadlines, r.id, RequestTimeout)
           /\ completed' = completed \ {r.id}
           /\ signals' = signals \union {r.id}
           /\ pending' = With(pending, r.id, "running")
           /\ poll' = [poll EXCEPT !.batch = Tail(@)]
           /\ UNCHANGED <<conn, chunks, nextSeq>>
  <2>1. /\ DOMAIN deadlines' = DOMAIN deadlines \cup {r.id}
        /\ \A i \in DOMAIN deadlines' : deadlines'[i] = IF i = r.id THEN RequestTimeout ELSE deadlines[i]
    BY <1>9 DEF With
  <2>2. /\ DOMAIN pending' = DOMAIN pending \cup {r.id}
        /\ \A i \in DOMAIN pending' : pending'[i] = IF i = r.id THEN "running" ELSE pending[i]
    BY <1>9 DEF With
  <2>3. RequestTimeout \in 0..RequestTimeout
    BY ServerConnectionAssumption
  <2>4. \A i \in DOMAIN deadlines' : deadlines'[i] \in 0..RequestTimeout
    <3> TAKE i \in DOMAIN deadlines'
    <3>1. CASE i = r.id
      BY <2>1, <2>3, <3>1
    <3>2. CASE i # r.id
      BY <1>1, <2>1, <3>2 DEF RequestOK
    <3> QED
      BY <3>1, <3>2
  <2>5. \A i \in DOMAIN pending' : pending'[i] \in {"running", "done", "panicked"}
    BY <1>1, <2>2 DEF RequestOK
  <2>6. RequestOK'
    BY <1>1, <1>5, <1>9, <2>1, <2>2, <2>4, <2>5 DEF RequestOK
  <2>7. SendOK' /\ ConnOK'
    BY <1>1, <1>3, <1>9 DEF SendOK, ConnOK
  <2>8. SendInOrder'
    BY <1>1, <1>3, <1>4, <1>7, <1>9, InOrderFrame
  <2>9. Known \subseteq Known'
    BY <1>3, <1>4, <1>5, <1>7, <1>9, <2>2 DEF Known
  <2>10. NoRequestForgotten'
    BY <1>1, <1>3, <1>6, <1>9, <2>9, KnownFrame
  <2> QED
    BY <1>6, <1>7, <1>9, <2>6, <2>7, <2>8, <2>10, PartsNext
<1>10. CASE conn' = "Closing" /\ poll' = NoPoll /\ UNCHANGED <<chunks, nextSeq, requestVars>>
  <2>1. poll'.chunk = <<>> /\ PollOK'
    BY <1>10, NoPollFacts, PollEnds
  <2>2. SendOK' /\ ConnOK' /\ RequestOK'
    BY <1>1, <1>3, <1>10, RequestFrame DEF SendOK, ConnOK
  <2>3. SendInOrder'
    BY <1>1, <1>3, <1>4, <1>10, <2>1, InOrderFrame
  <2>4. NoRequestForgotten'
    BY <1>10 DEF NoRequestForgotten
  <2> QED
    BY <1>6, <2>1, <2>2, <2>3, <2>4, PartsNext
<1> QED
  BY <1>2, <1>8, <1>9, <1>10 DEF Process

-----------------------------------------------------------------------------
(***************************************************************************)
(* The theorems.                                                           *)
(***************************************************************************)

LEMMA InitHolds ==
    ASSUME Init
    PROVE  IInv
<1>1. /\ sent = 0 /\ wireIn = <<>> /\ eof = FALSE /\ conn = "Running" /\ late = FALSE
      /\ pending = <<>> /\ deadlines = <<>> /\ completed = {} /\ signals = {}
      /\ responses = <<>> /\ chunks = <<>> /\ buffer = <<>> /\ nextSeq = 1
      /\ poll = NoPoll /\ out = <<>> /\ mishaps = {}
  BY DEF Init
<1>2. DOMAIN <<>> = {} /\ Len(<<>>) = 0
  OBVIOUS
<1>3. <<>> \in Seq(Frame) /\ <<>> \in Seq(Chunk) /\ <<>> \in Seq(Ids)
  OBVIOUS
<1>4. ClientOK
  <2>1. sent \in 0..MaxRequests /\ eof \in BOOLEAN
    <3>1. 0 \in 0..MaxRequests
      BY ServerConnectionAssumption
    <3> QED
      BY <1>1, <3>1
  <2>2. wireIn \in Seq(Frame) /\ DOMAIN wireIn = {} /\ Len(wireIn) = 0
    BY <1>1, <1>3
  <2>3. FramesInOrder
    BY <1>1, <2>2 DEF FramesInOrder
  <2> QED
    BY <2>1, <2>2, <2>3 DEF ClientOK
<1>5. ConnOK /\ SendOK
  <2>1. ConnOK
    BY <1>1 DEF ConnOK
  <2>2. Len(buffer) <= 1 /\ nextSeq \in Nat
    BY <1>1
  <2>3. /\ responses \in Seq(Ids) /\ out \in Seq(Chunk)
        /\ chunks \in Seq(Chunk) /\ buffer \in Seq(Chunk)
    BY <1>1, <1>3
  <2> QED
    BY <2>1, <2>2, <2>3 DEF SendOK
<1>6. RequestOK
  BY <1>1, <1>2 DEF RequestOK
<1>7. PollOK /\ poll.chunk = <<>>
  BY <1>1, NoPollFacts DEF PollOK, PollShape
<1>8. Whole
  <2>1. \A base : Numbered(<<>>, base)
    BY <1>2 DEF Numbered
  <2>2. nextSeq = Len(out) + Len(buffer) + Len(poll.chunk) + Len(chunks) + 1
    BY <1>1, <1>2, <1>7
  <2> QED
    BY <1>1, <1>7, <2>1, <2>2 DEF Whole
<1>9. SendInOrder
  BY <1>8 DEF SendInOrder
<1>10. NoRequestForgotten
  <2>1. Received = 1..0 /\ 1..0 = {}
    BY <1>1, <1>2 DEF Received
  <2> QED
    BY <2>1 DEF NoRequestForgotten
<1> QED
  BY <1>4, <1>5, <1>6, <1>7, <1>9, <1>10, Parts

LEMMA NextPreserves ==
    ASSUME IInv, [Next]_vars
    PROVE  IInv'
<1>1. CASE Next
  <2>1. ASSUME NEW i \in DOMAIN pending,
               \/ HandlerEnds(i, "done") \/ HandlerEnds(i, "panicked")
               \/ ResponseArm(i) \/ PanicArm(i)
        PROVE  IInv'
    BY <2>1, HandlerEndsStep, ResponseStep, PanicStep
  <2>2. CASE PollStep
    BY <2>2, PollBeginStep, EncodeDoneStep, WriteOutStep, ReadEndStep, ReadStep, VerifiedStep,
       DrainEndsStep, ProcessNoneStep, ProcessStep DEF PollStep
  <2> QED
    BY <1>1, <2>1, <2>2, SendStep, DisconnectStep, TickStep, HaltStep, DeadlineStep DEF Next
<1>2. CASE UNCHANGED vars
  BY <1>2, SMTT(30) DEF vars, clientVars, requestVars, sendVars, IInv, TypeOK, PollShape, FramesInOrder,
     SendInOrder, Whole, ErrorQueued, ErrorBuffered, ErrorWritten, NoRequestForgotten, Received, Known
<1> QED
  BY <1>1, <1>2

LEMMA Invariance == Spec => []IInv
  BY InitHolds, NextPreserves, PTL DEF Spec

\* What is written before an error message has consecutive numbers.
LEMMA InOrderGives ==
    ASSUME SendOK, SendInOrder
    PROVE  WireContiguousUnlessCancelled
<1> SUFFICES ASSUME "encode" \notin mishaps
             PROVE  \A k \in DOMAIN BeforeError : BeforeError[k].seq = k
  BY DEF WireContiguousUnlessCancelled, WireContiguous
<1>1. out \in Seq(Chunk) /\ Len(out) \in Nat /\ DOMAIN out = 1..Len(out)
  BY SeqFacts DEF SendOK
<1>2. CASE Numbered(out, 0)
  <2>1. \A k \in 1..Len(out) : out[k].seq = 0 + k /\ out[k].kind # "err"
    BY <1>1, <1>2 DEF Numbered
  <2>2. BeforeError = out
    BY <1>1, <2>1 DEF BeforeError
  <2>3. \A k \in 1..Len(out) : out[k].seq = k
    BY <1>1, <2>1
  <2> QED
    BY <1>1, <2>2, <2>3
<1>3. CASE ErrorWritten
  <2>1. PICK e \in 1..Len(out) :
          /\ out[e].kind = "err"
          /\ \A k \in 1..Len(out) : k # e => out[k].kind # "err"
          /\ \A k \in 1..Len(out) : k < e => out[k].seq = k
    BY <1>1, <1>3 DEF ErrorWritten
  <2>2. (CHOOSE k \in DOMAIN out : out[k].kind = "err") = e
    BY <1>1, <2>1
  <2>3. BeforeError = SubSeq(out, 1, e - 1)
    BY <1>1, <2>1, <2>2 DEF BeforeError
  <2>4. e - 1 \in 0..Len(out) /\ e \in Nat
    BY <1>1
  <2>5. PICK s : s = SubSeq(out, 1, e - 1)
    OBVIOUS
  <2>6. DOMAIN s = 1..(e - 1) /\ \A k \in 1..(e - 1) : s[k] = out[k]
    BY <1>1, <2>4, <2>5
  <2>7. \A k \in 1..(e - 1) : k \in 1..Len(out) /\ k < e
    BY <1>1, <2>4
  <2> QED
    BY <2>1, <2>3, <2>5, <2>6, <2>7
<1>4. Numbered(out, 0) \/ ErrorWritten
  BY DEF SendInOrder, Whole, ErrorQueued, ErrorBuffered
<1> QED
  BY <1>2, <1>3, <1>4

\* The variables of a connection keep their types; the send buffer never holds more than
\* one chunk (comms/buffer.rs).
THEOREM TypeCorrect == Spec => []TypeOK
<1>1. IInv => TypeOK
  BY DEF IInv
<1> QED
  BY <1>1, Invariance, PTL

\* Whatever arm of the select! drops the poll of the transport, and at whatever await, the
\* client sees consecutive sequence numbers up to an error message; the only exception is a
\* poll that is dropped while an OpenSecureChannel chunk is being secured
\* (transport/tcp.rs, comms/buffer.rs).
THEOREM WireAlwaysContiguous == Spec => []WireContiguousUnlessCancelled
<1>1. IInv => WireContiguousUnlessCancelled
  BY Parts, InOrderGives
<1> QED
  BY <1>1, Invariance, PTL

\* A request that was received on a connection that still runs is in the batch, in flight,
\* or answered, unless one of the code's own exceptions was met (session/controller.rs).
THEOREM NoRequestEverForgotten == Spec => []NoRequestForgotten
<1>1. IInv => NoRequestForgotten
  BY DEF IInv
<1> QED
  BY <1>1, Invariance, PTL
=============================================================================
