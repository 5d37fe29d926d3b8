----------------------- MODULE SubscriptionCacheProofs ----------------------
(***************************************************************************)
(* Proofs about SubscriptionCache for every set of sessions and of callers *)
(* and every limit.                                                        *)
(***************************************************************************)
EXTENDS SubscriptionCache, FiniteSetTheorems, SequenceTheorems, TLAPS

-----------------------------------------------------------------------------
(***************************************************************************)
(* The inductive invariant.                                                *)
(***************************************************************************)

\* A call names actors that were spawned, n of them: past its lookup the one that gets its
\* command, and in a transfer the two ends.  It names a subscription unless it closes a
\* session.
Shaped(call, n) ==
    /\ {call.actor, call.source, call.dest} \subseteq 0..n
    /\ call.pc # "lookup" => call.actor # 0
    /\ call.op \in {"Clone", "Insert", "Mark", "Complete"} =>
         call.dest # 0 /\ (call.pc # "lookup" => call.source # 0)
    /\ call.sub = 0 => call.op \in {"GetIds", "Delete", "GetData"}
    /\ call.kind = "Delete" => call.sub # 0

CallsShaped == \A c \in DOMAIN calls : Shaped(calls[c], Len(actors))

\* A message in the channel of actor a: Stop comes from the cache, a command from a call
\* that awaits the answer of a.
FromCall(a, m) ==
    IF m.op = "Stop" THEN m.by = "cache"
    ELSE m.by \in DOMAIN calls /\ calls[m.by].pc = "sent" /\ calls[m.by].actor = a

\* A call has one command in a channel at most.
OneEach(mail) ==
    \A i, j \in DOMAIN mail : mail[i].op # "Stop" /\ mail[j].op # "Stop" /\ i # j =>
                                  mail[i].by # mail[j].by

MailOK(a, mail) == (\A i \in DOMAIN mail : FromCall(a, mail[i])) /\ OneEach(mail)

MailFromCalls == \A a \in ActorIds : MailOK(a, actors[a].mail)

\* No two sessions share an actor.
EntriesOwn == \A s \in DOMAIN entry : actors[entry[s]].session = s

\* A call that tears down actor a has taken it out of the cache.
TearsDown(c, a) == calls[c].op = "GetData" /\ calls[c].pc # "lookup" /\ calls[c].actor = a

TeardownHolds ==
    \A c \in DOMAIN calls, s \in DOMAIN entry : ~TearsDown(c, entry[s])

\* NoOrphanActor, with calls that are past the lookup only: before it, the actor of a call
\* is one of an earlier command.
NoActorLost ==
    \A a \in ActorIds :
        actors[a].alive =>
            \/ \E s \in DOMAIN entry : entry[s] = a
            \/ Stopping(a)
            \/ \E c \in DOMAIN calls : TearsDown(c, a)

\* A producer publishes a value that it has counted.
RoutesHaveValue == value = 0 => producer = {}

Shape == TypeOK /\ CallsShaped /\ RoutesHaveValue
Registry == MailFromCalls /\ EntriesOwn /\ EntriesAlive /\ TeardownHolds /\ NoActorLost
IInv == Shape /\ Registry

-----------------------------------------------------------------------------
(***************************************************************************)
(* Sequences, functions and finite sets.                                   *)
(***************************************************************************)

LEMMA SeqFacts ==
    ASSUME NEW S, NEW s \in Seq(S)
    PROVE  /\ Len(s) \in Nat /\ DOMAIN s = 1..Len(s) /\ (s = <<>> <=> Len(s) = 0)
           /\ \A k \in DOMAIN s : s[k] \in S
  OBVIOUS

LEMMA AppendFacts ==
    ASSUME NEW S, NEW s \in Seq(S), NEW e \in S
    PROVE  /\ Append(s, e) \in Seq(S) /\ Len(Append(s, e)) = Len(s) + 1
           /\ \A k \in 1..Len(s) : Append(s, e)[k] = s[k]
           /\ Append(s, e)[Len(s) + 1] = e
  OBVIOUS

LEMMA AppendDomain ==
    ASSUME NEW S, NEW s \in Seq(S), NEW e \in S
    PROVE  DOMAIN Append(s, e) = DOMAIN s \cup {Len(s) + 1} /\ ~(Len(s) + 1 \in DOMAIN s)
<1>1. Len(s) \in Nat /\ DOMAIN s = 1..Len(s) /\ DOMAIN Append(s, e) = 1..(Len(s) + 1)
  BY SeqFacts, AppendFacts
<1>2. 1..(Len(s) + 1) = (1..Len(s)) \cup {Len(s) + 1} /\ ~(Len(s) + 1 \in 1..Len(s))
  BY <1>1
<1> QED
  BY <1>1, <1>2

LEMMA TailFacts ==
    ASSUME NEW S, NEW s \in Seq(S), s # <<>>
    PROVE  /\ Head(s) \in S /\ Head(s) = s[1] /\ 1 \in DOMAIN s
           /\ Tail(s) \in Seq(S) /\ Len(Tail(s)) = Len(s) - 1
           /\ \A k \in 1..Len(s) - 1 : Tail(s)[k] = s[k + 1]
  OBVIOUS

\* The places of the tail are those of the sequence but the first.
LEMMA TailDomain ==
    ASSUME NEW S, NEW s \in Seq(S), s # <<>>
    PROVE  /\ \A k \in DOMAIN Tail(s) : k + 1 \in DOMAIN s /\ k + 1 # 1 /\ Tail(s)[k] = s[k + 1]
           /\ \A k \in DOMAIN s : k # 1 => k - 1 \in DOMAIN Tail(s) /\ Tail(s)[k - 1] = s[k]
           /\ \A j, k \in DOMAIN Tail(s) : j # k => j + 1 # k + 1
<1>1. /\ DOMAIN s = 1..Len(s) /\ Len(s) \in Nat \ {0}
      /\ DOMAIN Tail(s) = 1..(Len(s) - 1) /\ \A k \in 1..Len(s) - 1 : Tail(s)[k] = s[k + 1]
  BY TailFacts, SeqFacts
<1>2. \A k \in 1..(Len(s) - 1) : k + 1 \in 1..Len(s) /\ k + 1 # 1
  BY <1>1
<1>3. \A k \in 1..Len(s) : k # 1 => k - 1 \in 1..(Len(s) - 1) /\ (k - 1) + 1 = k
  BY <1>1
<1>4. \A j, k \in 1..(Len(s) - 1) : j # k => j + 1 # k + 1
  BY <1>1
<1> QED
  BY <1>1, <1>2, <1>3, <1>4

LEMMA LimitFacts ==
    /\ MaxSubs \in Nat /\ MaxPerSession \in Nat /\ MaxActors \in Nat /\ MaxCalls \in Nat
    /\ MaxValues \in Nat /\ RingCapacity \in Nat \ {0} /\ 0 \in 0..MaxSubs /\ 0 \in 0..MaxActors
    /\ SubIds \subseteq 0..MaxSubs /\ ~(0 \in SubIds)
    /\ \A n \in 0..MaxSubs : n # 0 => n \in SubIds
  BY CacheAssumption DEF SubIds

LEMMA SubsOf ==
    ASSUME NEW f
    PROVE  f \in Subscriptions <=> \E D \in SUBSET SubIds : f \in [D -> Sub]
  BY DEF Subscriptions

LEMMA SubsFacts ==
    ASSUME NEW f \in Subscriptions
    PROVE  /\ DOMAIN f \subseteq SubIds /\ \A id \in DOMAIN f : f[id] \in Sub
           /\ IsFiniteSet(DOMAIN f) /\ Cardinality(DOMAIN f) \in Nat
<1>1. PICK D \in SUBSET SubIds : f \in [D -> Sub]
  BY SubsOf
<1>2. DOMAIN f = D /\ \A id \in DOMAIN f : f[id] \in Sub
  BY <1>1
<1>3. IsFiniteSet(SubIds)
  BY LimitFacts, FS_Interval DEF SubIds
<1>4. IsFiniteSet(D)
  BY <1>3, FS_Subset
<1> QED
  BY <1>2, <1>4, FS_CardinalityType

LEMMA PutSubs ==
    ASSUME NEW f \in Subscriptions, NEW id \in SubIds, NEW y \in Sub
    PROVE  /\ Put(f, id, y) \in Subscriptions
           /\ Cardinality(DOMAIN f) < MaxPerSession => Cardinality(DOMAIN Put(f, id, y)) <= MaxPerSession
<1>1. PICK D : D = DOMAIN f \cup {id}
  OBVIOUS
<1>2. DOMAIN f \subseteq SubIds /\ \A x \in DOMAIN f : f[x] \in Sub
  BY SubsFacts
<1>3. Put(f, id, y) \in [D -> Sub] /\ D \in SUBSET SubIds /\ DOMAIN Put(f, id, y) = D
  BY <1>1, <1>2 DEF Put
<1>4. Put(f, id, y) \in Subscriptions
  BY <1>3, SubsOf
<1>5. IsFiniteSet(DOMAIN f) /\ Cardinality(DOMAIN f) \in Nat
  BY SubsFacts
<1>6. Cardinality(D) = Cardinality(DOMAIN f) \/ Cardinality(D) = Cardinality(DOMAIN f) + 1
  BY <1>1, <1>5, FS_AddElement
<1> QED
  BY <1>3, <1>4, <1>5, <1>6, LimitFacts

LEMMA DropSubs ==
    ASSUME NEW f \in Subscriptions, NEW S
    PROVE  Drop(f, S) \in Subscriptions /\ Cardinality(DOMAIN Drop(f, S)) <= Cardinality(DOMAIN f)
<1>1. PICK D : D = DOMAIN f \ S
  OBVIOUS
<1>2. DOMAIN f \subseteq SubIds /\ \A x \in DOMAIN f : f[x] \in Sub
  BY SubsFacts
<1>3. Drop(f, S) \in [D -> Sub] /\ D \in SUBSET SubIds /\ DOMAIN Drop(f, S) = D
  BY <1>1, <1>2 DEF Drop
<1>4. Drop(f, S) \in Subscriptions
  BY <1>3, SubsOf
<1>5. Cardinality(D) <= Cardinality(DOMAIN f)
  <2>1. IsFiniteSet(DOMAIN f) /\ D \subseteq DOMAIN f
    BY <1>1, SubsFacts
  <2> QED
    BY <2>1, FS_Subset
<1> QED
  BY <1>3, <1>4, <1>5

\* The same subscriptions, in another state.
LEMMA SameSubs ==
    ASSUME NEW f \in Subscriptions, NEW g, g = [id \in DOMAIN f |-> g[id]],
           \A id \in DOMAIN f : g[id] \in Sub
    PROVE  g \in Subscriptions /\ DOMAIN g = DOMAIN f
<1>1. PICK D : D = DOMAIN f
  OBVIOUS
<1>2. D \in SUBSET SubIds
  BY <1>1, SubsFacts
<1>3. g \in [D -> Sub]
  BY <1>1
<1>4. g \in Subscriptions
  BY <1>2, <1>3, SubsOf
<1> QED
  BY <1>1, <1>3, <1>4

-----------------------------------------------------------------------------
(***************************************************************************)
(* What an actor does to its state.                                        *)
(***************************************************************************)

\* An actor's state within its limits.
Fits(act) ==
    /\ act \in ActorState
    /\ Cardinality(DOMAIN act.subs) <= MaxPerSession
    /\ Len(act.ring) <= RingCapacity

\* The cache cannot tell the two apart.
Alike(act, old) == act.session = old.session /\ act.mail = old.mail /\ act.alive = old.alive

LEMMA NewActor ==
    ASSUME NEW s \in Sessions
    PROVE  Fits(Actor(s)) /\ Actor(s).session = s /\ Actor(s).mail = <<>> /\ Actor(s).alive
<1>1. PICK f : f = [i \in {} |-> NewSub]
  OBVIOUS
<1>2. f \in [{} -> Sub] /\ {} \in SUBSET SubIds /\ DOMAIN f = {}
  BY <1>1
<1>3. f \in Subscriptions
  BY <1>2, SubsOf
<1>4. PICK act : act = Actor(s)
  OBVIOUS
<1>5. act = [session |-> s, subs |-> f, transferring |-> {}, mail |-> <<>>, ring |-> <<>>, alive |-> TRUE]
  BY <1>1, <1>4 DEF Actor
<1>6. <<>> \in Seq(Message) /\ <<>> \in Seq(SubIds \X (1..MaxValues))
  OBVIOUS
<1>7. act \in ActorState
  BY <1>3, <1>5, <1>6 DEF ActorState
<1>8. Cardinality(DOMAIN act.subs) <= MaxPerSession
  <2>1. DOMAIN act.subs = {}
    BY <1>2, <1>5
  <2> QED
    BY <2>1, FS_EmptySet, LimitFacts
<1>9. Len(act.ring) <= RingCapacity
  BY <1>5, LimitFacts
<1> QED
  BY <1>4, <1>5, <1>7, <1>8, <1>9 DEF Fits

LEMMA FitsSubs ==
    ASSUME NEW act, Fits(act), NEW subs \in Subscriptions, Cardinality(DOMAIN subs) <= MaxPerSession
    PROVE  /\ Fits([act EXCEPT !.subs = subs]) /\ Alike([act EXCEPT !.subs = subs], act)
           /\ [act EXCEPT !.subs = subs].transferring = act.transferring
           /\ [act EXCEPT !.subs = subs].subs = subs
<1>1. PICK new : new = [act EXCEPT !.subs = subs]
  OBVIOUS
<1>2. act \in ActorState /\ Len(act.ring) <= RingCapacity
  BY DEF Fits
<1>3. /\ new \in ActorState /\ new.session = act.session /\ new.mail = act.mail
      /\ new.alive = act.alive /\ new.ring = act.ring /\ new.subs = subs
      /\ new.transferring = act.transferring
  BY <1>1, <1>2 DEF ActorState
<1> QED
  BY <1>1, <1>2, <1>3 DEF Fits, Alike

LEMMA FitsTransferring ==
    ASSUME NEW act, Fits(act), NEW T \in SUBSET SubIds
    PROVE  Fits([act EXCEPT !.transferring = T]) /\ Alike([act EXCEPT !.transferring = T], act)
<1>1. PICK new : new = [act EXCEPT !.transferring = T]
  OBVIOUS
<1>2. act \in ActorState
  BY DEF Fits
<1>3. /\ new \in ActorState /\ new.session = act.session /\ new.mail = act.mail
      /\ new.alive = act.alive /\ new.ring = act.ring /\ new.subs = act.subs
  BY <1>1, <1>2 DEF ActorState
<1> QED
  BY <1>1, <1>3 DEF Fits, Alike

LEMMA DrainedFacts ==
    ASSUME NEW act, Fits(act)
    PROVE  /\ Fits(Drained(act)) /\ Alike(Drained(act), act)
           /\ DOMAIN Drained(act).subs = DOMAIN act.subs
           /\ Drained(act).transferring = act.transferring
<1>1. PICK got : got = [id \in SubIds |-> {act.ring[i][2] : i \in {j \in DOMAIN act.ring : act.ring[j][1] = id}}]
  OBVIOUS
<1>2. act \in ActorState /\ act.ring \in Seq(SubIds \X (1..MaxValues)) /\ act.subs \in Subscriptions
  BY DEF Fits, ActorState
<1>3. \A i \in DOMAIN act.ring : act.ring[i] \in SubIds \X (1..MaxValues)
  BY <1>2, SeqFacts
<1>4. \A i \in DOMAIN act.ring : act.ring[i][2] \in 1..MaxValues
  BY <1>3
<1>5. \A id \in SubIds : got[id] \subseteq 1..MaxValues
  BY <1>1, <1>4
<1>6. PICK g : g = [id \in DOMAIN act.subs |->
                      [act.subs[id] EXCEPT !.received =
                        IF act.subs[id].item
                          THEN @ \cup {act.ring[i][2] : i \in {j \in DOMAIN act.ring : act.ring[j][1] = id}}
                          ELSE @]]
  OBVIOUS
<1>7. DOMAIN act.subs \subseteq SubIds /\ \A id \in DOMAIN act.subs : act.subs[id] \in Sub
  BY <1>2, SubsFacts
<1>8. \A id \in DOMAIN act.subs :
        g[id] = [act.subs[id] EXCEPT !.received = IF act.subs[id].item THEN @ \cup got[id] ELSE @]
  BY <1>1, <1>6, <1>7
<1>9. \A id \in DOMAIN act.subs : g[id] \in Sub
  <2> TAKE id \in DOMAIN act.subs
  <2>1. PICK b, r : b = act.subs[id] /\ r = got[id]
    OBVIOUS
  <2>2. b \in Sub /\ r \subseteq 1..MaxValues
    BY <1>5, <1>7, <2>1
  <2>3. [b EXCEPT !.received = IF b.item THEN @ \cup r ELSE @] \in Sub
    BY <2>2 DEF Sub
  <2> QED
    BY <1>8, <2>1, <2>3
<1>10. g \in Subscriptions /\ DOMAIN g = DOMAIN act.subs
  <2>1. g = [id \in DOMAIN act.subs |-> g[id]]
    BY <1>6
  <2> QED
    BY <1>2, <1>9, <2>1, SameSubs
<1>11. Drained(act) = [act EXCEPT !.ring = <<>>, !.subs = g]
  BY <1>6, Zenon DEF Drained
<1>12. PICK new : new = [act EXCEPT !.ring = <<>>, !.subs = g]
  OBVIOUS
<1>13. <<>> \in Seq(SubIds \X (1..MaxValues)) /\ Len(<<>>) <= RingCapacity
  BY LimitFacts
<1>14. /\ new \in ActorState /\ new.session = act.session /\ new.mail = act.mail
       /\ new.alive = act.alive /\ new.ring = <<>> /\ new.subs = g
       /\ new.transferring = act.transferring
  BY <1>2, <1>10, <1>12, <1>13 DEF ActorState
<1>15. Fits(new) /\ Alike(new, act)
  BY <1>10, <1>13, <1>14 DEF Fits, Alike
<1> QED
  BY <1>10, <1>11, <1>12, <1>14, <1>15

LEMMA AlikeTwice ==
    ASSUME NEW a, NEW b, NEW c, Alike(a, b), Alike(b, c)
    PROVE  Alike(a, c)
  BY DEF Alike

LEMMA ReplyFacts ==
    /\ Failed \in Reply /\ Good \in Reply /\ NewSub \in Sub
    /\ \A ids, items \in SUBSET SubIds, copy \in Sub :
         /\ [Good EXCEPT !.ids = ids] \in Reply
         /\ [Good EXCEPT !.ids = ids, !.items = items] \in Reply
         /\ [Good EXCEPT !.copy = copy] \in Reply
<1>1. NewSub \in Sub
  BY DEF NewSub, Sub
<1>2. Failed \in Reply
  BY <1>1 DEF Failed, Reply
<1>3. Good \in Reply
  BY <1>2 DEF Good, Reply
<1> QED
  BY <1>1, <1>2, <1>3 DEF Reply

\* The outcome of a command, as Apply builds it.
Outcome(act, reply, old) == Fits(act) /\ Alike(act, old) /\ reply \in Reply

LEMMA Refused ==
    ASSUME NEW act, Fits(act), NEW d, d = [act |-> act, reply |-> Failed]
    PROVE  Outcome(d.act, d.reply, act)
  BY ReplyFacts DEF Outcome, Alike

LEMMA ApplyFacts ==
    ASSUME NEW act, Fits(act), NEW call \in Call,
           call.sub = 0 => call.op \in {"GetIds", "Delete", "GetData"}
    PROVE  Outcome(Apply(act, call).act, Apply(act, call).reply, act)
<1>1. PICK d : d = Apply(act, call)
  OBVIOUS
<1>2. PICK id : id = call.sub
  OBVIOUS
<1>3. /\ call.op \in Ops /\ id \in 0..MaxSubs /\ call.ids \subseteq SubIds /\ call.reply \in Reply
      /\ call.reply.copy \in Sub
  BY <1>2 DEF Call, Reply
<1>4. /\ act \in ActorState /\ act.subs \in Subscriptions /\ act.transferring \subseteq SubIds
      /\ Cardinality(DOMAIN act.subs) <= MaxPerSession
  BY DEF Fits, ActorState
<1>5. /\ DOMAIN act.subs \subseteq SubIds /\ Cardinality(DOMAIN act.subs) \in Nat
      /\ \A x \in DOMAIN act.subs : act.subs[x] \in Sub
  BY <1>4, SubsFacts
<1>6. call.op \notin {"GetIds", "Delete", "GetData"} => id \in SubIds
  BY <1>2, <1>3, LimitFacts
<1>7. Alike(act, act)
  BY DEF Alike
<1>8. ~(Cardinality(DOMAIN act.subs) >= MaxPerSession) => Cardinality(DOMAIN act.subs) < MaxPerSession
  BY <1>5, LimitFacts
<1>9. CASE call.op = "Create"
  <2>1. d = IF Cardinality(DOMAIN act.subs) >= MaxPerSession THEN [act |-> act, reply |-> Failed]
            ELSE [act |-> [act EXCEPT !.subs = Put(act.subs, id, NewSub)], reply |-> Good]
    BY <1>1, <1>2, <1>9 DEF Apply
  <2>2. CASE Cardinality(DOMAIN act.subs) >= MaxPerSession
    BY <1>1, <2>1, <2>2, Refused
  <2>3. CASE ~(Cardinality(DOMAIN act.subs) >= MaxPerSession)
    <3>1. PICK subs : subs = Put(act.subs, id, NewSub)
      OBVIOUS
    <3>2. subs \in Subscriptions /\ Cardinality(DOMAIN subs) <= MaxPerSession
      BY <1>4, <1>6, <1>8, <1>9, <2>3, <3>1, PutSubs, ReplyFacts
    <3>3. d.act = [act EXCEPT !.subs = subs] /\ d.reply = Good
      BY <2>1, <2>3, <3>1
    <3>4. Fits(d.act) /\ Alike(d.act, act)
      BY <3>2, <3>3, FitsSubs
    <3>5. d.reply \in Reply
      BY <3>3, ReplyFacts
    <3> QED
      BY <1>1, <3>4, <3>5 DEF Outcome
  <2> QED
    BY <2>2, <2>3
<1>10. CASE call.op = "CreateItem"
  <2>1. d = IF id \notin DOMAIN act.subs THEN [act |-> act, reply |-> Failed]
            ELSE [act |-> [act EXCEPT !.subs[id].item = TRUE], reply |-> Good]
    BY <1>1, <1>2, <1>10 DEF Apply
  <2>2. CASE id \notin DOMAIN act.subs
    BY <1>1, <2>1, <2>2, Refused
  <2>3. CASE id \in DOMAIN act.subs
    <3>1. PICK subs : subs = [act.subs EXCEPT ![id].item = TRUE]
      OBVIOUS
    <3>2. PICK b : b = act.subs[id]
      OBVIOUS
    <3>3. b \in Sub /\ [b EXCEPT !.item = TRUE] \in Sub
      BY <1>5, <2>3, <3>2 DEF Sub
    <3>4. DOMAIN subs = DOMAIN act.subs /\ subs = [x \in DOMAIN act.subs |-> subs[x]]
          /\ \A x \in DOMAIN act.subs : subs[x] = IF x = id THEN [b EXCEPT !.item = TRUE] ELSE act.subs[x]
      BY <3>1, <3>2
    <3>5. \A x \in DOMAIN act.subs : subs[x] \in Sub
      BY <1>5, <3>3, <3>4
    <3>6. subs \in Subscriptions /\ DOMAIN subs = DOMAIN act.subs
      BY <1>4, <3>4, <3>5, SameSubs
    <3>7. d.act = [act EXCEPT !.subs = subs] /\ d.reply = Good
      BY <2>1, <2>3, <3>1
    <3> QED
      BY <1>1, <1>4, <3>6, <3>7, FitsSubs, ReplyFacts, ZenonT(60) DEF Outcome
  <2> QED
    BY <2>2, <2>3
<1>11. CASE call.op = "GetIds"
  <2>1. d.act = act /\ d.reply = [Good EXCEPT !.ids = DOMAIN act.subs]
    BY <1>1, <1>11 DEF Apply
  <2> QED
    BY <1>1, <1>5, <1>7, <2>1, ReplyFacts DEF Outcome
<1>12. CASE call.op = "GetData"
  <2>1. d.act = act /\ d.reply = [Good EXCEPT !.ids = DOMAIN act.subs, !.items = Items(act.subs)]
    BY <1>1, <1>12 DEF Apply
  <2>2. Items(act.subs) \subseteq SubIds
    BY <1>5 DEF Items
  <2>3. d.reply \in Reply
    <3>1. PICK ids, items : ids = DOMAIN act.subs /\ items = Items(act.subs)
      OBVIOUS
    <3>2. ids \in SUBSET SubIds /\ items \in SUBSET SubIds
      BY <1>5, <2>2, <3>1
    <3>3. [Good EXCEPT !.ids = ids, !.items = items] \in Reply
      BY <3>2, ReplyFacts
    <3> QED
      BY <2>1, <3>1, <3>3
  <2> QED
    BY <1>1, <1>7, <2>1, <2>3 DEF Outcome
<1>13. CASE call.op = "Delete"
  <2>1. PICK gone : gone = call.ids \cap DOMAIN act.subs
    OBVIOUS
  <2>2. PICK items : items = gone \cap Items(act.subs)
    OBVIOUS
  <2>3. d.act = [act EXCEPT !.subs = Drop(act.subs, gone)]
        /\ d.reply = [Good EXCEPT !.ids = gone, !.items = items]
    BY <1>1, <1>13, <2>1, <2>2 DEF Apply
  <2>4. gone \subseteq SubIds /\ items \subseteq SubIds
    BY <1>3, <2>1, <2>2
  <2>5. PICK subs : subs = Drop(act.subs, gone)
    OBVIOUS
  <2>6. subs \in Subscriptions /\ Cardinality(DOMAIN subs) <= Cardinality(DOMAIN act.subs)
    BY <1>4, <2>5, DropSubs
  <2>7. Cardinality(DOMAIN subs) <= MaxPerSession
    BY <1>4, <1>5, <2>6, SubsFacts, LimitFacts
  <2>8. Fits(d.act) /\ Alike(d.act, act)
    BY <2>3, <2>5, <2>6, <2>7, FitsSubs
  <2>9. d.reply \in Reply
    <3>1. gone \in SUBSET SubIds /\ items \in SUBSET SubIds
      BY <2>4
    <3>2. [Good EXCEPT !.ids = gone, !.items = items] \in Reply
      BY <3>1, ReplyFacts
    <3> QED
      BY <2>3, <3>2
  <2> QED
    BY <1>1, <2>8, <2>9 DEF Outcome
<1>14. CASE call.op = "Clone"
  <2>1. d = IF id \notin DOMAIN act.subs THEN [act |-> act, reply |-> Failed]
            ELSE [act |-> act, reply |-> [Good EXCEPT !.copy = act.subs[id]]]
    BY <1>1, <1>2, <1>14 DEF Apply
  <2>2. CASE id \notin DOMAIN act.subs
    BY <1>1, <2>1, <2>2, Refused
  <2>3. CASE id \in DOMAIN act.subs
    <3>1. act.subs[id] \in Sub /\ d.act = act /\ d.reply = [Good EXCEPT !.copy = act.subs[id]]
      BY <1>5, <2>1, <2>3
    <3> QED
      BY <1>1, <1>7, <3>1, ReplyFacts DEF Outcome
  <2> QED
    BY <2>2, <2>3
<1>15. CASE call.op = "Insert"
  <2>1. d = IF Cardinality(DOMAIN act.subs) >= MaxPerSession THEN [act |-> act, reply |-> Failed]
            ELSE [act |-> [act EXCEPT !.subs = Put(act.subs, id, call.reply.copy),
                                      !.transferring = @ \ {id}], reply |-> Good]
    BY <1>1, <1>2, <1>15 DEF Apply
  <2>2. CASE Cardinality(DOMAIN act.subs) >= MaxPerSession
    BY <1>1, <2>1, <2>2, Refused
  <2>3. CASE ~(Cardinality(DOMAIN act.subs) >= MaxPerSession)
    <3>1. PICK subs : subs = Put(act.subs, id, call.reply.copy)
      OBVIOUS
    <3>2. subs \in Subscriptions /\ Cardinality(DOMAIN subs) <= MaxPerSession
      BY <1>3, <1>4, <1>6, <1>8, <1>15, <2>3, <3>1, PutSubs
    <3>3. PICK mid : mid = [act EXCEPT !.subs = subs]
      OBVIOUS
    <3>4. Fits(mid) /\ Alike(mid, act) /\ mid.transferring = act.transferring
      BY <3>2, <3>3, FitsSubs
    <3>5. PICK T : T = act.transferring \ {id}
      OBVIOUS
    <3>6. T \subseteq SubIds
      BY <1>4, <3>5
    <3>7. d.act = [mid EXCEPT !.transferring = T] /\ d.reply = Good
      <4>1. d.act = [act EXCEPT !.subs = subs, !.transferring = T] /\ d.reply = Good
        BY <2>1, <2>3, <3>1, <3>5
      <4> QED
        BY <3>3, <4>1
    <3>8. Fits(d.act) /\ Alike(d.act, mid)
      BY <3>4, <3>6, <3>7, FitsTransferring
    <3> QED
      BY <1>1, <3>4, <3>7, <3>8, AlikeTwice, ReplyFacts DEF Outcome
  <2> QED
    BY <2>2, <2>3
<1>16. CASE call.op = "Mark"
  <2>1. d = IF id \notin DOMAIN act.subs THEN [act |-> act, reply |-> Failed]
            ELSE [act |-> [act EXCEPT !.transferring = @ \cup {id}], reply |-> Good]
    BY <1>1, <1>2, <1>16 DEF Apply
  <2>2. CASE id \notin DOMAIN act.subs
    BY <1>1, <2>1, <2>2, Refused
  <2>3. CASE id \in DOMAIN act.subs
    <3>1. PICK T : T = act.transferring \cup {id}
      OBVIOUS
    <3>2. T \subseteq SubIds /\ d.act = [act EXCEPT !.transferring = T] /\ d.reply = Good
      BY <1>4, <1>5, <2>1, <2>3, <3>1
    <3>3. Fits(d.act) /\ Alike(d.act, act)
      BY <3>2, FitsTransferring
    <3>4. d.reply \in Reply
      BY <3>2, ReplyFacts
    <3> QED
      BY <1>1, <3>3, <3>4 DEF Outcome
  <2> QED
    BY <2>2, <2>3
<1>17. CASE call.op = "Complete"
  <2>1. PICK subs : subs = Drop(act.subs, {id})
    OBVIOUS
  <2>2. subs \in Subscriptions /\ Cardinality(DOMAIN subs) <= Cardinality(DOMAIN act.subs)
    BY <1>4, <2>1, DropSubs
  <2>3. Cardinality(DOMAIN subs) <= MaxPerSession
    BY <1>4, <1>5, <2>2, SubsFacts, LimitFacts
  <2>4. PICK mid : mid = [act EXCEPT !.subs = subs]
    OBVIOUS
  <2>5. Fits(mid) /\ Alike(mid, act) /\ mid.transferring = act.transferring
    BY <2>2, <2>3, <2>4, FitsSubs
  <2>6. PICK T : T = act.transferring \ {id}
    OBVIOUS
  <2>7. T \subseteq SubIds
    BY <1>4, <2>6
  <2>8. d.act = [mid EXCEPT !.transferring = T] /\ d.reply = Good
    <3>1. d.act = [act EXCEPT !.subs = subs, !.transferring = T] /\ d.reply = Good
      BY <1>1, <1>2, <1>17, <2>1, <2>6 DEF Apply
    <3> QED
      BY <2>4, <3>1
  <2>9. Fits(d.act) /\ Alike(d.act, mid)
    BY <2>5, <2>7, <2>8, FitsTransferring
  <2> QED
    BY <1>1, <2>5, <2>8, <2>9, AlikeTwice, ReplyFacts DEF Outcome
<1> QED
  BY <1>3, <1>9, <1>10, <1>11, <1>12, <1>13, <1>14, <1>15, <1>16, <1>17 DEF Ops

-----------------------------------------------------------------------------
(***************************************************************************)
(* Types and shapes, by group of variables.                                *)
(***************************************************************************)

EntryOK == DOMAIN entry \subseteq Sessions /\ \A s \in DOMAIN entry : entry[s] \in ActorIds
IndexOK ==
    /\ DOMAIN owner \subseteq SubIds /\ \A id \in DOMAIN owner : owner[id] \in Sessions
    /\ watched \subseteq SubIds
ActorsOK ==
    /\ actors \in Seq(ActorState) /\ Len(actors) <= MaxActors
    /\ \A a \in ActorIds :
         /\ Cardinality(DOMAIN actors[a].subs) <= MaxPerSession
         /\ Len(actors[a].ring) <= RingCapacity
CallsOK ==
    /\ DOMAIN calls \subseteq Callers /\ \A c \in DOMAIN calls : calls[c] \in Call
    /\ CallsShaped
RestOK ==
    /\ cleanup \in Seq(CleanupMessage) /\ producer \subseteq ActorIds \X SubIds
    /\ created \in 0..MaxSubs /\ started \in 0..MaxCalls /\ value \in 0..MaxValues
    /\ routed \in [SubIds -> SUBSET (1..MaxValues)]
    /\ dropped \in [SubIds -> SUBSET (1..MaxValues)]
    /\ RoutesHaveValue

LEMMA Groups == Shape <=> EntryOK /\ IndexOK /\ ActorsOK /\ CallsOK /\ RestOK
  BY Zenon DEF Shape, TypeOK, EntryOK, IndexOK, ActorsOK, CallsOK, RestOK

LEMMA GroupsNext ==
    ASSUME EntryOK', IndexOK', ActorsOK', CallsOK', RestOK'
    PROVE  Shape'
  BY Zenon DEF Shape, TypeOK, EntryOK, IndexOK, ActorsOK, CallsOK, RestOK

LEMMA ActorFacts ==
    ASSUME ActorsOK
    PROVE  /\ actors \in Seq(ActorState) /\ Len(actors) \in Nat /\ Len(actors) \in 0..MaxActors
           /\ ActorIds = 1..Len(actors) /\ DOMAIN actors = 1..Len(actors)
           /\ \A a \in ActorIds : Fits(actors[a])
<1>1. /\ actors \in Seq(ActorState) /\ Len(actors) <= MaxActors
      /\ \A a \in DOMAIN actors : /\ Cardinality(DOMAIN actors[a].subs) <= MaxPerSession
                                  /\ Len(actors[a].ring) <= RingCapacity
  BY DEF ActorsOK, ActorIds
<1>2. Len(actors) \in Nat /\ DOMAIN actors = 1..Len(actors) /\ \A a \in DOMAIN actors : actors[a] \in ActorState
  BY <1>1, SeqFacts
<1>3. Len(actors) \in 0..MaxActors
  BY <1>1, <1>2, LimitFacts
<1>4. \A a \in DOMAIN actors : Fits(actors[a])
  BY <1>1, <1>2 DEF Fits
<1> QED
  BY <1>1, <1>2, <1>3, <1>4 DEF ActorIds

\* One actor changes.
LEMMA ActorChanges ==
    ASSUME ActorsOK, NEW a \in ActorIds, NEW act, Fits(act), actors' = [actors EXCEPT ![a] = act]
    PROVE  /\ ActorsOK' /\ Len(actors') = Len(actors) /\ DOMAIN actors' = DOMAIN actors
           /\ actors'[a] = act /\ \A b \in DOMAIN actors : b # a => actors'[b] = actors[b]
<1>1. actors \in Seq(ActorState) /\ a \in DOMAIN actors /\ Len(actors) <= MaxActors /\ act \in ActorState
  BY DEF ActorsOK, ActorIds, Fits
<1>2. /\ actors' \in Seq(ActorState) /\ Len(actors') = Len(actors) /\ DOMAIN actors' = DOMAIN actors
  BY <1>1
<1>3. actors'[a] = act /\ \A b \in DOMAIN actors : b # a => actors'[b] = actors[b]
  BY <1>1
<1>4. \A b \in DOMAIN actors' : /\ Cardinality(DOMAIN actors'[b].subs) <= MaxPerSession
                                /\ Len(actors'[b].ring) <= RingCapacity
  <2> TAKE b \in DOMAIN actors'
  <2>1. CASE b = a
    BY <1>3, <2>1 DEF Fits
  <2>2. CASE b # a
    <3>1. b \in DOMAIN actors /\ actors'[b] = actors[b]
      BY <1>2, <1>3, <2>2
    <3> QED
      BY <3>1 DEF ActorsOK, ActorIds
  <2> QED
    BY <2>1, <2>2
<1> QED
  BY <1>1, <1>2, <1>3, <1>4 DEF ActorsOK, ActorIds

\* An actor is spawned.
LEMMA ActorSpawns ==
    ASSUME ActorsOK, NEW act, Fits(act), actors' = Append(actors, act), Len(actors) < MaxActors
    PROVE  /\ ActorsOK' /\ Len(actors') = Len(actors) + 1
           /\ DOMAIN actors' = DOMAIN actors \cup {Len(actors) + 1} /\ ~(Len(actors) + 1 \in DOMAIN actors)
           /\ actors'[Len(actors) + 1] = act /\ \A b \in DOMAIN actors : actors'[b] = actors[b]
<1>1. /\ actors \in Seq(ActorState) /\ Len(actors) \in Nat /\ DOMAIN actors = 1..Len(actors)
      /\ act \in ActorState
  BY ActorFacts DEF Fits
<1>2. /\ actors' \in Seq(ActorState) /\ Len(actors') = Len(actors) + 1
      /\ (\A b \in DOMAIN actors : actors'[b] = actors[b]) /\ actors'[Len(actors) + 1] = act
  BY <1>1, AppendFacts
<1>3. DOMAIN actors' = DOMAIN actors \cup {Len(actors) + 1} /\ ~(Len(actors) + 1 \in DOMAIN actors)
  BY <1>1, AppendDomain
<1>4. Len(actors') <= MaxActors
  BY <1>1, <1>2, LimitFacts
<1>5. \A b \in DOMAIN actors' : /\ Cardinality(DOMAIN actors'[b].subs) <= MaxPerSession
                                /\ Len(actors'[b].ring) <= RingCapacity
  <2> TAKE b \in DOMAIN actors'
  <2>1. CASE b = Len(actors) + 1
    BY <1>2, <2>1 DEF Fits
  <2>2. CASE b # Len(actors) + 1
    <3>1. b \in DOMAIN actors /\ actors'[b] = actors[b]
      BY <1>2, <1>3, <2>2
    <3> QED
      BY <3>1 DEF ActorsOK, ActorIds
  <2> QED
    BY <2>1, <2>2
<1> QED
  BY <1>2, <1>3, <1>4, <1>5 DEF ActorsOK, ActorIds

\* A message is put into the channel of an actor that runs.
LEMMA MessagePosted ==
    ASSUME ActorsOK, NEW a \in ActorIds, NEW m \in Message, actors' = Posted(actors, a, m)
    PROVE  /\ ActorsOK' /\ Len(actors') = Len(actors) /\ DOMAIN actors' = DOMAIN actors
           /\ \A b \in DOMAIN actors : b # a => actors'[b] = actors[b]
           /\ ~actors[a].alive => actors'[a] = actors[a]
           /\ actors'[a].session = actors[a].session /\ (actors'[a].alive <=> actors[a].alive)
           /\ actors[a].alive => actors'[a].mail = Append(actors[a].mail, m)
           /\ actors[a].mail \in Seq(Message)
<1>1. Fits(actors[a])
  BY ActorFacts
<1>2. PICK act : act = actors[a]
  OBVIOUS
<1>3. act \in ActorState /\ act.mail \in Seq(Message) /\ act.alive \in BOOLEAN
  BY <1>1, <1>2 DEF Fits, ActorState
<1>4. CASE ~act.alive
  <2>1. actors' = actors
    BY <1>2, <1>4 DEF Posted
  <2>2. ActorsOK'
    BY <2>1 DEF ActorsOK, ActorIds
  <2> QED
    BY <1>2, <1>3, <1>4, <2>1, <2>2
<1>5. CASE act.alive
  <2>1. PICK mail : mail = Append(act.mail, m)
    OBVIOUS
  <2>2. mail \in Seq(Message)
    BY <1>3, <2>1, AppendFacts
  <2>3. PICK new : new = [act EXCEPT !.mail = mail]
    OBVIOUS
  <2>4. /\ new \in ActorState /\ new.mail = mail /\ new.session = act.session /\ new.alive = act.alive
        /\ new.subs = act.subs /\ new.ring = act.ring
    BY <1>3, <2>2, <2>3 DEF ActorState
  <2>5. Fits(new)
    BY <1>1, <1>2, <2>4 DEF Fits
  <2>6. actors' = [actors EXCEPT ![a] = new]
    BY <1>2, <1>5, <2>1, <2>3 DEF Posted
  <2>7. /\ ActorsOK' /\ Len(actors') = Len(actors) /\ DOMAIN actors' = DOMAIN actors
        /\ actors'[a] = new /\ \A b \in DOMAIN actors : b # a => actors'[b] = actors[b]
    BY <2>5, <2>6, ActorChanges
  <2> QED
    BY <1>2, <1>3, <1>5, <2>1, <2>4, <2>7
<1> QED
  BY <1>4, <1>5

LEMMA EntryFrame ==
    ASSUME EntryOK, UNCHANGED entry, DOMAIN actors \subseteq DOMAIN actors'
    PROVE  EntryOK'
  BY DEF EntryOK, ActorIds

LEMMA RestFrame ==
    ASSUME RestOK, UNCHANGED <<cleanup, producer, created, started, value, history>>,
           DOMAIN actors \subseteq DOMAIN actors'
    PROVE  RestOK'
  BY DEF RestOK, ActorIds, history, RoutesHaveValue

LEMMA ShapedMore ==
    ASSUME NEW call \in Call, NEW n \in Nat, NEW m \in Nat, n <= m, Shaped(call, n)
    PROVE  Shaped(call, m)
<1>1. 0..n \subseteq 0..m
  OBVIOUS
<1> QED
  BY <1>1 DEF Shaped

LEMMA CallsFrame ==
    ASSUME CallsOK, UNCHANGED calls, Len(actors) \in Nat, Len(actors') \in Nat,
           Len(actors) <= Len(actors')
    PROVE  CallsOK'
<1>1. \A c \in DOMAIN calls : calls[c] \in Call /\ Shaped(calls[c], Len(actors'))
  BY ShapedMore DEF CallsOK, CallsShaped
<1> QED
  BY <1>1 DEF CallsOK, CallsShaped

\* One call changes.
LEMMA CallChanges ==
    ASSUME CallsOK, Len(actors) \in Nat, Len(actors') \in Nat, Len(actors) <= Len(actors'),
           NEW c \in DOMAIN calls, DOMAIN calls' = DOMAIN calls,
           \A d \in DOMAIN calls : d # c => calls'[d] = calls[d],
           calls'[c] \in Call, Shaped(calls'[c], Len(actors'))
    PROVE  CallsOK'
<1>1. \A d \in DOMAIN calls : calls[d] \in Call /\ Shaped(calls[d], Len(actors'))
  BY ShapedMore DEF CallsOK, CallsShaped
<1>2. \A d \in DOMAIN calls' : calls'[d] \in Call /\ Shaped(calls'[d], Len(actors'))
  BY <1>1
<1> QED
  BY <1>2 DEF CallsOK, CallsShaped

LEMMA CallEnds ==
    ASSUME CallsOK, Len(actors) \in Nat, Len(actors') \in Nat, Len(actors) <= Len(actors'),
           NEW c, EndCall(c)
    PROVE  /\ CallsOK' /\ DOMAIN calls' = DOMAIN calls \ {c}
           /\ \A d \in DOMAIN calls' : calls'[d] = calls[d]
<1>1. DOMAIN calls' = DOMAIN calls \ {c} /\ \A d \in DOMAIN calls' : calls'[d] = calls[d]
  BY DEF EndCall, Drop
<1>2. \A d \in DOMAIN calls : calls[d] \in Call /\ Shaped(calls[d], Len(actors'))
  BY ShapedMore DEF CallsOK, CallsShaped
<1>3. \A d \in DOMAIN calls' : calls'[d] \in Call /\ Shaped(calls'[d], Len(actors'))
  BY <1>1, <1>2
<1> QED
  BY <1>1, <1>3 DEF CallsOK, CallsShaped

LEMMA CallBegins ==
    ASSUME CallsOK, Len(actors) \in Nat, Len(actors') \in Nat, Len(actors) <= Len(actors'),
           NEW c \in Callers, c \notin DOMAIN calls, NEW call \in Call, Shaped(call, Len(actors')),
           calls' = Put(calls, c, call)
    PROVE  /\ CallsOK' /\ DOMAIN calls' = DOMAIN calls \cup {c} /\ calls'[c] = call
           /\ \A d \in DOMAIN calls : calls'[d] = calls[d]
<1>1. /\ DOMAIN calls' = DOMAIN calls \cup {c} /\ calls'[c] = call
      /\ \A d \in DOMAIN calls : calls'[d] = calls[d]
  BY DEF Put
<1>2. \A d \in DOMAIN calls : calls[d] \in Call /\ Shaped(calls[d], Len(actors'))
  BY ShapedMore DEF CallsOK, CallsShaped
<1>3. \A d \in DOMAIN calls' : calls'[d] \in Call /\ Shaped(calls'[d], Len(actors'))
  BY <1>1, <1>2
<1> QED
  BY <1>1, <1>3 DEF CallsOK, CallsShaped

-----------------------------------------------------------------------------
(***************************************************************************)
(* The registry under the steps that several actions share.                *)
(***************************************************************************)

\* Calls that await an answer go on waiting for it ...
AwaitingKept ==
    \A c : c \in DOMAIN calls /\ calls[c].pc = "sent" =>
             c \in DOMAIN calls' /\ calls'[c].pc = "sent" /\ calls'[c].actor = calls[c].actor

\* ... and the same calls tear down the same actors.
TeardownsKept ==
    \A c, a : c \in DOMAIN calls' /\ TearsDown(c, a)' <=> c \in DOMAIN calls /\ TearsDown(c, a)

ActorsKept == DOMAIN actors' = DOMAIN actors /\ \A a \in DOMAIN actors : Alike(actors'[a], actors[a])

LEMMA FromCallKept ==
    ASSUME AwaitingKept, NEW a, NEW m, FromCall(a, m)
    PROVE  FromCall(a, m)'
  BY DEF AwaitingKept, FromCall

LEMMA RegistryParts ==
    ASSUME MailFromCalls', EntriesOwn', EntriesAlive', TeardownHolds', NoActorLost'
    PROVE  Registry'
  BY DEF Registry

LEMMA MailOKKept ==
    ASSUME AwaitingKept, NEW a, NEW mail, MailOK(a, mail)
    PROVE  MailOK(a, mail)'
<1>1. \A i \in DOMAIN mail : FromCall(a, mail[i])'
  <2> TAKE i \in DOMAIN mail
  <2>1. PICK m : m = mail[i]
    OBVIOUS
  <2>2. FromCall(a, m)
    BY <2>1 DEF MailOK
  <2>3. FromCall(a, m)'
    BY <2>2, FromCallKept
  <2> QED
    BY <2>1, <2>3
<1> QED
  BY <1>1 DEF MailOK

LEMMA MailNext ==
    ASSUME \A a \in DOMAIN actors' : \E mail : mail = actors'[a].mail /\ MailOK(a, mail)'
    PROVE  MailFromCalls'
<1> SUFFICES ASSUME NEW a \in DOMAIN actors'
             PROVE  MailOK(a, actors[a].mail)'
  BY DEF MailFromCalls, ActorIds
<1>1. PICK mail : mail = actors'[a].mail /\ MailOK(a, mail)'
  OBVIOUS
<1> QED
  BY <1>1

LEMMA MailKept ==
    ASSUME MailFromCalls, ActorsKept, AwaitingKept
    PROVE  MailFromCalls'
<1>1. ASSUME NEW a \in DOMAIN actors'
      PROVE  \E mail : mail = actors'[a].mail /\ MailOK(a, mail)'
  <2>1. PICK mail : mail = actors[a].mail
    OBVIOUS
  <2>2. actors'[a].mail = mail /\ MailOK(a, mail)
    BY <2>1 DEF ActorsKept, Alike, MailFromCalls, ActorIds
  <2>3. MailOK(a, mail)'
    BY <2>2, MailOKKept
  <2> QED
    BY <2>2, <2>3
<1> QED
  BY <1>1, MailNext

LEMMA EntriesKept ==
    ASSUME EntriesOwn, EntriesAlive, EntryOK, ActorsKept, UNCHANGED entry
    PROVE  EntriesOwn' /\ EntriesAlive'
<1>1. \A s \in DOMAIN entry' : /\ entry'[s] = entry[s] /\ entry[s] \in DOMAIN actors
                               /\ Alike(actors'[entry[s]], actors[entry[s]])
  BY DEF EntryOK, ActorsKept, ActorIds
<1> QED
  BY <1>1 DEF EntriesOwn, EntriesAlive, Stopping, Alike

LEMMA TeardownKept ==
    ASSUME TeardownHolds, UNCHANGED entry, TeardownsKept
    PROVE  TeardownHolds'
  BY DEF TeardownHolds, TeardownsKept, TearsDown

LEMMA LostKept ==
    ASSUME NoActorLost, UNCHANGED entry, ActorsKept, TeardownsKept
    PROVE  NoActorLost'
<1> SUFFICES ASSUME NEW a \in DOMAIN actors', actors'[a].alive
             PROVE  \/ \E s \in DOMAIN entry' : entry'[s] = a
                    \/ Stopping(a)'
                    \/ \E c \in DOMAIN calls' : TearsDown(c, a)'
  BY DEF NoActorLost, ActorIds
<1>1. a \in DOMAIN actors /\ actors[a].alive /\ actors'[a].mail = actors[a].mail
  BY DEF ActorsKept, Alike
<1>2. CASE \E s \in DOMAIN entry : entry[s] = a
  BY <1>2
<1>3. CASE Stopping(a)
  BY <1>1, <1>3 DEF Stopping
<1>4. CASE \E c \in DOMAIN calls : TearsDown(c, a)
  BY <1>4 DEF TeardownsKept
<1> QED
  BY <1>1, <1>2, <1>3, <1>4 DEF NoActorLost, ActorIds

LEMMA RegistryFrame ==
    ASSUME Registry, EntryOK, UNCHANGED entry, ActorsKept, AwaitingKept, TeardownsKept
    PROVE  Registry'
<1>1. MailFromCalls /\ EntriesOwn /\ EntriesAlive /\ TeardownHolds /\ NoActorLost
  BY DEF Registry
<1> QED
  BY <1>1, MailKept, EntriesKept, TeardownKept, LostKept, RegistryParts

Tearing(call) == call.op = "GetData" /\ call.pc # "lookup"

LEMMA CallChangeKeeps ==
    ASSUME NEW c \in DOMAIN calls, DOMAIN calls' = DOMAIN calls,
           \A d \in DOMAIN calls : d # c => calls'[d] = calls[d],
           calls[c].pc # "sent",
           Tearing(calls'[c]) <=> Tearing(calls[c]),
           Tearing(calls[c]) => calls'[c].actor = calls[c].actor
    PROVE  AwaitingKept /\ TeardownsKept
<1>1. AwaitingKept
  BY DEF AwaitingKept
<1>2. TeardownsKept
  <2> SUFFICES ASSUME NEW d, NEW a
               PROVE  d \in DOMAIN calls' /\ TearsDown(d, a)' <=> d \in DOMAIN calls /\ TearsDown(d, a)
    BY DEF TeardownsKept
  <2>1. CASE d = c
    BY <2>1 DEF TearsDown, Tearing
  <2>2. CASE d # c
    BY <2>2 DEF TearsDown
  <2> QED
    BY <2>1, <2>2
<1> QED
  BY <1>1, <1>2

LEMMA CallEndKeeps ==
    ASSUME NEW c, DOMAIN calls' = DOMAIN calls \ {c}, \A d \in DOMAIN calls' : calls'[d] = calls[d],
           calls[c].pc # "sent", ~Tearing(calls[c])
    PROVE  AwaitingKept /\ TeardownsKept
<1>1. AwaitingKept
  BY DEF AwaitingKept
<1>2. TeardownsKept
  BY DEF TeardownsKept, TearsDown, Tearing
<1> QED
  BY <1>1, <1>2

LEMMA CallBeginKeeps ==
    ASSUME NEW c, c \notin DOMAIN calls, DOMAIN calls' = DOMAIN calls \cup {c},
           \A d \in DOMAIN calls : calls'[d] = calls[d], calls'[c].pc = "lookup"
    PROVE  AwaitingKept /\ TeardownsKept
<1>1. AwaitingKept
  BY DEF AwaitingKept
<1>2. TeardownsKept
  <2> SUFFICES ASSUME NEW d, NEW a
               PROVE  d \in DOMAIN calls' /\ TearsDown(d, a)' <=> d \in DOMAIN calls /\ TearsDown(d, a)
    BY DEF TeardownsKept
  <2>1. CASE d = c
    BY <2>1 DEF TearsDown
  <2>2. CASE d # c
    BY <2>2 DEF TearsDown
  <2> QED
    BY <2>1, <2>2
<1> QED
  BY <1>1, <1>2

LEMMA CallsSameKeeps ==
    ASSUME UNCHANGED calls
    PROVE  AwaitingKept /\ TeardownsKept
  BY DEF AwaitingKept, TeardownsKept, TearsDown

\* ensure_session_entry.
LEMMA EntryEnsured ==
    ASSUME Shape, Registry, NEW s \in Sessions, EnsureEntry(s), AwaitingKept, TeardownsKept
    PROVE  /\ Registry' /\ EntryOK' /\ ActorsOK' /\ s \in DOMAIN entry'
           /\ Len(actors') \in Nat /\ Len(actors) \in Nat /\ Len(actors) <= Len(actors')
           /\ DOMAIN actors \subseteq DOMAIN actors' /\ entry'[s] \in 1..Len(actors')
<1>1. EntryOK /\ ActorsOK /\ CallsOK
  BY Groups
<1>2. Len(actors) \in Nat /\ DOMAIN actors = 1..Len(actors)
  BY <1>1, ActorFacts
<1>3. CASE s \in DOMAIN entry
  <2>1. actors' = actors /\ entry' = entry
    BY <1>3 DEF EnsureEntry
  <2>2. ActorsKept
    BY <2>1 DEF ActorsKept, Alike
  <2>3. ActorsOK' /\ EntryOK'
    BY <1>1, <2>1 DEF ActorsOK, EntryOK, ActorIds
  <2>4. entry'[s] \in 1..Len(actors')
    BY <1>1, <1>2, <1>3, <2>1 DEF EntryOK, ActorIds
  <2> QED
    BY <1>1, <1>2, <1>3, <2>1, <2>2, <2>3, <2>4, RegistryFrame
<1>4. CASE s \notin DOMAIN entry
  <2>1. PICK n : n = Len(actors) + 1
    OBVIOUS
  <2>2. actors' = Append(actors, Actor(s)) /\ entry' = Put(entry, s, Len(actors')) /\ Len(actors) < MaxActors
    BY <1>4 DEF EnsureEntry
  <2>3. PICK act : act = Actor(s)
    OBVIOUS
  <2>4. Fits(act) /\ act.session = s /\ act.mail = <<>> /\ act.alive
    BY <2>3, NewActor
  <2>5. /\ ActorsOK' /\ Len(actors') = n /\ DOMAIN actors' = DOMAIN actors \cup {n}
        /\ n \notin DOMAIN actors /\ actors'[n] = act
        /\ \A b \in DOMAIN actors : actors'[b] = actors[b]
    BY <1>1, <2>1, <2>2, <2>3, <2>4, ActorSpawns
  <2>6. /\ DOMAIN entry' = DOMAIN entry \cup {s} /\ entry'[s] = n
        /\ \A t \in DOMAIN entry : entry'[t] = entry[t]
    BY <1>4, <2>2, <2>5 DEF Put
  <2>7. /\ Len(actors') \in Nat /\ Len(actors) <= Len(actors') /\ n \in 1..Len(actors')
    BY <1>2, <2>1, <2>5
  <2>8. EntryOK'
    BY <1>1, <2>5, <2>6 DEF EntryOK, ActorIds
  <2>9. MailFromCalls'
    <3>1. ASSUME NEW a \in DOMAIN actors'
          PROVE  \E mail : mail = actors'[a].mail /\ MailOK(a, mail)'
      <4>1. CASE a = n
        <5>1. MailOK(a, <<>>)'
          BY DEF MailOK, OneEach
        <5> QED
          BY <2>4, <2>5, <4>1, <5>1
      <4>2. CASE a # n
        <5>1. PICK mail : mail = actors[a].mail
          OBVIOUS
        <5>2. actors'[a].mail = mail /\ MailOK(a, mail)
          BY <2>5, <4>2, <5>1 DEF Registry, MailFromCalls, ActorIds
        <5>3. MailOK(a, mail)'
          BY <5>2, MailOKKept
        <5> QED
          BY <5>2, <5>3
      <4> QED
        BY <4>1, <4>2
    <3> QED
      BY <3>1, MailNext
  <2>10. \A t \in DOMAIN entry : entry[t] \in DOMAIN actors /\ actors'[entry'[t]] = actors[entry[t]]
    BY <1>1, <2>5, <2>6 DEF EntryOK, ActorIds
  <2>11. EntriesOwn'
    <3>1. \A t \in DOMAIN entry : actors[entry[t]].session = t
      BY DEF Registry, EntriesOwn
    <3>2. \A t \in DOMAIN entry' : actors'[entry'[t]].session = t
      BY <2>4, <2>5, <2>6, <2>10, <3>1
    <3> QED
      BY <3>2 DEF EntriesOwn
  <2>12. EntriesAlive'
    <3> SUFFICES ASSUME NEW t \in DOMAIN entry'
                 PROVE  actors'[entry'[t]].alive /\ ~Stopping(entry[t])'
      BY DEF EntriesAlive
    <3>1. CASE t = s
      BY <2>4, <2>5, <2>6, <3>1 DEF Stopping
    <3>2. CASE t # s
      <4>1. t \in DOMAIN entry /\ actors[entry[t]].alive /\ ~Stopping(entry[t])
        BY <2>6, <3>2 DEF Registry, EntriesAlive
      <4> QED
        BY <2>10, <4>1 DEF Stopping
    <3> QED
      BY <3>1, <3>2
  <2>13. TeardownHolds'
    <3> SUFFICES ASSUME NEW c \in DOMAIN calls', NEW t \in DOMAIN entry', NEW a, a = entry'[t],
                        TearsDown(c, a)'
                 PROVE  FALSE
      BY DEF TeardownHolds, TearsDown
    <3>1. c \in DOMAIN calls /\ TearsDown(c, a)
      BY DEF TeardownsKept
    <3>2. calls[c] \in Call /\ Shaped(calls[c], Len(actors))
      BY <1>1, <3>1 DEF CallsOK, CallsShaped
    <3>3. calls[c].actor \in 0..Len(actors)
      BY <3>2 DEF Shaped
    <3>4. a # n
      BY <1>2, <2>1, <3>1, <3>3 DEF TearsDown
    <3>5. t \in DOMAIN entry /\ a = entry[t]
      BY <2>6, <3>4
    <3> QED
      BY <3>1, <3>5 DEF Registry, TeardownHolds
  <2>14. NoActorLost'
    <3> SUFFICES ASSUME NEW a \in DOMAIN actors', actors'[a].alive
                 PROVE  \/ \E t \in DOMAIN entry' : entry'[t] = a
                        \/ Stopping(a)'
                        \/ \E c \in DOMAIN calls' : TearsDown(c, a)'
      BY DEF NoActorLost, ActorIds
    <3>1. CASE a = n
      BY <2>6, <3>1
    <3>2. CASE a # n
      <4>1. a \in DOMAIN actors /\ actors[a].alive /\ actors'[a] = actors[a]
        BY <2>5, <3>2
      <4>2. \/ \E t \in DOMAIN entry : entry[t] = a
            \/ Stopping(a)
            \/ \E c \in DOMAIN calls : TearsDown(c, a)
        BY <4>1 DEF Registry, NoActorLost, ActorIds
      <4>3. CASE \E t \in DOMAIN entry : entry[t] = a
        BY <2>6, <4>3
      <4>4. CASE Stopping(a)
        BY <4>1, <4>4 DEF Stopping
      <4>5. CASE \E c \in DOMAIN calls : TearsDown(c, a)
        BY <4>5 DEF TeardownsKept
      <4> QED
        BY <4>2, <4>3, <4>4, <4>5
    <3> QED
      BY <3>1, <3>2
  <2>15. Registry'
    BY <2>9, <2>11, <2>12, <2>13, <2>14, RegistryParts
  <2> QED
    BY <1>2, <2>5, <2>6, <2>7, <2>8, <2>15
<1> QED
  BY <1>3, <1>4

\* A message is added to the channel of an actor.
LEMMA MailPosted ==
    ASSUME NEW a, NEW mail \in Seq(Message), MailOK(a, mail)', NEW m \in Message, FromCall(a, m)',
           \A i \in DOMAIN mail : mail[i].op # "Stop" /\ m.op # "Stop" => mail[i].by # m.by
    PROVE  MailOK(a, Append(mail, m))'
<1>1. PICK new, n : new = Append(mail, m) /\ n = Len(mail) + 1
  OBVIOUS
<1>2. /\ DOMAIN new = DOMAIN mail \cup {n} /\ n \notin DOMAIN mail
  BY <1>1, AppendDomain
<1>3. new[n] = m /\ \A i \in DOMAIN mail : new[i] = mail[i]
  BY <1>1, AppendFacts, SeqFacts
<1>4. (\A i \in DOMAIN mail : FromCall(a, mail[i])') /\ OneEach(mail)
  BY DEF MailOK, OneEach
<1>5. \A i \in DOMAIN new : FromCall(a, new[i])'
  BY <1>2, <1>3, <1>4
<1>6. OneEach(new)
  <2> SUFFICES ASSUME NEW i \in DOMAIN new, NEW j \in DOMAIN new, i # j,
                      new[i].op # "Stop", new[j].op # "Stop"
               PROVE  new[i].by # new[j].by
    BY DEF OneEach
  <2>1. CASE i = n
    BY <1>2, <1>3, <2>1
  <2>2. CASE j = n
    BY <1>2, <1>3, <2>2
  <2>3. CASE i # n /\ j # n
    BY <1>2, <1>3, <1>4, <2>3 DEF OneEach
  <2> QED
    BY <2>1, <2>2, <2>3
<1>7. MailOK(a, new)'
  BY <1>5, <1>6 DEF MailOK, OneEach
<1> QED
  BY <1>1, <1>7

\* Stop is in a channel to which a message was added if it was, or is that message.
LEMMA StopPosted ==
    ASSUME NEW mail \in Seq(Message), NEW m \in Message
    PROVE  (\E i \in DOMAIN Append(mail, m) : Append(mail, m)[i].op = "Stop")
             <=> (\E i \in DOMAIN mail : mail[i].op = "Stop") \/ m.op = "Stop"
<1>1. PICK new, n : new = Append(mail, m) /\ n = Len(mail) + 1
  OBVIOUS
<1>2. /\ DOMAIN new = DOMAIN mail \cup {n} /\ n \notin DOMAIN mail
  BY <1>1, AppendDomain
<1>3. new[n] = m /\ \A i \in DOMAIN mail : new[i] = mail[i]
  BY <1>1, AppendFacts, SeqFacts
<1>4. (\E i \in DOMAIN new : new[i].op = "Stop") <=> (\E i \in DOMAIN mail : mail[i].op = "Stop") \/ m.op = "Stop"
  BY <1>2, <1>3
<1> QED
  BY <1>1, <1>4

\* A call sends a command.
LEMMA CommandSent ==
    ASSUME Shape, Registry, NEW c \in DOMAIN calls, NEW call \in Call, SendCommand(c, call),
           call.actor \in ActorIds, calls[c].pc # "sent", call.pc # "lookup", UNCHANGED entry,
           Tearing(call) <=> Tearing(calls[c]), Tearing(calls[c]) => call.actor = calls[c].actor
    PROVE  /\ Registry' /\ ActorsOK' /\ Len(actors') = Len(actors) /\ DOMAIN actors' = DOMAIN actors
           /\ DOMAIN calls' = DOMAIN calls /\ \A d \in DOMAIN calls : d # c => calls'[d] = calls[d]
           /\ \/ calls'[c] = [call EXCEPT !.pc = "sent"]
              \/ calls'[c] = [call EXCEPT !.pc = "replied", !.reply = Failed]
<1>1. EntryOK /\ ActorsOK /\ CallsOK
  BY Groups
<1>2. PICK a, m : a = call.actor /\ m = [op |-> call.op, by |-> c]
  OBVIOUS
<1>3. a \in ActorIds /\ c \in Callers /\ call.op \in Ops
  BY <1>1, <1>2 DEF CallsOK, Call
<1>4. m \in Message /\ m.op # "Stop" /\ m.by = c /\ m.op = call.op
  BY <1>2, <1>3 DEF Message, Ops
<1>5. actors' = Posted(actors, a, m)
  BY <1>2 DEF SendCommand
<1>6. /\ ActorsOK' /\ Len(actors') = Len(actors) /\ DOMAIN actors' = DOMAIN actors
      /\ \A b \in DOMAIN actors : b # a => actors'[b] = actors[b]
      /\ ~actors[a].alive => actors'[a] = actors[a]
      /\ actors'[a].session = actors[a].session /\ (actors'[a].alive <=> actors[a].alive)
      /\ actors[a].alive => actors'[a].mail = Append(actors[a].mail, m)
      /\ actors[a].mail \in Seq(Message)
  BY <1>1, <1>3, <1>4, <1>5, MessagePosted
<1>7. /\ DOMAIN calls' = DOMAIN calls /\ \A d \in DOMAIN calls : d # c => calls'[d] = calls[d]
      /\ actors[a].alive => calls'[c] = [call EXCEPT !.pc = "sent"]
      /\ ~actors[a].alive => calls'[c] = [call EXCEPT !.pc = "replied", !.reply = Failed]
  BY <1>2 DEF SendCommand
<1>8. /\ calls'[c].op = call.op /\ calls'[c].actor = call.actor /\ calls'[c].pc # "lookup"
      /\ actors[a].alive => calls'[c].pc = "sent"
  <2>1. PICK new1, new2 : new1 = [call EXCEPT !.pc = "sent"]
                          /\ new2 = [call EXCEPT !.pc = "replied", !.reply = Failed]
    OBVIOUS
  <2>2. /\ new1.op = call.op /\ new1.actor = call.actor /\ new1.pc = "sent"
        /\ new2.op = call.op /\ new2.actor = call.actor /\ new2.pc = "replied"
    BY <2>1 DEF Call
  <2> QED
    BY <1>7, <2>1, <2>2
<1>9. AwaitingKept /\ TeardownsKept
  <2>1. (Tearing(calls'[c]) <=> Tearing(calls[c])) /\ (Tearing(calls[c]) => calls'[c].actor = calls[c].actor)
    BY <1>8 DEF Tearing
  <2> QED
    BY <1>7, <2>1, CallChangeKeeps
<1>10. CASE ~actors[a].alive
  <2>1. ActorsKept
    BY <1>6, <1>10 DEF ActorsKept, Alike
  <2> QED
    BY <1>1, <1>6, <1>7, <1>9, <1>10, <2>1, RegistryFrame
<1>11. CASE actors[a].alive
  <2>1. PICK mail : mail = actors[a].mail
    OBVIOUS
  <2>2. mail \in Seq(Message) /\ actors'[a].mail = Append(mail, m) /\ MailOK(a, mail)
    BY <1>3, <1>6, <1>11, <2>1 DEF Registry, MailFromCalls
  <2>3. MailOK(a, Append(mail, m))'
    <3>1. MailOK(a, mail)'
      BY <1>9, <2>2, MailOKKept
    <3>2. FromCall(a, m)'
      BY <1>2, <1>4, <1>7, <1>8, <1>11 DEF FromCall
    <3>3. \A i \in DOMAIN mail : mail[i].op # "Stop" => mail[i].by # c
      BY <2>2 DEF MailOK, FromCall
    <3> QED
      BY <1>4, <2>2, <3>1, <3>2, <3>3, MailPosted
  <2>4. MailFromCalls'
    <3>1. ASSUME NEW b \in DOMAIN actors'
          PROVE  \E x : x = actors'[b].mail /\ MailOK(b, x)'
      <4>1. CASE b = a
        BY <2>2, <2>3, <4>1
      <4>2. CASE b # a
        <5>1. PICK x : x = actors[b].mail
          OBVIOUS
        <5>2. actors'[b].mail = x /\ MailOK(b, x)
          BY <1>6, <4>2, <5>1 DEF Registry, MailFromCalls, ActorIds
        <5>3. MailOK(b, x)'
          BY <1>9, <5>2, MailOKKept
        <5> QED
          BY <5>2, <5>3
      <4> QED
        BY <4>1, <4>2
    <3> QED
      BY <3>1, MailNext
  <2>5. \A b \in DOMAIN actors : /\ actors'[b].session = actors[b].session
                                 /\ actors'[b].alive <=> actors[b].alive
                                 /\ Stopping(b)' <=> Stopping(b)
    <3> TAKE b \in DOMAIN actors
    <3>1. CASE b = a
      <4>1. Stopping(a)' <=> \E i \in DOMAIN Append(mail, m) : Append(mail, m)[i].op = "Stop"
        BY <2>2 DEF Stopping
      <4>2. Stopping(a) <=> \E i \in DOMAIN mail : mail[i].op = "Stop"
        BY <2>1 DEF Stopping
      <4> QED
        BY <1>4, <1>6, <2>2, <3>1, <4>1, <4>2, StopPosted
    <3>2. CASE b # a
      BY <1>6, <3>2 DEF Stopping
    <3> QED
      BY <3>1, <3>2
  <2>6. \A s \in DOMAIN entry : entry[s] \in DOMAIN actors
    BY <1>1 DEF EntryOK, ActorIds
  <2>7. EntriesOwn'
    BY <2>5, <2>6 DEF Registry, EntriesOwn
  <2>8. EntriesAlive'
    <3> SUFFICES ASSUME NEW s \in DOMAIN entry, NEW b, b = entry[s]
                 PROVE  actors'[b].alive /\ ~Stopping(b)'
      BY DEF EntriesAlive, Stopping
    <3>1. b \in DOMAIN actors /\ actors[b].alive /\ ~Stopping(b)
      BY <2>6 DEF Registry, EntriesAlive
    <3> QED
      BY <2>5, <3>1
  <2>9. TeardownHolds'
    BY <1>9, TeardownKept DEF Registry
  <2>10. NoActorLost'
    <3> SUFFICES ASSUME NEW b \in DOMAIN actors', actors'[b].alive
                 PROVE  \/ \E t \in DOMAIN entry' : entry'[t] = b
                        \/ Stopping(b)'
                        \/ \E d \in DOMAIN calls' : TearsDown(d, b)'
      BY DEF NoActorLost, ActorIds
    <3>1. \/ \E t \in DOMAIN entry : entry[t] = b
          \/ Stopping(b)
          \/ \E d \in DOMAIN calls : TearsDown(d, b)
      BY <1>6, <2>5 DEF Registry, NoActorLost, ActorIds
    <3>2. CASE \E t \in DOMAIN entry : entry[t] = b
      BY <3>2
    <3>3. CASE Stopping(b)
      BY <1>6, <2>5, <3>3
    <3>4. CASE \E d \in DOMAIN calls : TearsDown(d, b)
      BY <1>9, <3>4 DEF TeardownsKept
    <3> QED
      BY <3>1, <3>2, <3>3, <3>4
  <2> QED
    BY <1>6, <1>7, <1>11, <2>4, <2>7, <2>8, <2>9, <2>10, RegistryParts
<1> QED
  BY <1>10, <1>11

\* teardown_session takes the entry of session s out of the cache.
LEMMA EntryTaken ==
    ASSUME Shape, Registry, UNCHANGED actors, AwaitingKept, NEW s,
           DOMAIN entry' = DOMAIN entry \ {s}, \A t \in DOMAIN entry' : entry'[t] = entry[t],
           \A d, b : d \in DOMAIN calls' /\ TearsDown(d, b)' =>
                       (d \in DOMAIN calls /\ TearsDown(d, b)) \/ (s \in DOMAIN entry /\ b = entry[s]),
           \A d, b : d \in DOMAIN calls /\ TearsDown(d, b) => d \in DOMAIN calls' /\ TearsDown(d, b)',
           NEW a, a = entry[s], s \in DOMAIN entry => \E d \in DOMAIN calls' : TearsDown(d, a)'
    PROVE  Registry' /\ EntryOK'
<1>1. EntryOK /\ ActorsOK /\ CallsOK
  BY Groups
<1>2. EntryOK'
  BY <1>1 DEF EntryOK, ActorIds
<1>3. ActorsKept
  BY DEF ActorsKept, Alike
<1>4. MailFromCalls'
  BY <1>3, MailKept DEF Registry
<1>5. EntriesOwn' /\ EntriesAlive'
  BY DEF Registry, EntriesOwn, EntriesAlive, Stopping
<1>6. TeardownHolds'
  <2> SUFFICES ASSUME NEW c \in DOMAIN calls', NEW t \in DOMAIN entry', NEW b, b = entry'[t],
                      TearsDown(c, b)'
               PROVE  FALSE
    BY DEF TeardownHolds, TearsDown
  <2>1. t \in DOMAIN entry /\ t # s /\ b = entry[t]
    OBVIOUS
  <2>2. CASE c \in DOMAIN calls /\ TearsDown(c, b)
    BY <2>1, <2>2 DEF Registry, TeardownHolds
  <2>3. CASE s \in DOMAIN entry /\ b = entry[s]
    BY <2>1, <2>3 DEF Registry, EntriesOwn
  <2> QED
    BY <2>2, <2>3
<1>7. NoActorLost'
  <2> SUFFICES ASSUME NEW b \in DOMAIN actors, actors[b].alive
               PROVE  \/ \E t \in DOMAIN entry' : entry'[t] = b
                      \/ Stopping(b)'
                      \/ \E d \in DOMAIN calls' : TearsDown(d, b)'
    BY DEF NoActorLost, ActorIds
  <2>1. \/ \E t \in DOMAIN entry : entry[t] = b
        \/ Stopping(b)
        \/ \E d \in DOMAIN calls : TearsDown(d, b)
    BY DEF Registry, NoActorLost, ActorIds
  <2>2. CASE \E t \in DOMAIN entry : entry[t] = b
    <3>1. PICK t \in DOMAIN entry : entry[t] = b
      BY <2>2
    <3>2. CASE t = s
      BY <3>1, <3>2
    <3>3. CASE t # s
      BY <3>1, <3>3
    <3> QED
      BY <3>2, <3>3
  <2>3. CASE Stopping(b)
    BY <2>3 DEF Stopping
  <2>4. CASE \E d \in DOMAIN calls : TearsDown(d, b)
    BY <2>4
  <2> QED
    BY <2>1, <2>2, <2>3, <2>4
<1> QED
  BY <1>2, <1>4, <1>5, <1>6, <1>7, RegistryParts

\* An actor that is not in the cache any more is told to stop.
LEMMA StopSent ==
    ASSUME Shape, Registry, NEW a \in ActorIds, AwaitingKept,
           actors' = Posted(actors, a, [op |-> "Stop", by |-> "cache"]),
           \A d, b : d \in DOMAIN calls' /\ TearsDown(d, b)' => d \in DOMAIN calls /\ TearsDown(d, b),
           \A d, b : b # a /\ d \in DOMAIN calls /\ TearsDown(d, b) => d \in DOMAIN calls' /\ TearsDown(d, b)',
           DOMAIN entry' \subseteq DOMAIN entry,
           \A t \in DOMAIN entry' : entry'[t] = entry[t] /\ entry[t] # a,
           \A t \in DOMAIN entry : entry[t] # a => t \in DOMAIN entry'
    PROVE  /\ Registry' /\ EntryOK' /\ ActorsOK' /\ Len(actors') = Len(actors)
           /\ DOMAIN actors' = DOMAIN actors
<1>1. EntryOK /\ ActorsOK /\ CallsOK
  BY Groups
<1>2. PICK m : m = [op |-> "Stop", by |-> "cache"]
  OBVIOUS
<1>3. m \in Message /\ m.op = "Stop" /\ m.by = "cache" /\ actors' = Posted(actors, a, m)
  BY <1>2 DEF Message
<1>4. /\ ActorsOK' /\ Len(actors') = Len(actors) /\ DOMAIN actors' = DOMAIN actors
      /\ \A b \in DOMAIN actors : b # a => actors'[b] = actors[b]
      /\ ~actors[a].alive => actors'[a] = actors[a]
      /\ actors'[a].session = actors[a].session /\ (actors'[a].alive <=> actors[a].alive)
      /\ actors[a].alive => actors'[a].mail = Append(actors[a].mail, m)
      /\ actors[a].mail \in Seq(Message)
  BY <1>1, <1>3, MessagePosted
<1>5. EntryOK'
  BY <1>1, <1>4 DEF EntryOK, ActorIds
<1>6. PICK mail : mail = actors[a].mail
  OBVIOUS
<1>7. mail \in Seq(Message) /\ MailOK(a, mail) /\ (actors[a].alive => actors'[a].mail = Append(mail, m))
  BY <1>4, <1>6 DEF Registry, MailFromCalls
<1>8. MailFromCalls'
  <2>1. ASSUME NEW b \in DOMAIN actors'
        PROVE  \E x : x = actors'[b].mail /\ MailOK(b, x)'
    <3>1. CASE b = a /\ actors[a].alive
      <4>1. MailOK(a, mail)'
        BY <1>7, MailOKKept
      <4>2. FromCall(a, m)'
        BY <1>3 DEF FromCall
      <4>3. MailOK(a, Append(mail, m))'
        BY <1>3, <1>7, <4>1, <4>2, MailPosted
      <4> QED
        BY <1>7, <3>1, <4>3
    <3>2. CASE b # a \/ ~actors[a].alive
      <4>1. PICK x : x = actors[b].mail
        OBVIOUS
      <4>2. actors'[b].mail = x /\ MailOK(b, x)
        BY <1>4, <3>2, <4>1 DEF Registry, MailFromCalls, ActorIds
      <4>3. MailOK(b, x)'
        BY <4>2, MailOKKept
      <4> QED
        BY <4>2, <4>3
    <3> QED
      BY <3>1, <3>2
  <2> QED
    BY <2>1, MailNext
<1>9. \A t \in DOMAIN entry' : t \in DOMAIN entry /\ entry[t] \in DOMAIN actors
                               /\ actors'[entry'[t]] = actors[entry[t]]
  BY <1>1, <1>4 DEF EntryOK, ActorIds
<1>10. EntriesOwn' /\ EntriesAlive'
  BY <1>9 DEF Registry, EntriesOwn, EntriesAlive, Stopping
<1>11. TeardownHolds'
  <2> SUFFICES ASSUME NEW c \in DOMAIN calls', NEW t \in DOMAIN entry', NEW b, b = entry'[t],
                      TearsDown(c, b)'
               PROVE  FALSE
    BY DEF TeardownHolds, TearsDown
  <2>1. c \in DOMAIN calls /\ TearsDown(c, b) /\ t \in DOMAIN entry /\ b = entry[t]
    OBVIOUS
  <2> QED
    BY <2>1 DEF Registry, TeardownHolds
<1>12. NoActorLost'
  <2> SUFFICES ASSUME NEW b \in DOMAIN actors', actors'[b].alive
               PROVE  \/ \E t \in DOMAIN entry' : entry'[t] = b
                      \/ Stopping(b)'
                      \/ \E d \in DOMAIN calls' : TearsDown(d, b)'
    BY DEF NoActorLost, ActorIds
  <2>1. CASE b = a
    <3>1. actors'[a].mail = Append(mail, m)
      BY <1>4, <1>7, <2>1
    <3>2. \E i \in DOMAIN Append(mail, m) : Append(mail, m)[i].op = "Stop"
      BY <1>3, <1>7, StopPosted
    <3> QED
      BY <2>1, <3>1, <3>2 DEF Stopping
  <2>2. CASE b # a
    <3>1. b \in DOMAIN actors /\ actors'[b] = actors[b] /\ actors[b].alive
      BY <1>4, <2>2
    <3>2. \/ \E t \in DOMAIN entry : entry[t] = b
          \/ Stopping(b)
          \/ \E d \in DOMAIN calls : TearsDown(d, b)
      BY <3>1 DEF Registry, NoActorLost, ActorIds
    <3>3. CASE \E t \in DOMAIN entry : entry[t] = b
      BY <2>2, <3>3
    <3>4. CASE Stopping(b)
      BY <3>1, <3>4 DEF Stopping
    <3>5. CASE \E d \in DOMAIN calls : TearsDown(d, b)
      BY <2>2, <3>5
    <3> QED
      BY <3>2, <3>3, <3>4, <3>5
  <2> QED
    BY <2>1, <2>2
<1> QED
  BY <1>4, <1>5, <1>8, <1>10, <1>11, <1>12, RegistryParts

-----------------------------------------------------------------------------
(***************************************************************************)
(* The steps of the actors.                                                *)
(***************************************************************************)

LEMMA Parts ==
    ASSUME IInv
    PROVE  Shape /\ Registry /\ EntryOK /\ IndexOK /\ ActorsOK /\ CallsOK /\ RestOK
  BY Groups DEF IInv

LEMMA PartsNext ==
    ASSUME EntryOK', IndexOK', ActorsOK', CallsOK', RestOK', Registry'
    PROVE  IInv'
  BY GroupsNext DEF IInv

LEMMA PartsOfNext ==
    ASSUME IInv'
    PROVE  EntryOK' /\ ActorsOK' /\ EntriesOwn'
  BY Zenon DEF IInv, Shape, TypeOK, EntryOK, ActorsOK, Registry

LEMMA IndexFrame ==
    ASSUME IndexOK, UNCHANGED <<owner, watched>>
    PROVE  IndexOK'
  BY DEF IndexOK

\* An answer does not change which calls tear an actor down.
LEMMA AnswerKeepsTeardowns ==
    ASSUME DOMAIN calls' = DOMAIN calls,
           \A c \in DOMAIN calls : calls'[c] = calls[c] \/
              (/\ calls[c].pc = "sent" /\ calls'[c].pc = "replied"
               /\ calls'[c].op = calls[c].op /\ calls'[c].actor = calls[c].actor)
    PROVE  TeardownsKept
<1> SUFFICES ASSUME NEW d \in DOMAIN calls, NEW a
             PROVE  TearsDown(d, a)' <=> TearsDown(d, a)
  BY DEF TeardownsKept
<1>1. CASE calls'[d] = calls[d]
  BY <1>1 DEF TearsDown
<1>2. CASE /\ calls[d].pc = "sent" /\ calls'[d].pc = "replied"
           /\ calls'[d].op = calls[d].op /\ calls'[d].actor = calls[d].actor
  BY <1>2 DEF TearsDown
<1> QED
  BY <1>1, <1>2

LEMMA FromCallOther ==
    ASSUME NEW a, NEW m, FromCall(a, m), DOMAIN calls' = DOMAIN calls,
           m.op # "Stop" => calls'[m.by] = calls[m.by]
    PROVE  FromCall(a, m)'
  BY DEF FromCall

LEMMA HandleCommandStep ==
    ASSUME IInv, NEW a \in ActorIds, HandleCommand(a)
    PROVE  IInv'
<1>1. Shape /\ Registry /\ EntryOK /\ IndexOK /\ ActorsOK /\ CallsOK /\ RestOK
  BY Parts
<1>2. PICK act : act = actors[a]
  OBVIOUS
<1>3. Fits(act) /\ act.mail \in Seq(Message)
  <2>1. Fits(act)
    BY <1>1, <1>2, ActorFacts
  <2> QED
    BY <2>1 DEF Fits, ActorState
<1>4. PICK mail : mail = act.mail
  OBVIOUS
<1>5. mail \in Seq(Message) /\ mail # <<>> /\ act.alive /\ Head(mail).op # "Stop" /\ MailOK(a, mail)
  BY <1>1, <1>2, <1>3, <1>4 DEF HandleCommand, Registry, MailFromCalls
<1>6. PICK c : c = Head(mail).by
  OBVIOUS
<1>7. Head(mail) = mail[1] /\ 1 \in DOMAIN mail /\ mail[1].op # "Stop" /\ mail[1].by = c
  BY <1>5, <1>6, TailFacts
<1>8. c \in DOMAIN calls /\ calls[c].pc = "sent" /\ calls[c].actor = a
  BY <1>5, <1>7 DEF MailOK, FromCall
<1>9. calls[c] \in Call /\ Shaped(calls[c], Len(actors))
  BY <1>1, <1>8 DEF CallsOK, CallsShaped
<1>10. PICK done : done = Apply(Drained(act), calls[c])
  OBVIOUS
<1>11. Fits(done.act) /\ Alike(done.act, act) /\ done.reply \in Reply
  <2>1. PICK dr : dr = Drained(act)
    OBVIOUS
  <2>2. Fits(dr) /\ Alike(dr, act)
    BY <1>3, <2>1, DrainedFacts
  <2>3. PICK call : call = calls[c]
    OBVIOUS
  <2>4. call \in Call /\ (call.sub = 0 => call.op \in {"GetIds", "Delete", "GetData"})
    BY <1>9, <2>3 DEF Shaped
  <2>5. done = Apply(dr, call)
    BY <1>10, <2>1, <2>3
  <2>6. Outcome(done.act, done.reply, dr)
    BY <2>2, <2>4, <2>5, ApplyFacts
  <2> QED
    BY <2>2, <2>6, AlikeTwice DEF Outcome
<1>12. PICK new : new = [done.act EXCEPT !.mail = Tail(@)]
  OBVIOUS
<1>13. Fits(new) /\ new.session = act.session /\ (new.alive <=> act.alive) /\ new.mail = Tail(mail)
  <2>1. PICK x, t : x = done.act /\ t = Tail(mail)
    OBVIOUS
  <2>2. x \in ActorState /\ x.mail = mail /\ x.session = act.session /\ x.alive = act.alive
    BY <1>4, <1>11, <2>1 DEF Fits, Alike
  <2>3. t \in Seq(Message) /\ new = [x EXCEPT !.mail = t]
    BY <1>5, <1>12, <2>1, <2>2, TailFacts
  <2>4. /\ new \in ActorState /\ new.session = x.session /\ new.alive = x.alive /\ new.mail = t
        /\ new.subs = x.subs /\ new.ring = x.ring
    BY <2>2, <2>3 DEF ActorState
  <2>5. Fits(new)
    BY <1>11, <2>1, <2>4 DEF Fits
  <2> QED
    BY <2>1, <2>2, <2>4, <2>5
<1>14. /\ actors' = [actors EXCEPT ![a] = new]
       /\ calls' = [calls EXCEPT ![c].pc = "replied", ![c].reply = done.reply]
       /\ UNCHANGED <<cache, cleanup, producer, created, started, value, history>>
  BY <1>2, <1>4, <1>6, <1>10, <1>12 DEF HandleCommand
<1>15. /\ ActorsOK' /\ Len(actors') = Len(actors) /\ DOMAIN actors' = DOMAIN actors
       /\ actors'[a] = new /\ \A b \in DOMAIN actors : b # a => actors'[b] = actors[b]
  BY <1>1, <1>13, <1>14, ActorChanges
<1>16. /\ DOMAIN calls' = DOMAIN calls /\ (\A d \in DOMAIN calls : d # c => calls'[d] = calls[d])
       /\ calls'[c] = [calls[c] EXCEPT !.pc = "replied", !.reply = done.reply]
  BY <1>8, <1>14
<1>17. /\ calls'[c] \in Call /\ Shaped(calls'[c], Len(actors')) /\ calls'[c].pc = "replied"
       /\ calls'[c].op = calls[c].op /\ calls'[c].actor = calls[c].actor
  <2>1. PICK old, r, ans : old = calls[c] /\ r = calls'[c] /\ ans = done.reply
    OBVIOUS
  <2>2. r = [old EXCEPT !.pc = "replied", !.reply = ans] /\ old \in Call /\ ans \in Reply
        /\ old.pc = "sent"
    BY <1>8, <1>9, <1>11, <1>16, <2>1
  <2>3. /\ r \in Call /\ r.pc = "replied" /\ r.op = old.op /\ r.actor = old.actor
        /\ r.source = old.source /\ r.dest = old.dest /\ r.sub = old.sub /\ r.kind = old.kind
    BY <2>2 DEF Call
  <2>4. Shaped(r, Len(actors))
    BY <1>9, <2>1, <2>2, <2>3 DEF Shaped
  <2> QED
    BY <1>15, <2>1, <2>3, <2>4
<1>18. Len(actors) \in Nat
  BY <1>1, ActorFacts
<1>19. CallsOK'
  BY <1>1, <1>8, <1>15, <1>16, <1>17, <1>18, CallChanges
<1>20. EntryOK' /\ IndexOK' /\ RestOK'
  BY <1>1, <1>14, <1>15, EntryFrame, IndexFrame, RestFrame DEF cache
<1>21. TeardownsKept
  BY <1>8, <1>16, <1>17, AnswerKeepsTeardowns
<1>22. MailFromCalls'
  <2>1. ASSUME NEW b \in DOMAIN actors'
        PROVE  \E x : x = actors'[b].mail /\ MailOK(b, x)'
    <3>1. CASE b = a
      <4>1. PICK t : t = Tail(mail)
        OBVIOUS
      <4>2. /\ \A k \in DOMAIN t : k + 1 \in DOMAIN mail /\ k + 1 # 1 /\ t[k] = mail[k + 1]
            /\ \A j, k \in DOMAIN t : j # k => j + 1 # k + 1
        BY <1>5, <4>1, TailDomain
      <4>3. ASSUME NEW k \in DOMAIN t
            PROVE  FromCall(a, t[k])'
        <5>1. PICK m : m = mail[k + 1]
          OBVIOUS
        <5>2. FromCall(a, m) /\ (m.op # "Stop" => m.by # c)
          BY <1>5, <1>7, <4>2, <5>1 DEF MailOK, OneEach
        <5>3. m.op # "Stop" => calls'[m.by] = calls[m.by]
          BY <1>16, <5>2 DEF FromCall
        <5>4. FromCall(a, m)'
          BY <1>16, <5>2, <5>3, FromCallOther
        <5> QED
          BY <4>2, <5>1, <5>4
      <4>4. OneEach(t)
        BY <1>5, <4>2 DEF MailOK, OneEach
      <4>5. MailOK(a, t)'
        BY <4>3, <4>4 DEF MailOK, OneEach
      <4> QED
        BY <1>13, <1>15, <3>1, <4>1, <4>5
    <3>2. CASE b # a
      <4>1. PICK x : x = actors[b].mail
        OBVIOUS
      <4>2. actors'[b].mail = x /\ MailOK(b, x)
        BY <1>1, <1>15, <3>2, <4>1 DEF Registry, MailFromCalls, ActorIds
      <4>3. ASSUME NEW k \in DOMAIN x
            PROVE  FromCall(b, x[k])'
        <5>1. PICK m : m = x[k]
          OBVIOUS
        <5>2. FromCall(b, m) /\ (m.op # "Stop" => m.by # c)
          BY <1>8, <3>2, <4>2, <5>1 DEF MailOK, FromCall
        <5>3. m.op # "Stop" => calls'[m.by] = calls[m.by]
          BY <1>16, <5>2 DEF FromCall
        <5>4. FromCall(b, m)'
          BY <1>16, <5>2, <5>3, FromCallOther
        <5> QED
          BY <5>1, <5>4
      <4>4. MailOK(b, x)'
        BY <4>2, <4>3 DEF MailOK, OneEach
      <4> QED
        BY <4>2, <4>4
    <3> QED
      BY <3>1, <3>2
  <2> QED
    BY <2>1, MailNext
<1>23. \A b \in DOMAIN actors : /\ actors'[b].session = actors[b].session
                                /\ actors'[b].alive <=> actors[b].alive
                                /\ Stopping(b)' <=> Stopping(b)
  <2> TAKE b \in DOMAIN actors
  <2>1. CASE b = a
    <3>1. Stopping(a)' <=> \E k \in DOMAIN Tail(mail) : Tail(mail)[k].op = "Stop"
      BY <1>13, <1>15 DEF Stopping
    <3>2. Stopping(a) <=> \E k \in DOMAIN mail : mail[k].op = "Stop"
      BY <1>2, <1>4 DEF Stopping
    <3>3. (\E k \in DOMAIN Tail(mail) : Tail(mail)[k].op = "Stop") <=> \E k \in DOMAIN mail : mail[k].op = "Stop"
      <4>1. PICK t : t = Tail(mail)
        OBVIOUS
      <4>2. /\ \A k \in DOMAIN t : k + 1 \in DOMAIN mail /\ t[k] = mail[k + 1]
            /\ \A k \in DOMAIN mail : k # 1 => k - 1 \in DOMAIN t /\ t[k - 1] = mail[k]
        BY <1>5, <4>1, TailDomain
      <4>3. (\E k \in DOMAIN t : t[k].op = "Stop") => \E k \in DOMAIN mail : mail[k].op = "Stop"
        BY <4>2
      <4>4. ASSUME NEW k \in DOMAIN mail, mail[k].op = "Stop"
            PROVE  \E i \in DOMAIN t : t[i].op = "Stop"
        <5>1. k # 1
          BY <1>7, <4>4
        <5>2. k - 1 \in DOMAIN t /\ t[k - 1] = mail[k]
          BY <4>2, <5>1
        <5> QED
          BY <4>4, <5>2
      <4> QED
        BY <4>1, <4>3, <4>4
    <3> QED
      BY <1>2, <1>13, <1>15, <2>1, <3>1, <3>2, <3>3
  <2>2. CASE b # a
    BY <1>15, <2>2 DEF Stopping
  <2> QED
    BY <2>1, <2>2
<1>24. UNCHANGED entry /\ \A s \in DOMAIN entry : entry[s] \in DOMAIN actors
  BY <1>1, <1>14 DEF EntryOK, ActorIds, cache
<1>25. EntriesOwn'
  BY <1>1, <1>23, <1>24 DEF Registry, EntriesOwn
<1>26. EntriesAlive'
  <2> SUFFICES ASSUME NEW s \in DOMAIN entry, NEW b, b = entry[s]
               PROVE  actors'[b].alive /\ ~Stopping(b)'
    BY <1>24 DEF EntriesAlive, Stopping
  <2>1. b \in DOMAIN actors /\ actors[b].alive /\ ~Stopping(b)
    BY <1>1, <1>24 DEF Registry, EntriesAlive
  <2> QED
    BY <1>23, <2>1
<1>27. TeardownHolds'
  BY <1>1, <1>21, <1>24, TeardownKept DEF Registry
<1>28. NoActorLost'
  <2> SUFFICES ASSUME NEW b \in DOMAIN actors', actors'[b].alive
               PROVE  \/ \E t \in DOMAIN entry' : entry'[t] = b
                      \/ Stopping(b)'
                      \/ \E d \in DOMAIN calls' : TearsDown(d, b)'
    BY DEF NoActorLost, ActorIds
  <2>1. \/ \E t \in DOMAIN entry : entry[t] = b
        \/ Stopping(b)
        \/ \E d \in DOMAIN calls : TearsDown(d, b)
    BY <1>1, <1>15, <1>23 DEF Registry, NoActorLost, ActorIds
  <2>2. CASE \E t \in DOMAIN entry : entry[t] = b
    BY <1>24, <2>2
  <2>3. CASE Stopping(b)
    BY <1>15, <1>23, <2>3
  <2>4. CASE \E d \in DOMAIN calls : TearsDown(d, b)
    BY <1>21, <2>4 DEF TeardownsKept
  <2> QED
    BY <2>1, <2>2, <2>3, <2>4
<1>29. Registry'
  BY <1>22, <1>25, <1>26, <1>27, <1>28, RegistryParts
<1> QED
  BY <1>15, <1>19, <1>20, <1>29, PartsNext

LEMMA HandleStopStep ==
    ASSUME IInv, NEW a \in ActorIds, HandleStop(a)
    PROVE  IInv'
<1>1. Shape /\ Registry /\ EntryOK /\ IndexOK /\ ActorsOK /\ CallsOK /\ RestOK
  BY Parts
<1>2. PICK act, mail : act = actors[a] /\ mail = act.mail
  OBVIOUS
<1>3. Fits(act) /\ act \in ActorState /\ mail \in Seq(Message)
  <2>1. Fits(act)
    BY <1>1, <1>2, ActorFacts
  <2> QED
    BY <1>2, <2>1 DEF Fits, ActorState
<1>4. mail # <<>> /\ Head(mail).op = "Stop" /\ MailOK(a, mail)
  BY <1>1, <1>2 DEF HandleStop, Registry, MailFromCalls
<1>5. Stopping(a)
  <2>1. 1 \in DOMAIN mail /\ mail[1].op = "Stop"
    BY <1>3, <1>4, TailFacts
  <2> QED
    BY <1>2, <2>1 DEF Stopping
<1>6. PICK new : new = [act EXCEPT !.alive = FALSE, !.mail = <<>>]
  OBVIOUS
<1>7. Fits(new) /\ new.session = act.session /\ ~new.alive /\ new.mail = <<>>
  <2>1. <<>> \in Seq(Message)
    OBVIOUS
  <2>2. /\ new \in ActorState /\ new.session = act.session /\ ~new.alive /\ new.mail = <<>>
        /\ new.subs = act.subs /\ new.ring = act.ring
    BY <1>3, <1>6, <2>1 DEF ActorState
  <2> QED
    BY <1>3, <2>2 DEF Fits
<1>8. /\ actors' = [actors EXCEPT ![a].alive = FALSE, ![a].mail = <<>>]
      /\ calls' = [c \in DOMAIN calls |->
                     IF c \in Abandoned(a) THEN [calls[c] EXCEPT !.pc = "replied", !.reply = Failed]
                     ELSE calls[c]]
      /\ UNCHANGED <<cache, cleanup, producer, created, started, value, history>>
  BY DEF HandleStop
<1>9. actors' = [actors EXCEPT ![a] = new]
  BY <1>2, <1>6, <1>8
<1>10. /\ ActorsOK' /\ Len(actors') = Len(actors) /\ DOMAIN actors' = DOMAIN actors
       /\ actors'[a] = new /\ \A b \in DOMAIN actors : b # a => actors'[b] = actors[b]
  BY <1>1, <1>7, <1>9, ActorChanges
<1>11. \A c \in Abandoned(a) : c \in DOMAIN calls /\ calls[c].pc = "sent" /\ calls[c].actor = a
  <2> TAKE c \in Abandoned(a)
  <2>1. PICK i \in 2..Len(mail) : mail[i].by = c
    BY <1>2 DEF Abandoned
  <2>2. c # "cache" /\ i \in DOMAIN mail
    BY <1>3, SeqFacts DEF Abandoned
  <2> QED
    BY <1>4, <2>1, <2>2 DEF MailOK, FromCall
<1>12. DOMAIN calls' = DOMAIN calls /\ \A c \in DOMAIN calls : c \notin Abandoned(a) => calls'[c] = calls[c]
  BY <1>8
<1>13. \A c \in Abandoned(a) : /\ calls'[c] \in Call /\ Shaped(calls'[c], Len(actors))
                               /\ calls'[c].pc = "replied" /\ calls'[c].op = calls[c].op
                               /\ calls'[c].actor = calls[c].actor
  <2> TAKE c \in Abandoned(a)
  <2>1. PICK old, r : old = calls[c] /\ r = calls'[c]
    OBVIOUS
  <2>2. /\ r = [old EXCEPT !.pc = "replied", !.reply = Failed] /\ old \in Call
        /\ Shaped(old, Len(actors)) /\ old.pc = "sent"
    BY <1>1, <1>8, <1>11, <2>1 DEF CallsOK, CallsShaped
  <2>3. /\ r \in Call /\ r.pc = "replied" /\ r.op = old.op /\ r.actor = old.actor
        /\ r.source = old.source /\ r.dest = old.dest /\ r.sub = old.sub /\ r.kind = old.kind
    BY <2>2, ReplyFacts DEF Call
  <2>4. Shaped(r, Len(actors))
    BY <2>2, <2>3 DEF Shaped
  <2> QED
    BY <2>1, <2>3, <2>4
<1>14. CallsOK'
  <2>1. \A c \in DOMAIN calls' : calls'[c] \in Call /\ Shaped(calls'[c], Len(actors'))
    BY <1>1, <1>10, <1>12, <1>13 DEF CallsOK, CallsShaped
  <2> QED
    BY <1>1, <1>12, <2>1 DEF CallsOK, CallsShaped
<1>15. EntryOK' /\ IndexOK' /\ RestOK'
  BY <1>1, <1>8, <1>10, EntryFrame, IndexFrame, RestFrame DEF cache
<1>16. TeardownsKept
  <2>1. \A c \in DOMAIN calls : calls'[c] = calls[c] \/
              (/\ calls[c].pc = "sent" /\ calls'[c].pc = "replied"
               /\ calls'[c].op = calls[c].op /\ calls'[c].actor = calls[c].actor)
    BY <1>11, <1>12, <1>13
  <2> QED
    BY <1>12, <2>1, AnswerKeepsTeardowns
<1>17. MailFromCalls'
  <2>1. ASSUME NEW b \in DOMAIN actors'
        PROVE  \E x : x = actors'[b].mail /\ MailOK(b, x)'
    <3>1. CASE b = a
      <4>1. MailOK(a, <<>>)'
        BY DEF MailOK, OneEach
      <4> QED
        BY <1>7, <1>10, <3>1, <4>1
    <3>2. CASE b # a
      <4>1. PICK x : x = actors[b].mail
        OBVIOUS
      <4>2. actors'[b].mail = x /\ MailOK(b, x)
        BY <1>1, <1>10, <3>2, <4>1 DEF Registry, MailFromCalls, ActorIds
      <4>3. ASSUME NEW k \in DOMAIN x
            PROVE  FromCall(b, x[k])'
        <5>1. PICK m : m = x[k]
          OBVIOUS
        <5>2. FromCall(b, m)
          BY <4>2, <5>1 DEF MailOK
        <5>3. m.op # "Stop" => calls'[m.by] = calls[m.by]
          BY <1>11, <1>12, <3>2, <5>2 DEF FromCall
        <5>4. FromCall(b, m)'
          BY <1>12, <5>2, <5>3, FromCallOther
        <5> QED
          BY <5>1, <5>4
      <4>4. MailOK(b, x)'
        BY <4>2, <4>3 DEF MailOK, OneEach
      <4> QED
        BY <4>2, <4>4
    <3> QED
      BY <3>1, <3>2
  <2> QED
    BY <2>1, MailNext
<1>18. UNCHANGED entry /\ \A s \in DOMAIN entry : entry[s] \in DOMAIN actors /\ entry[s] # a
  BY <1>1, <1>5, <1>8 DEF EntryOK, ActorIds, cache, Registry, EntriesAlive
<1>19. EntriesOwn' /\ EntriesAlive'
  BY <1>1, <1>10, <1>18 DEF Registry, EntriesOwn, EntriesAlive, Stopping
<1>20. TeardownHolds'
  BY <1>1, <1>16, <1>18, TeardownKept DEF Registry
<1>21. NoActorLost'
  <2> SUFFICES ASSUME NEW b \in DOMAIN actors', actors'[b].alive
               PROVE  \/ \E t \in DOMAIN entry' : entry'[t] = b
                      \/ Stopping(b)'
                      \/ \E d \in DOMAIN calls' : TearsDown(d, b)'
    BY DEF NoActorLost, ActorIds
  <2>1. b # a /\ b \in DOMAIN actors /\ actors'[b] = actors[b]
    BY <1>7, <1>10
  <2>2. \/ \E t \in DOMAIN entry : entry[t] = b
        \/ Stopping(b)
        \/ \E d \in DOMAIN calls : TearsDown(d, b)
    BY <1>1, <2>1 DEF Registry, NoActorLost, ActorIds
  <2>3. CASE \E t \in DOMAIN entry : entry[t] = b
    BY <1>18, <2>3
  <2>4. CASE Stopping(b)
    BY <2>1, <2>4 DEF Stopping
  <2>5. CASE \E d \in DOMAIN calls : TearsDown(d, b)
    BY <1>16, <2>5 DEF TeardownsKept
  <2> QED
    BY <2>2, <2>3, <2>4, <2>5
<1>22. Registry'
  BY <1>17, <1>19, <1>20, <1>21, RegistryParts
<1> QED
  BY <1>10, <1>14, <1>15, <1>22, PartsNext

\* An actor changes its subscriptions, the calls and the entries stay.
LEMMA QuietStep ==
    ASSUME IInv, NEW a \in ActorIds, NEW act, Fits(act), Alike(act, actors[a]),
           actors' = [actors EXCEPT ![a] = act], UNCHANGED <<cache, calls>>, RestOK'
    PROVE  IInv'
<1>1. Shape /\ Registry /\ EntryOK /\ IndexOK /\ ActorsOK /\ CallsOK
  BY Parts
<1>2. /\ ActorsOK' /\ Len(actors') = Len(actors) /\ DOMAIN actors' = DOMAIN actors
      /\ actors'[a] = act /\ \A b \in DOMAIN actors : b # a => actors'[b] = actors[b]
  BY <1>1, ActorChanges
<1>3. ActorsKept
  <2>1. \A b \in DOMAIN actors : Alike(actors'[b], actors[b])
    BY <1>2 DEF Alike
  <2> QED
    BY <1>2, <2>1 DEF ActorsKept
<1>4. Len(actors) \in Nat
  BY <1>1, ActorFacts
<1>5. EntryOK' /\ IndexOK' /\ CallsOK'
  BY <1>1, <1>2, <1>4, EntryFrame, IndexFrame, CallsFrame DEF cache
<1>6. Registry'
  BY <1>1, <1>3, CallsSameKeeps, RegistryFrame DEF cache
<1> QED
  BY <1>2, <1>5, <1>6, PartsNext

LEMMA SameActorIds ==
    ASSUME ActorsOK, NEW a \in ActorIds, NEW act, Fits(act), actors' = [actors EXCEPT ![a] = act]
    PROVE  DOMAIN actors' = DOMAIN actors
  BY ActorChanges

LEMMA WakeStep ==
    ASSUME IInv, NEW a \in ActorIds, Wake(a)
    PROVE  IInv'
<1>1. ActorsOK /\ RestOK
  BY Parts
<1>2. PICK act : act = Drained(actors[a])
  OBVIOUS
<1>3. Fits(act) /\ Alike(act, actors[a])
  BY <1>1, <1>2, ActorFacts, DrainedFacts
<1>4. /\ actors' = [actors EXCEPT ![a] = act] /\ UNCHANGED <<cache, calls>>
      /\ UNCHANGED <<cleanup, producer, created, started, value, history>>
  BY <1>2 DEF Wake
<1>5. RestOK'
  BY <1>1, <1>3, <1>4, SameActorIds, RestFrame
<1> QED
  BY <1>3, <1>4, <1>5, QuietStep

\* The cleanup task is told of something.
LEMMA CleanupTold ==
    ASSUME RestOK, NEW m \in CleanupMessage, cleanup' = Append(cleanup, m),
           UNCHANGED <<producer, created, started, value, history>>, DOMAIN actors' = DOMAIN actors
    PROVE  RestOK'
<1>1. cleanup' \in Seq(CleanupMessage)
  BY AppendFacts DEF RestOK
<1> QED
  BY <1>1 DEF RestOK, ActorIds, history, RoutesHaveValue

LEMMA TimerRetiresStep ==
    ASSUME IInv, NEW a \in ActorIds, TimerRetires(a)
    PROVE  IInv'
<1>1. ActorsOK /\ RestOK
  BY Parts
<1>2. PICK act, m : /\ act = Drained(actors[a])
                    /\ m = [session |-> actors[a].session, ids |-> {}, items |-> {}, ready |-> TRUE]
  OBVIOUS
<1>3. Fits(act) /\ Alike(act, actors[a]) /\ Fits(actors[a])
  BY <1>1, <1>2, ActorFacts, DrainedFacts
<1>4. m \in CleanupMessage
  BY <1>2, <1>3 DEF CleanupMessage, Fits, ActorState
<1>5. /\ actors' = [actors EXCEPT ![a] = act] /\ UNCHANGED <<cache, calls>>
      /\ cleanup' = Append(cleanup, m) /\ UNCHANGED <<producer, created, started, value, history>>
  BY <1>2 DEF TimerRetires
<1>6. RestOK'
  BY <1>1, <1>3, <1>4, <1>5, SameActorIds, CleanupTold
<1> QED
  BY <1>3, <1>5, <1>6, QuietStep

LEMMA TimerExpiresStep ==
    ASSUME IInv, NEW a \in ActorIds, TimerExpires(a)
    PROVE  IInv'
<1>1. ActorsOK /\ RestOK
  BY Parts
<1>2. PICK act : act = Drained(actors[a])
  OBVIOUS
<1>3. Fits(act) /\ Alike(act, actors[a])
  BY <1>1, <1>2, ActorFacts, DrainedFacts
<1>4. PICK gone \in SUBSET DOMAIN act.subs :
        /\ actors' = [actors EXCEPT ![a] =
             [act EXCEPT !.subs = [id \in DOMAIN act.subs |->
                IF id \in gone THEN [act.subs[id] EXCEPT !.closed = TRUE, !.item = FALSE]
                ELSE act.subs[id]]]]
        /\ cleanup' = Append(cleanup, [session |-> act.session, ids |-> gone,
                                       items |-> gone \cap Items(act.subs), ready |-> FALSE])
  BY <1>2 DEF TimerExpires
<1>5. UNCHANGED <<cache, calls>> /\ UNCHANGED <<producer, created, started, value, history>>
  BY DEF TimerExpires
<1>6. PICK subs, m : /\ subs = [id \in DOMAIN act.subs |->
                                  IF id \in gone THEN [act.subs[id] EXCEPT !.closed = TRUE, !.item = FALSE]
                                  ELSE act.subs[id]]
                     /\ m = [session |-> act.session, ids |-> gone,
                             items |-> gone \cap Items(act.subs), ready |-> FALSE]
  OBVIOUS
<1>7. /\ act \in ActorState /\ act.subs \in Subscriptions /\ act.session \in Sessions
      /\ Cardinality(DOMAIN act.subs) <= MaxPerSession
  BY <1>3 DEF Fits, ActorState
<1>8. DOMAIN act.subs \subseteq SubIds /\ \A id \in DOMAIN act.subs : act.subs[id] \in Sub
  BY <1>7, SubsFacts
<1>9. m \in CleanupMessage
  BY <1>6, <1>7, <1>8 DEF CleanupMessage
<1>10. \A id \in DOMAIN act.subs : subs[id] \in Sub
  <2> TAKE id \in DOMAIN act.subs
  <2>1. PICK b : b = act.subs[id]
    OBVIOUS
  <2>2. b \in Sub /\ [b EXCEPT !.closed = TRUE, !.item = FALSE] \in Sub
    BY <1>8, <2>1 DEF Sub
  <2> QED
    BY <1>6, <2>1, <2>2
<1>11. subs \in Subscriptions /\ DOMAIN subs = DOMAIN act.subs
  <2>1. subs = [id \in DOMAIN act.subs |-> subs[id]]
    BY <1>6
  <2> QED
    BY <1>7, <1>10, <2>1, SameSubs
<1>12. PICK new : new = [act EXCEPT !.subs = subs]
  OBVIOUS
<1>13. Fits(new) /\ Alike(new, act)
  BY <1>3, <1>7, <1>11, <1>12, FitsSubs
<1>14. Alike(new, actors[a])
  BY <1>3, <1>13, AlikeTwice
<1>15. actors' = [actors EXCEPT ![a] = new] /\ cleanup' = Append(cleanup, m)
  BY <1>4, <1>6, <1>12
<1>16. RestOK'
  BY <1>1, <1>5, <1>9, <1>13, <1>15, SameActorIds, CleanupTold
<1> QED
  BY <1>5, <1>13, <1>14, <1>15, <1>16, QuietStep

LEMMA RemoveReadyStep ==
    ASSUME IInv, NEW a \in ActorIds, RemoveReady(a)
    PROVE  IInv'
<1>1. ActorsOK /\ RestOK
  BY Parts
<1>2. PICK act : act = actors[a]
  OBVIOUS
<1>3. Fits(act)
  BY <1>1, <1>2, ActorFacts
<1>4. PICK id : actors' = [actors EXCEPT ![a].subs = Drop(@, {id})]
  BY DEF RemoveReady
<1>5. UNCHANGED <<cache, calls>> /\ UNCHANGED <<cleanup, producer, created, started, value, history>>
  BY DEF RemoveReady
<1>6. PICK subs, new : subs = Drop(act.subs, {id}) /\ new = [act EXCEPT !.subs = subs]
  OBVIOUS
<1>7. actors' = [actors EXCEPT ![a] = new]
  BY <1>2, <1>4, <1>6
<1>8. act.subs \in Subscriptions /\ Cardinality(DOMAIN act.subs) <= MaxPerSession
  BY <1>3 DEF Fits, ActorState
<1>9. subs \in Subscriptions /\ Cardinality(DOMAIN subs) <= Cardinality(DOMAIN act.subs)
  BY <1>6, <1>8, DropSubs
<1>10. Cardinality(DOMAIN subs) <= MaxPerSession
  BY <1>8, <1>9, SubsFacts, LimitFacts
<1>11. Fits(new) /\ Alike(new, actors[a])
  BY <1>2, <1>3, <1>6, <1>9, <1>10, FitsSubs
<1>12. RestOK'
  BY <1>1, <1>5, <1>7, <1>11, SameActorIds, RestFrame
<1> QED
  BY <1>5, <1>7, <1>11, <1>12, QuietStep

-----------------------------------------------------------------------------
(***************************************************************************)
(* The producers and the cleanup task.                                     *)
(***************************************************************************)

LEMMA SnapshotStep ==
    ASSUME IInv, Snapshot
    PROVE  IInv'
<1>1. Shape /\ Registry /\ EntryOK /\ IndexOK /\ ActorsOK /\ CallsOK /\ RestOK
  BY Parts
<1>2. /\ UNCHANGED <<cache, actors, cleanup, calls, created, started, history>>
      /\ producer' = Routes /\ value' = value + 1 /\ value < MaxValues
  BY DEF Snapshot
<1>3. Routes \subseteq ActorIds \X SubIds
  <2> SUFFICES ASSUME NEW id \in watched \cap DOMAIN owner, owner[id] \in DOMAIN entry
               PROVE  <<entry[owner[id]], id>> \in ActorIds \X SubIds
    BY DEF Routes
  <2>1. entry[owner[id]] \in ActorIds /\ id \in SubIds
    BY <1>1 DEF EntryOK, IndexOK
  <2> QED
    BY <2>1
<1>4. value' \in 0..MaxValues /\ value' # 0
  BY <1>1, <1>2, LimitFacts DEF RestOK
<1>5. RestOK'
  BY <1>1, <1>2, <1>3, <1>4 DEF RestOK, ActorIds, history, RoutesHaveValue
<1>6. Len(actors) \in Nat /\ ActorsKept
  BY <1>1, <1>2, ActorFacts DEF ActorsKept, Alike
<1>7. ActorsOK'
  BY <1>1, <1>2 DEF ActorsOK, ActorIds
<1>8. EntryOK' /\ IndexOK' /\ CallsOK'
  BY <1>1, <1>2, <1>6, EntryFrame, IndexFrame, CallsFrame DEF cache
<1>9. Registry'
  BY <1>1, <1>2, <1>6, CallsSameKeeps, RegistryFrame DEF cache
<1> QED
  BY <1>5, <1>7, <1>8, <1>9, PartsNext

LEMMA RingGrows ==
    ASSUME NEW act, Fits(act), NEW v \in SubIds \X (1..MaxValues), ~(Len(act.ring) >= RingCapacity)
    PROVE  Fits([act EXCEPT !.ring = Append(@, v)]) /\ Alike([act EXCEPT !.ring = Append(@, v)], act)
<1>1. PICK ring, new : ring = Append(act.ring, v) /\ new = [act EXCEPT !.ring = ring]
  OBVIOUS
<1>2. act \in ActorState /\ act.ring \in Seq(SubIds \X (1..MaxValues))
  BY DEF Fits, ActorState
<1>3. ring \in Seq(SubIds \X (1..MaxValues)) /\ Len(ring) = Len(act.ring) + 1 /\ Len(act.ring) \in Nat
  BY <1>1, <1>2, AppendFacts, SeqFacts
<1>4. Len(ring) <= RingCapacity
  BY <1>3, LimitFacts
<1>5. /\ new \in ActorState /\ new.session = act.session /\ new.mail = act.mail
      /\ new.alive = act.alive /\ new.ring = ring /\ new.subs = act.subs
  BY <1>1, <1>2, <1>3 DEF ActorState
<1>6. Fits(new) /\ Alike(new, act)
  BY <1>4, <1>5 DEF Fits, Alike
<1> QED
  BY <1>1, <1>6

LEMMA HistoryGrows ==
    ASSUME NEW h \in [SubIds -> SUBSET (1..MaxValues)], NEW id \in SubIds, NEW v \in 1..MaxValues
    PROVE  [h EXCEPT ![id] = @ \cup {v}] \in [SubIds -> SUBSET (1..MaxValues)]
  OBVIOUS

LEMMA PushStep ==
    ASSUME IInv, Push
    PROVE  IInv'
<1>1. Shape /\ Registry /\ EntryOK /\ IndexOK /\ ActorsOK /\ CallsOK /\ RestOK
  BY Parts
<1>2. PICK route \in producer :
        /\ producer' = producer \ {route}
        /\ actors' = IF Len(actors[route[1]].ring) >= RingCapacity THEN actors
                     ELSE [actors EXCEPT ![route[1]].ring = Append(@, <<route[2], value>>)]
        /\ routed' = [routed EXCEPT ![route[2]] = @ \cup {value}]
        /\ dropped' = IF Len(actors[route[1]].ring) >= RingCapacity
                        THEN [dropped EXCEPT ![route[2]] = @ \cup {value}] ELSE dropped
  BY DEF Push
<1>3. UNCHANGED <<cache, cleanup, calls, created, started, value>>
  BY DEF Push
<1>4. PICK a, id, v : a = route[1] /\ id = route[2] /\ v = <<route[2], value>>
  OBVIOUS
<1>5. a \in ActorIds /\ id \in SubIds /\ route \in ActorIds \X SubIds
  BY <1>1, <1>4 DEF RestOK
<1>6. value \in 1..MaxValues
  <2>1. value \in 0..MaxValues /\ value # 0
    BY <1>1, <1>2 DEF RestOK, RoutesHaveValue
  <2> QED
    BY <2>1, LimitFacts
<1>7. routed' \in [SubIds -> SUBSET (1..MaxValues)] /\ dropped' \in [SubIds -> SUBSET (1..MaxValues)]
  BY <1>1, <1>2, <1>4, <1>5, <1>6, HistoryGrows DEF RestOK
<1>8. DOMAIN actors' = DOMAIN actors => RestOK'
  BY <1>1, <1>2, <1>3, <1>7 DEF RestOK, ActorIds, RoutesHaveValue
<1>9. CASE Len(actors[a].ring) >= RingCapacity
  <2>1. UNCHANGED actors
    BY <1>2, <1>4, <1>9
  <2>2. Len(actors) \in Nat /\ ActorsKept
    BY <1>1, <2>1, ActorFacts DEF ActorsKept, Alike
  <2>3. ActorsOK'
    BY <1>1, <2>1 DEF ActorsOK, ActorIds
  <2>4. EntryOK' /\ IndexOK' /\ CallsOK'
    BY <1>1, <1>3, <2>1, <2>2, EntryFrame, IndexFrame, CallsFrame DEF cache
  <2>5. Registry'
    BY <1>1, <1>3, <2>2, CallsSameKeeps, RegistryFrame DEF cache
  <2> QED
    BY <1>8, <2>1, <2>3, <2>4, <2>5, PartsNext
<1>10. CASE ~(Len(actors[a].ring) >= RingCapacity)
  <2>1. PICK act, new : act = actors[a] /\ new = [act EXCEPT !.ring = Append(@, v)]
    OBVIOUS
  <2>2. Fits(act) /\ v \in SubIds \X (1..MaxValues)
    BY <1>1, <1>4, <1>5, <1>6, <2>1, ActorFacts
  <2>3. Fits(new) /\ Alike(new, act)
    BY <1>10, <2>1, <2>2, RingGrows
  <2>4. actors' = [actors EXCEPT ![a] = new]
    BY <1>2, <1>4, <1>10, <2>1
  <2>5. DOMAIN actors' = DOMAIN actors
    BY <2>4
  <2> QED
    BY <1>3, <1>5, <1>8, <2>1, <2>3, <2>4, <2>5, QuietStep
<1> QED
  BY <1>9, <1>10

\* The indexes after what a subscription leaves behind is taken out of them.
LEMMA Deregistered ==
    ASSUME IndexOK, NEW ids, NEW items, Deregister(ids, items)
    PROVE  IndexOK'
  BY DEF IndexOK, Deregister, Drop

LEMMA RunCleanupStep ==
    ASSUME IInv, RunCleanup
    PROVE  IInv'
<1>1. Shape /\ Registry /\ EntryOK /\ IndexOK /\ ActorsOK /\ CallsOK /\ RestOK
  BY Parts
<1>2. PICK msg : msg = Head(cleanup)
  OBVIOUS
<1>3. PICK retired : retired = (msg.ready /\ msg.session \in DOMAIN entry)
  OBVIOUS
<1>4. /\ Deregister(msg.ids, msg.items)
      /\ entry' = IF retired THEN Drop(entry, {msg.session}) ELSE entry
      /\ actors' = IF retired THEN Posted(actors, entry[msg.session], [op |-> "Stop", by |-> "cache"])
                   ELSE actors
  BY <1>2, <1>3 DEF RunCleanup
<1>5. /\ UNCHANGED <<calls, producer, created, started, value, history>>
      /\ cleanup' = Tail(cleanup) /\ cleanup # <<>>
  BY DEF RunCleanup
<1>6. IndexOK'
  BY <1>1, <1>4, Deregistered
<1>7. cleanup' \in Seq(CleanupMessage)
  BY <1>1, <1>5, TailFacts DEF RestOK
<1>8. DOMAIN actors' = DOMAIN actors => RestOK'
  BY <1>1, <1>5, <1>7 DEF RestOK, ActorIds, history, RoutesHaveValue
<1>9. Len(actors) \in Nat /\ AwaitingKept /\ TeardownsKept
  BY <1>1, <1>5, ActorFacts, CallsSameKeeps
<1>10. CASE ~retired
  <2>1. UNCHANGED <<entry, actors>>
    BY <1>4, <1>10
  <2>2. ActorsKept
    BY <2>1 DEF ActorsKept, Alike
  <2>3. ActorsOK'
    BY <1>1, <2>1 DEF ActorsOK, ActorIds
  <2>4. EntryOK' /\ CallsOK'
    BY <1>1, <1>5, <1>9, <2>1, EntryFrame, CallsFrame
  <2>5. Registry'
    BY <1>1, <1>9, <2>1, <2>2, RegistryFrame
  <2> QED
    BY <1>6, <1>8, <2>1, <2>3, <2>4, <2>5, PartsNext
<1>11. CASE retired
  <2>1. PICK s, a : s = msg.session /\ a = entry[s]
    OBVIOUS
  <2>2. /\ s \in DOMAIN entry /\ a \in ActorIds /\ DOMAIN entry' = DOMAIN entry \ {s}
        /\ \A t \in DOMAIN entry' : entry'[t] = entry[t]
        /\ actors' = Posted(actors, a, [op |-> "Stop", by |-> "cache"])
    BY <1>1, <1>3, <1>4, <1>11, <2>1 DEF EntryOK, Drop
  <2>3. \A t \in DOMAIN entry : t # s => entry[t] # a
    BY <1>1, <2>1, <2>2 DEF Registry, EntriesOwn
  <2>4. /\ \A d, b : d \in DOMAIN calls' /\ TearsDown(d, b)' => d \in DOMAIN calls /\ TearsDown(d, b)
        /\ \A d, b : b # a /\ d \in DOMAIN calls /\ TearsDown(d, b) => d \in DOMAIN calls' /\ TearsDown(d, b)'
    BY <1>9 DEF TeardownsKept
  <2>5. /\ DOMAIN entry' \subseteq DOMAIN entry
        /\ \A t \in DOMAIN entry' : entry'[t] = entry[t] /\ entry[t] # a
        /\ \A t \in DOMAIN entry : entry[t] # a => t \in DOMAIN entry'
    BY <2>1, <2>2, <2>3
  <2>6. Registry' /\ EntryOK' /\ ActorsOK' /\ Len(actors') = Len(actors) /\ DOMAIN actors' = DOMAIN actors
    BY <1>1, <1>9, <2>2, <2>4, <2>5, StopSent
  <2>7. CallsOK'
    BY <1>1, <1>5, <1>9, <2>6, CallsFrame
  <2> QED
    BY <1>6, <1>8, <2>6, <2>7, PartsNext
<1> QED
  BY <1>10, <1>11

-----------------------------------------------------------------------------
(***************************************************************************)
(* The steps of the calls.                                                 *)
(***************************************************************************)

LEMMA RestCounts ==
    ASSUME RestOK, UNCHANGED <<cleanup, producer, value, history>>, created' \in 0..MaxSubs,
           started' \in 0..MaxCalls, DOMAIN actors \subseteq DOMAIN actors'
    PROVE  RestOK'
  BY DEF RestOK, ActorIds, history, RoutesHaveValue

LEMMA StartedMore ==
    ASSUME RestOK, started < MaxCalls, started' = started + 1
    PROVE  started' \in 0..MaxCalls
  BY LimitFacts DEF RestOK

\* A call as it begins.
LEMMA NewCall ==
    ASSUME NEW kind \in CallKinds, NEW s \in Sessions, NEW id \in 0..MaxSubs, NEW op \in Ops,
           NEW dest \in 0..MaxActors, NEW n \in Nat, dest \in 0..n,
           op \in {"Clone", "Insert", "Mark", "Complete"} => dest # 0,
           id = 0 => op \in {"GetIds", "Delete", "GetData"} /\ kind # "Delete",
           NEW call, call = [kind |-> kind, session |-> s, sub |-> id, op |-> op, pc |-> "lookup",
                             actor |-> 0, source |-> 0, dest |-> dest, ids |-> {}, reply |-> Failed]
    PROVE  call \in Call /\ Shaped(call, n) /\ call.pc = "lookup"
<1>1. 0 \in 0..MaxActors /\ Failed \in Reply /\ {} \in SUBSET SubIds /\ 0 \in 0..n
  <2>1. Failed \in Reply
    BY ReplyFacts, Zenon
  <2> QED
    BY <2>1, LimitFacts
<1>2. call \in Call
  BY <1>1 DEF Call
<1>3. Shaped(call, n)
  BY <1>1 DEF Shaped
<1> QED
  BY <1>2, <1>3

LEMMA BeginStep ==
    ASSUME IInv, NEW c \in Callers, NEW kind, NEW s \in Sessions, NEW id \in 0..MaxSubs, NEW op \in Ops,
           ~(op \in {"Clone", "Insert", "Mark", "Complete"}),
           id = 0 => op \in {"GetIds", "Delete", "GetData"} /\ kind # "Delete",
           Begin(c, kind, s, id, op), created' \in 0..MaxSubs
    PROVE  IInv'
<1>1. Shape /\ Registry /\ EntryOK /\ IndexOK /\ ActorsOK /\ CallsOK /\ RestOK
  BY Parts
<1>2. PICK call : call = [kind |-> kind, session |-> s, sub |-> id, op |-> op, pc |-> "lookup",
                          actor |-> 0, source |-> 0, dest |-> 0, ids |-> {}, reply |-> Failed]
  OBVIOUS
<1>3. /\ c \notin DOMAIN calls /\ kind \in CallKinds /\ started < MaxCalls /\ started' = started + 1
      /\ calls' = Put(calls, c, call) /\ UNCHANGED <<cache, actors, cleanup, producer, value, history>>
  BY <1>2 DEF Begin
<1>4. Len(actors) \in Nat /\ UNCHANGED Len(actors) /\ ActorsKept
  BY <1>1, <1>3, ActorFacts DEF ActorsKept, Alike
<1>5. call \in Call /\ Shaped(call, Len(actors)) /\ call.pc = "lookup"
  <2>1. PICK n : n = Len(actors)
    OBVIOUS
  <2>2. n \in Nat /\ 0 \in 0..n /\ 0 \in 0..MaxActors
    BY <1>4, <2>1, LimitFacts
  <2> QED
    BY <1>2, <1>3, <2>1, <2>2, NewCall
<1>6. /\ CallsOK' /\ DOMAIN calls' = DOMAIN calls \cup {c} /\ calls'[c] = call
      /\ \A d \in DOMAIN calls : calls'[d] = calls[d]
  <2>1. Len(actors') \in Nat /\ Len(actors) <= Len(actors') /\ Shaped(call, Len(actors'))
    BY <1>3, <1>4, <1>5
  <2> QED
    BY <1>1, <1>3, <1>4, <1>5, <2>1, CallBegins
<1>7. AwaitingKept /\ TeardownsKept
  BY <1>3, <1>5, <1>6, CallBeginKeeps
<1>8. ActorsOK' /\ EntryOK' /\ IndexOK'
  BY <1>1, <1>3, EntryFrame, IndexFrame DEF cache, ActorsOK, ActorIds
<1>9. RestOK'
  BY <1>1, <1>3, StartedMore, RestCounts
<1>10. Registry'
  BY <1>1, <1>3, <1>4, <1>7, RegistryFrame DEF cache
<1> QED
  BY <1>6, <1>8, <1>9, <1>10, PartsNext

LEMMA BeginCreateStep ==
    ASSUME IInv, NEW c \in Callers, NEW s \in Sessions, BeginCreate(c, s)
    PROVE  IInv'
<1>1. RestOK
  BY Parts
<1>2. PICK id : id = created + 1
  OBVIOUS
<1>3. Begin(c, "Create", s, id, "Create") /\ created' = id /\ created < MaxSubs
  BY <1>2 DEF BeginCreate
<1>4. id \in 0..MaxSubs /\ id # 0
  BY <1>1, <1>2, <1>3, LimitFacts DEF RestOK
<1>5. "Create" \in Ops /\ ~("Create" \in {"Clone", "Insert", "Mark", "Complete"})
  BY DEF Ops
<1> QED
  BY <1>3, <1>4, <1>5, BeginStep

LEMMA BeginCloseStep ==
    ASSUME IInv, NEW c \in Callers, NEW s \in Sessions, BeginClose(c, s)
    PROVE  IInv'
<1>1. created \in 0..MaxSubs /\ 0 \in 0..MaxSubs
  BY Parts, LimitFacts DEF RestOK
<1>2. "GetIds" \in Ops /\ ~("GetIds" \in {"Clone", "Insert", "Mark", "Complete"})
  BY DEF Ops
<1>3. Begin(c, "Close", s, 0, "GetIds") /\ created' = created
  BY DEF BeginClose
<1> QED
  BY <1>1, <1>2, <1>3, BeginStep

LEMMA BeginOtherStep ==
    ASSUME IInv, NEW c \in Callers, NEW s \in Sessions, NEW id \in SubIds,
           BeginCreateItem(c, s, id) \/ BeginDelete(c, s, id)
    PROVE  IInv'
<1>1. RestOK
  BY Parts
<1>2. created \in 0..MaxSubs /\ id \in 0..MaxSubs /\ id # 0
  BY <1>1, LimitFacts DEF RestOK
<1>3. /\ {"CreateItem", "Delete"} \subseteq Ops
      /\ {"CreateItem", "Delete"} \cap {"Clone", "Insert", "Mark", "Complete"} = {}
  BY DEF Ops
<1>4. CASE BeginCreateItem(c, s, id)
  <2>1. Begin(c, "CreateItem", s, id, "CreateItem") /\ created' = created
    BY <1>4 DEF BeginCreateItem
  <2> QED
    BY <1>2, <1>3, <2>1, BeginStep
<1>5. CASE BeginDelete(c, s, id)
  <2>1. Begin(c, "Delete", s, id, "Delete") /\ created' = created
    BY <1>5 DEF BeginDelete
  <2> QED
    BY <1>2, <1>3, <2>1, BeginStep
<1> QED
  BY <1>4, <1>5

LEMMA BeginTransferStep ==
    ASSUME IInv, NEW c \in Callers, NEW s \in Sessions, NEW id \in SubIds, BeginTransfer(c, s, id)
    PROVE  IInv'
<1>1. Shape /\ Registry /\ EntryOK /\ IndexOK /\ ActorsOK /\ CallsOK /\ RestOK
  BY Parts
<1>2. PICK dest : dest = entry'[s]
  OBVIOUS
<1>3. PICK call : call = [kind |-> "Transfer", session |-> s, sub |-> id, op |-> "Clone", pc |-> "lookup",
                          actor |-> 0, source |-> 0, dest |-> dest, ids |-> {}, reply |-> Failed]
  OBVIOUS
<1>4. /\ c \notin DOMAIN calls /\ "Transfer" \in CallKinds /\ started < MaxCalls /\ started' = started + 1
      /\ EnsureEntry(s) /\ calls' = Put(calls, c, call)
      /\ UNCHANGED <<owner, watched, cleanup, producer, created, value, history>>
  BY <1>2, <1>3 DEF BeginTransfer
<1>5. /\ DOMAIN calls' = DOMAIN calls \cup {c} /\ calls'[c] = call
      /\ \A d \in DOMAIN calls : calls'[d] = calls[d]
  BY <1>4 DEF Put
<1>6. AwaitingKept /\ TeardownsKept
  <2>1. calls'[c].pc = "lookup"
    BY <1>3, <1>5
  <2> QED
    BY <1>4, <1>5, <2>1, CallBeginKeeps
<1>7. /\ Registry' /\ EntryOK' /\ ActorsOK'
      /\ Len(actors') \in Nat /\ Len(actors) \in Nat /\ Len(actors) <= Len(actors')
      /\ DOMAIN actors \subseteq DOMAIN actors' /\ entry'[s] \in 1..Len(actors')
  BY <1>1, <1>4, <1>6, EntryEnsured
<1>8. call \in Call /\ Shaped(call, Len(actors'))
  <2>1. PICK n : n = Len(actors')
    OBVIOUS
  <2>2. n \in Nat /\ n <= MaxActors /\ dest \in 1..n
    BY <1>2, <1>7, <2>1 DEF ActorsOK
  <2>3. dest \in 0..n /\ dest \in 0..MaxActors /\ dest # 0
    BY <2>2, LimitFacts
  <2>4. "Clone" \in Ops /\ id \in 0..MaxSubs /\ id # 0
    BY LimitFacts DEF Ops
  <2> QED
    BY <1>3, <1>4, <2>1, <2>2, <2>3, <2>4, NewCall
<1>9. CallsOK'
  BY <1>1, <1>4, <1>7, <1>8, CallBegins
<1>10. IndexOK'
  BY <1>1, <1>4, IndexFrame
<1>11. RestOK'
  <2>1. created' \in 0..MaxSubs
    BY <1>1, <1>4 DEF RestOK
  <2> QED
    BY <1>1, <1>4, <1>7, <2>1, StartedMore, RestCounts
<1> QED
  BY <1>7, <1>9, <1>10, <1>11, PartsNext

\* A call goes on, and the entries and the actors stay.
LEMMA CallStep ==
    ASSUME IInv, NEW c \in DOMAIN calls, NEW call \in Call, Shaped(call, Len(actors)),
           calls' = [calls EXCEPT ![c] = call], IndexOK',
           UNCHANGED <<entry, actors, cleanup, producer, created, started, value, history>>,
           calls[c].pc # "sent", ~Tearing(calls[c]), ~Tearing(call)
    PROVE  IInv'
<1>1. Shape /\ Registry /\ EntryOK /\ ActorsOK /\ CallsOK /\ RestOK
  BY Parts
<1>2. /\ DOMAIN calls' = DOMAIN calls /\ calls'[c] = call
      /\ \A d \in DOMAIN calls : d # c => calls'[d] = calls[d]
  OBVIOUS
<1>3. /\ Len(actors) \in Nat /\ Len(actors') \in Nat /\ Len(actors) <= Len(actors')
      /\ ActorsKept
  BY <1>1, ActorFacts DEF ActorsKept, Alike
<1>4. CallsOK'
  BY <1>1, <1>2, <1>3, CallChanges
<1>5. AwaitingKept /\ TeardownsKept
  BY <1>2, CallChangeKeeps
<1>6. ActorsOK' /\ EntryOK' /\ RestOK'
  BY <1>1, EntryFrame, RestFrame DEF ActorsOK, ActorIds
<1>7. Registry'
  BY <1>1, <1>3, <1>5, RegistryFrame
<1> QED
  BY <1>4, <1>6, <1>7, PartsNext

\* A call ends, and the entries and the actors stay.
LEMMA CallDone ==
    ASSUME IInv, NEW c \in DOMAIN calls, EndCall(c), IndexOK',
           UNCHANGED <<entry, actors, cleanup, producer, created, started, value, history>>,
           calls[c].pc # "sent", ~Tearing(calls[c])
    PROVE  IInv'
<1>1. Shape /\ Registry /\ EntryOK /\ ActorsOK /\ CallsOK /\ RestOK
  BY Parts
<1>2. /\ Len(actors) \in Nat /\ Len(actors') \in Nat /\ Len(actors) <= Len(actors')
      /\ ActorsKept
  BY <1>1, ActorFacts DEF ActorsKept, Alike
<1>3. /\ CallsOK' /\ DOMAIN calls' = DOMAIN calls \ {c}
      /\ \A d \in DOMAIN calls' : calls'[d] = calls[d]
  BY <1>1, <1>2, CallEnds
<1>4. AwaitingKept /\ TeardownsKept
  BY <1>3, CallEndKeeps
<1>5. ActorsOK' /\ EntryOK' /\ RestOK'
  BY <1>1, EntryFrame, RestFrame DEF ActorsOK, ActorIds
<1>6. Registry'
  BY <1>1, <1>2, <1>4, RegistryFrame
<1> QED
  BY <1>3, <1>5, <1>6, PartsNext

\* A call sends a command.
LEMMA CommandStep ==
    ASSUME IInv, NEW c \in DOMAIN calls, NEW call \in Call, SendCommand(c, call),
           Shaped(call, Len(actors)), calls[c].pc # "sent", call.pc # "lookup", IndexOK',
           UNCHANGED <<entry, cleanup, producer, created, started, value, history>>,
           Tearing(call) <=> Tearing(calls[c]), Tearing(calls[c]) => call.actor = calls[c].actor
    PROVE  IInv'
<1>1. Shape /\ Registry /\ EntryOK /\ ActorsOK /\ CallsOK /\ RestOK
  BY Parts
<1>2. Len(actors) \in Nat /\ ActorIds = 1..Len(actors)
  BY <1>1, ActorFacts
<1>3. call.actor \in ActorIds
  <2>1. call.actor \in 0..Len(actors) /\ call.actor # 0
    BY DEF Shaped
  <2> QED
    BY <1>2, <2>1
<1>4. /\ Registry' /\ ActorsOK' /\ Len(actors') = Len(actors) /\ DOMAIN actors' = DOMAIN actors
      /\ DOMAIN calls' = DOMAIN calls /\ \A d \in DOMAIN calls : d # c => calls'[d] = calls[d]
      /\ \/ calls'[c] = [call EXCEPT !.pc = "sent"]
         \/ calls'[c] = [call EXCEPT !.pc = "replied", !.reply = Failed]
  BY <1>1, <1>3, CommandSent
<1>5. calls'[c] \in Call /\ Shaped(calls'[c], Len(actors'))
  <2>1. PICK r : r = calls'[c]
    OBVIOUS
  <2>2. Failed \in Reply
    BY ReplyFacts, Zenon
  <2>3. \/ r = [call EXCEPT !.pc = "sent"]
        \/ r = [call EXCEPT !.pc = "replied", !.reply = Failed]
    BY <1>4, <2>1
  <2>4. /\ r \in Call /\ r.op = call.op /\ r.actor = call.actor
        /\ r.source = call.source /\ r.dest = call.dest /\ r.sub = call.sub /\ r.kind = call.kind
    BY <2>2, <2>3 DEF Call
  <2>5. Shaped(r, Len(actors))
    BY <2>4 DEF Shaped
  <2> QED
    BY <1>4, <2>1, <2>4, <2>5
<1>6. CallsOK'
  BY <1>1, <1>2, <1>4, <1>5, CallChanges
<1>7. EntryOK' /\ RestOK'
  BY <1>1, <1>4, EntryFrame, RestFrame
<1> QED
  BY <1>4, <1>6, <1>7, PartsNext

LEMMA SendStep ==
    ASSUME IInv, NEW c \in DOMAIN calls, Send(c)
    PROVE  IInv'
<1>1. IndexOK /\ CallsOK
  BY Parts
<1>2. PICK call : call = calls[c]
  OBVIOUS
<1>3. call \in Call /\ Shaped(call, Len(actors))
  BY <1>1, <1>2 DEF CallsOK, CallsShaped
<1>4. /\ SendCommand(c, call) /\ call.pc = "send"
      /\ UNCHANGED <<cache, cleanup, producer, created, started, value, history>>
  BY <1>2 DEF Send
<1>5. IndexOK'
  BY <1>1, <1>4, IndexFrame DEF cache
<1> QED
  BY <1>2, <1>3, <1>4, <1>5, CommandStep DEF cache

\* What is known of the call of c and of the actors.
LEMMA CallFacts ==
    ASSUME IInv, NEW c \in DOMAIN calls
    PROVE  /\ calls[c] \in Call /\ Shaped(calls[c], Len(actors)) /\ calls[c].session \in Sessions
           /\ calls[c].sub \in 0..MaxSubs /\ calls[c].ids \in SUBSET SubIds /\ calls[c].reply \in Reply
           /\ Len(actors) \in Nat /\ ActorIds = 1..Len(actors) /\ Len(actors) <= MaxActors
           /\ \A s \in DOMAIN entry : entry[s] \in 1..Len(actors)
<1>1. EntryOK /\ ActorsOK /\ CallsOK
  BY Parts
<1>2. calls[c] \in Call /\ Shaped(calls[c], Len(actors))
  BY <1>1 DEF CallsOK, CallsShaped
<1>3. /\ calls[c].session \in Sessions /\ calls[c].sub \in 0..MaxSubs
      /\ calls[c].ids \in SUBSET SubIds /\ calls[c].reply \in Reply
  <2>1. PICK call : call = calls[c]
    OBVIOUS
  <2> QED
    BY <1>2, <2>1 DEF Call
<1>4. Len(actors) \in Nat /\ ActorIds = 1..Len(actors) /\ Len(actors) <= MaxActors
  BY <1>1, ActorFacts DEF ActorsOK
<1> QED
  BY <1>1, <1>2, <1>3, <1>4 DEF EntryOK

LEMMA Within ==
    ASSUME NEW n \in Nat, n <= MaxActors, NEW a \in 1..n
    PROVE  a \in 0..MaxActors /\ a # 0 /\ a \in 0..n
  BY LimitFacts

Handed(old, a) == [old EXCEPT !.actor = a, !.pc = "send"]
HandedIds(old, a, ids) == [old EXCEPT !.actor = a, !.pc = "send", !.ids = ids]

\* A call has found the actor that gets its command ...
LEMMA Found ==
    ASSUME NEW old \in Call, NEW n \in Nat, n <= MaxActors, Shaped(old, n), NEW a \in 1..n,
           ~(old.op \in {"Clone", "Insert", "Mark", "Complete"}),
           NEW call, call = Handed(old, a)
    PROVE  /\ call \in Call /\ Shaped(call, n) /\ call.op = old.op /\ call.pc = "send" /\ call.actor = a
           /\ Tearing(call) <=> old.op = "GetData"
<1>1. a \in 0..MaxActors /\ a # 0 /\ a \in 0..n
  BY Within, Zenon
<1>2. /\ call \in Call /\ call.op = old.op /\ call.actor = a /\ call.pc = "send"
      /\ call.source = old.source /\ call.dest = old.dest /\ call.sub = old.sub /\ call.kind = old.kind
  BY <1>1 DEF Call, Handed
<1>3. Shaped(call, n)
  BY <1>1, <1>2 DEF Shaped
<1> QED
  BY <1>2, <1>3 DEF Tearing

\* ... and the subscriptions that the command is about.
LEMMA FoundIds ==
    ASSUME NEW old \in Call, NEW n \in Nat, n <= MaxActors, Shaped(old, n), NEW a \in 1..n, NEW ids \in SUBSET SubIds,
           ~(old.op \in {"Clone", "Insert", "Mark", "Complete"}),
           NEW call, call = HandedIds(old, a, ids)
    PROVE  /\ call \in Call /\ Shaped(call, n) /\ call.op = old.op /\ call.pc = "send" /\ call.actor = a
           /\ Tearing(call) <=> old.op = "GetData"
<1>1. a \in 0..MaxActors /\ a # 0 /\ a \in 0..n
  BY Within, Zenon
<1>2. /\ call \in Call /\ call.op = old.op /\ call.actor = a /\ call.pc = "send"
      /\ call.source = old.source /\ call.dest = old.dest /\ call.sub = old.sub /\ call.kind = old.kind
  BY <1>1 DEF Call, HandedIds
<1>3. Shaped(call, n)
  BY <1>1, <1>2 DEF Shaped
<1> QED
  BY <1>2, <1>3 DEF Tearing

\* A call that closes a session goes on to its next command.
LEMMA NextCommand ==
    ASSUME NEW old \in Call, NEW n \in Nat, Shaped(old, n), NEW op \in {"Delete", "GetData"},
           NEW call, \/ call = [old EXCEPT !.op = op, !.pc = "lookup"]
                     \/ old.pc = "lookup" /\ call = [old EXCEPT !.op = op]
                     \/ \E ids \in SUBSET SubIds : call = [old EXCEPT !.pc = "lookup", !.ids = ids, !.op = op]
    PROVE  call \in Call /\ Shaped(call, n) /\ ~Tearing(call)
<1>1. op \in Ops /\ ~(op \in {"Clone", "Insert", "Mark", "Complete"})
  BY DEF Ops
<1>2. /\ call \in Call /\ call.op = op /\ call.actor = old.actor /\ call.pc = "lookup"
      /\ call.source = old.source /\ call.dest = old.dest /\ call.sub = old.sub /\ call.kind = old.kind
  <2>1. CASE call = [old EXCEPT !.op = op, !.pc = "lookup"]
    BY <1>1, <2>1 DEF Call
  <2>2. CASE old.pc = "lookup" /\ call = [old EXCEPT !.op = op]
    BY <1>1, <2>2 DEF Call
  <2>3. CASE \E ids \in SUBSET SubIds : call = [old EXCEPT !.pc = "lookup", !.ids = ids, !.op = op]
    <3>1. PICK ids \in SUBSET SubIds : call = [old EXCEPT !.pc = "lookup", !.ids = ids, !.op = op]
      BY <2>3
    <3> QED
      BY <1>1, <3>1 DEF Call
  <2> QED
    BY <2>1, <2>2, <2>3
<1>3. Shaped(call, n)
  BY <1>1, <1>2 DEF Shaped
<1> QED
  BY <1>2, <1>3 DEF Tearing

LEMMA LookupCreateItemStep ==
    ASSUME IInv, NEW c \in DOMAIN calls, LookupCreateItem(c)
    PROVE  IInv'
<1>1. IndexOK
  BY Parts
<1>2. PICK old, n : old = calls[c] /\ n = Len(actors)
  OBVIOUS
<1>3. old \in Call /\ n \in Nat /\ n <= MaxActors /\ Shaped(old, n) /\ \A s \in DOMAIN entry : entry[s] \in 1..n
  BY <1>2, CallFacts
<1>4. /\ old.op = "CreateItem" /\ old.pc = "lookup"
      /\ IF old.session \in DOMAIN entry
           THEN calls' = [calls EXCEPT ![c].actor = entry[old.session], ![c].pc = "send"] ELSE EndCall(c)
      /\ UNCHANGED <<cache, actors, cleanup, producer, created, started, value, history>>
  BY <1>2 DEF LookupCreateItem, LookupHandle, At
<1>5. IndexOK' /\ ~Tearing(calls[c]) /\ calls[c].pc # "sent"
  BY <1>1, <1>2, <1>4, IndexFrame DEF cache, Tearing
<1>6. CASE old.session \in DOMAIN entry
  <2>1. PICK a, call : a = entry[old.session] /\ call = Handed(old, a)
    OBVIOUS
  <2>2. call \in Call /\ Shaped(call, n) /\ ~Tearing(call)
    <3>1. a \in 1..n /\ ~(old.op \in {"Clone", "Insert", "Mark", "Complete"}) /\ old.op # "GetData"
      BY <1>3, <1>4, <1>6, <2>1
    <3>2. old \in Call /\ n \in Nat /\ n <= MaxActors /\ Shaped(old, n) /\ call = Handed(old, a)
      BY <1>3, <2>1
    <3>3. call \in Call /\ Shaped(call, n) /\ (Tearing(call) <=> old.op = "GetData")
      BY <3>1, <3>2, Found
    <3> QED
      BY <3>1, <3>3
  <2>3. calls' = [calls EXCEPT ![c] = call]
    BY <1>2, <1>4, <1>6, <2>1 DEF Handed
  <2> QED
    BY <1>2, <1>4, <1>5, <2>2, <2>3, CallStep DEF cache
<1>7. CASE ~(old.session \in DOMAIN entry)
  BY <1>4, <1>5, <1>7, CallDone DEF cache
<1> QED
  BY <1>6, <1>7

LEMMA LookupIdsStep ==
    ASSUME IInv, NEW c \in DOMAIN calls, LookupIds(c)
    PROVE  IInv'
<1>1. IndexOK
  BY Parts
<1>2. PICK old, n : old = calls[c] /\ n = Len(actors)
  OBVIOUS
<1>3. old \in Call /\ n \in Nat /\ n <= MaxActors /\ Shaped(old, n) /\ \A s \in DOMAIN entry : entry[s] \in 1..n
  BY <1>2, CallFacts
<1>4. /\ old.op = "GetIds" /\ old.pc = "lookup"
      /\ calls' = IF old.session \in DOMAIN entry
                    THEN [calls EXCEPT ![c].actor = entry[old.session], ![c].pc = "send"]
                    ELSE [calls EXCEPT ![c].op = "GetData"]
      /\ UNCHANGED <<cache, actors, cleanup, producer, created, started, value, history>>
  BY <1>2 DEF LookupIds, At
<1>5. IndexOK' /\ ~Tearing(calls[c]) /\ calls[c].pc # "sent"
  BY <1>1, <1>2, <1>4, IndexFrame DEF cache, Tearing
<1>6. PICK a, call : /\ a = entry[old.session]
                     /\ call = IF old.session \in DOMAIN entry THEN Handed(old, a)
                               ELSE [old EXCEPT !.op = "GetData"]
  OBVIOUS
<1>7. call \in Call /\ Shaped(call, n) /\ ~Tearing(call)
  <2>1. CASE old.session \in DOMAIN entry
    <3>1. /\ a \in 1..n /\ ~(old.op \in {"Clone", "Insert", "Mark", "Complete"}) /\ old.op # "GetData"
          /\ call = Handed(old, a)
      BY <1>3, <1>4, <1>6, <2>1
    <3> QED
      BY <1>3, <3>1, Found, Zenon
  <2>2. CASE ~(old.session \in DOMAIN entry)
    <3>1. call = [old EXCEPT !.op = "GetData"] /\ "GetData" \in {"Delete", "GetData"}
      BY <1>6, <2>2
    <3> QED
      BY <1>3, <1>4, <3>1, NextCommand
  <2> QED
    BY <2>1, <2>2
<1>8. calls' = [calls EXCEPT ![c] = call]
  BY <1>2, <1>4, <1>6 DEF Handed
<1> QED
  BY <1>2, <1>4, <1>5, <1>7, <1>8, CallStep DEF cache

LEMMA FinishIdsStep ==
    ASSUME IInv, NEW c \in DOMAIN calls, FinishIds(c)
    PROVE  IInv'
<1>1. IndexOK
  BY Parts
<1>2. PICK old, n, ids : old = calls[c] /\ n = Len(actors) /\ ids = calls[c].reply.ids
  OBVIOUS
<1>3. old \in Call /\ n \in Nat /\ n <= MaxActors /\ Shaped(old, n) /\ old.reply \in Reply
  BY <1>2, CallFacts
<1>4. /\ old.op = "GetIds" /\ old.pc = "replied"
      /\ calls' = [calls EXCEPT ![c].pc = "lookup", ![c].ids = ids,
                                ![c].op = IF ids = {} THEN "GetData" ELSE "Delete"]
      /\ UNCHANGED <<cache, actors, cleanup, producer, created, started, value, history>>
  BY <1>2 DEF FinishIds, At
<1>5. IndexOK' /\ ~Tearing(calls[c]) /\ calls[c].pc # "sent"
  BY <1>1, <1>2, <1>4, IndexFrame DEF cache, Tearing
<1>6. PICK op, call : /\ op = IF ids = {} THEN "GetData" ELSE "Delete"
                      /\ call = [old EXCEPT !.pc = "lookup", !.ids = ids, !.op = op]
  OBVIOUS
<1>7. op \in {"Delete", "GetData"} /\ ids \in SUBSET SubIds
  BY <1>2, <1>3, <1>6 DEF Reply
<1>8. call \in Call /\ Shaped(call, n) /\ ~Tearing(call)
  BY <1>3, <1>6, <1>7, NextCommand
<1>9. calls' = [calls EXCEPT ![c] = call]
  BY <1>2, <1>4, <1>6
<1> QED
  BY <1>2, <1>4, <1>5, <1>8, <1>9, CallStep DEF cache

LEMMA FinishCreateStep ==
    ASSUME IInv, NEW c \in DOMAIN calls, FinishCreate(c)
    PROVE  IInv'
<1>1. IndexOK
  BY Parts
<1>2. PICK old, n : old = calls[c] /\ n = Len(actors)
  OBVIOUS
<1>3. old \in Call /\ Shaped(old, n) /\ old.session \in Sessions /\ old.sub \in 0..MaxSubs
  BY <1>2, CallFacts
<1>4. /\ old.op = "Create" /\ old.pc = "replied" /\ EndCall(c)
      /\ owner' = IF old.reply.ok THEN Put(owner, old.sub, old.session) ELSE owner
      /\ UNCHANGED <<entry, watched, actors, cleanup, producer, created, started, value, history>>
  BY <1>2 DEF FinishCreate, At
<1>5. old.sub \in SubIds
  <2>1. old.sub # 0
    BY <1>3, <1>4 DEF Shaped
  <2> QED
    BY <1>3, <2>1, LimitFacts
<1>6. IndexOK'
  BY <1>1, <1>3, <1>4, <1>5 DEF IndexOK, Put
<1>7. ~Tearing(calls[c]) /\ calls[c].pc # "sent"
  BY <1>2, <1>4 DEF Tearing
<1> QED
  BY <1>4, <1>6, <1>7, CallDone

LEMMA FinishCreateItemStep ==
    ASSUME IInv, NEW c \in DOMAIN calls, FinishCreateItem(c)
    PROVE  IInv'
<1>1. IndexOK
  BY Parts
<1>2. PICK old, n : old = calls[c] /\ n = Len(actors)
  OBVIOUS
<1>3. old \in Call /\ Shaped(old, n) /\ old.sub \in 0..MaxSubs
  BY <1>2, CallFacts
<1>4. /\ old.op = "CreateItem" /\ old.pc = "replied" /\ EndCall(c)
      /\ watched' = IF old.reply.ok THEN watched \cup {old.sub} ELSE watched
      /\ UNCHANGED <<entry, owner, actors, cleanup, producer, created, started, value, history>>
  BY <1>2 DEF FinishCreateItem, At
<1>5. old.sub \in SubIds
  <2>1. old.sub # 0
    BY <1>3, <1>4 DEF Shaped
  <2> QED
    BY <1>3, <2>1, LimitFacts
<1>6. IndexOK'
  BY <1>1, <1>4, <1>5 DEF IndexOK
<1>7. ~Tearing(calls[c]) /\ calls[c].pc # "sent"
  BY <1>2, <1>4 DEF Tearing
<1> QED
  BY <1>4, <1>6, <1>7, CallDone

LEMMA LookupDeleteStep ==
    ASSUME IInv, NEW c \in DOMAIN calls, LookupDelete(c)
    PROVE  IInv'
<1>1. IndexOK
  BY Parts
<1>2. PICK old, n, ids : /\ old = calls[c] /\ n = Len(actors)
                         /\ ids = IF old.kind = "Delete" THEN {old.sub} ELSE old.ids
  OBVIOUS
<1>3. /\ old \in Call /\ n \in Nat /\ n <= MaxActors /\ Shaped(old, n)
      /\ old.sub \in 0..MaxSubs /\ old.ids \in SUBSET SubIds
      /\ \A s \in DOMAIN entry : entry[s] \in 1..n
  BY <1>2, CallFacts
<1>4. /\ old.op = "Delete" /\ old.pc = "lookup"
      /\ IF old.session \in DOMAIN entry
           THEN calls' = [calls EXCEPT ![c].actor = entry[old.session], ![c].pc = "send",
                                       ![c].ids = IF old.kind = "Delete" THEN {old.sub} ELSE @]
           ELSE IF old.kind = "Delete" THEN EndCall(c)
           ELSE calls' = [calls EXCEPT ![c].op = "GetData"]
      /\ UNCHANGED <<cache, actors, cleanup, producer, created, started, value, history>>
  BY <1>2 DEF LookupDelete, At
<1>5. IndexOK' /\ ~Tearing(calls[c]) /\ calls[c].pc # "sent"
  BY <1>1, <1>2, <1>4, IndexFrame DEF cache, Tearing
<1>6. ids \in SUBSET SubIds
  <2>1. old.kind = "Delete" => old.sub # 0
    BY <1>3 DEF Shaped
  <2> QED
    BY <1>2, <1>3, <2>1, LimitFacts
<1>7. CASE old.session \in DOMAIN entry
  <2>1. PICK a, call : a = entry[old.session] /\ call = HandedIds(old, a, ids)
    OBVIOUS
  <2>2. call \in Call /\ Shaped(call, n) /\ ~Tearing(call)
    <3>1. a \in 1..n /\ ~(old.op \in {"Clone", "Insert", "Mark", "Complete"}) /\ old.op # "GetData"
      BY <1>3, <1>4, <1>7, <2>1
    <3> QED
      BY <1>3, <1>6, <2>1, <3>1, FoundIds
  <2>3. calls' = [calls EXCEPT ![c] = call]
    BY <1>2, <1>4, <1>7, <2>1 DEF HandedIds
  <2> QED
    BY <1>2, <1>4, <1>5, <2>2, <2>3, CallStep DEF cache
<1>8. CASE ~(old.session \in DOMAIN entry) /\ old.kind = "Delete"
  BY <1>4, <1>5, <1>8, CallDone DEF cache
<1>9. CASE ~(old.session \in DOMAIN entry) /\ old.kind # "Delete"
  <2>1. PICK call : call = [old EXCEPT !.op = "GetData"]
    OBVIOUS
  <2>2. "GetData" \in {"Delete", "GetData"}
    OBVIOUS
  <2>3. call \in Call /\ Shaped(call, n) /\ ~Tearing(call)
    BY <1>3, <1>4, <2>1, <2>2, NextCommand
  <2>4. calls' = [calls EXCEPT ![c] = call]
    BY <1>2, <1>4, <1>9, <2>1
  <2> QED
    BY <1>2, <1>4, <1>5, <2>3, <2>4, CallStep DEF cache
<1> QED
  BY <1>7, <1>8, <1>9

LEMMA FinishDeleteStep ==
    ASSUME IInv, NEW c \in DOMAIN calls, FinishDelete(c)
    PROVE  IInv'
<1>1. IndexOK
  BY Parts
<1>2. PICK old, n : old = calls[c] /\ n = Len(actors)
  OBVIOUS
<1>3. old \in Call /\ n \in Nat /\ Shaped(old, n)
  BY <1>2, CallFacts
<1>4. /\ old.op = "Delete" /\ old.pc = "replied" /\ Deregister(old.reply.ids, old.reply.items)
      /\ IF old.kind = "Delete" THEN EndCall(c)
         ELSE calls' = [calls EXCEPT ![c].op = "GetData", ![c].pc = "lookup"]
      /\ UNCHANGED <<entry, actors, cleanup, producer, created, started, value, history>>
  BY <1>2 DEF FinishDelete, At
<1>5. IndexOK'
  BY <1>1, <1>4, Deregistered
<1>6. ~Tearing(calls[c]) /\ calls[c].pc # "sent"
  BY <1>2, <1>4 DEF Tearing
<1>7. CASE old.kind = "Delete"
  BY <1>4, <1>5, <1>6, <1>7, CallDone
<1>8. CASE old.kind # "Delete"
  <2>1. PICK call : call = [old EXCEPT !.op = "GetData", !.pc = "lookup"]
    OBVIOUS
  <2>2. "GetData" \in {"Delete", "GetData"}
    OBVIOUS
  <2>3. call \in Call /\ Shaped(call, n) /\ ~Tearing(call)
    BY <1>3, <2>1, <2>2, NextCommand
  <2>4. calls' = [calls EXCEPT ![c] = call]
    BY <1>2, <1>4, <1>8, <2>1
  <2> QED
    BY <1>2, <1>4, <1>5, <1>6, <2>3, <2>4, CallStep
<1> QED
  BY <1>7, <1>8

LEMMA LookupCreateStep ==
    ASSUME IInv, NEW c \in DOMAIN calls, LookupCreate(c)
    PROVE  IInv'
<1>1. Shape /\ Registry /\ EntryOK /\ IndexOK /\ ActorsOK /\ CallsOK /\ RestOK
  BY Parts
<1>2. PICK old, n, s : old = calls[c] /\ n = Len(actors') /\ s = old.session
  OBVIOUS
<1>3. old \in Call /\ Shaped(old, Len(actors)) /\ s \in Sessions
  BY <1>2, CallFacts
<1>4. PICK a, call : a = entry'[s] /\ call = Handed(old, a)
  OBVIOUS
<1>5. /\ old.op = "Create" /\ old.pc = "lookup" /\ EnsureEntry(s)
      /\ calls' = [calls EXCEPT ![c].actor = a, ![c].pc = "send"]
      /\ UNCHANGED <<owner, watched, cleanup, producer, created, started, value, history>>
  BY <1>2, <1>4 DEF LookupCreate, At
<1>6. /\ DOMAIN calls' = DOMAIN calls /\ calls'[c] = call
      /\ \A d \in DOMAIN calls : d # c => calls'[d] = calls[d]
  BY <1>2, <1>4, <1>5 DEF Handed
<1>7. call.op = "Create" /\ call.pc = "send" /\ ~Tearing(call) /\ ~Tearing(old)
  BY <1>3, <1>4, <1>5 DEF Handed, Tearing, Call
<1>8. AwaitingKept /\ TeardownsKept
  BY <1>2, <1>5, <1>6, <1>7, CallChangeKeeps
<1>9. /\ Registry' /\ EntryOK' /\ ActorsOK'
      /\ Len(actors') \in Nat /\ Len(actors) \in Nat /\ Len(actors) <= Len(actors')
      /\ DOMAIN actors \subseteq DOMAIN actors' /\ a \in 1..Len(actors')
  BY <1>1, <1>3, <1>4, <1>5, <1>8, EntryEnsured
<1>10. call \in Call /\ Shaped(call, n)
  <2>1. n \in Nat /\ n <= MaxActors /\ a \in 1..n
    BY <1>2, <1>9 DEF ActorsOK
  <2>2. Shaped(old, n)
    BY <1>2, <1>3, <1>9, ShapedMore
  <2>3. ~(old.op \in {"Clone", "Insert", "Mark", "Complete"})
    BY <1>5
  <2> QED
    BY <1>3, <1>4, <2>1, <2>2, <2>3, Found, Zenon
<1>11. CallsOK'
  BY <1>1, <1>2, <1>6, <1>9, <1>10, CallChanges
<1>12. IndexOK' /\ RestOK'
  BY <1>1, <1>5, <1>9, IndexFrame, RestFrame
<1> QED
  BY <1>9, <1>11, <1>12, PartsNext

LEMMA LookupTeardownStep ==
    ASSUME IInv, NEW c \in DOMAIN calls, LookupTeardown(c)
    PROVE  IInv'
<1>1. Shape /\ Registry /\ EntryOK /\ IndexOK /\ ActorsOK /\ CallsOK /\ RestOK
  BY Parts
<1>2. PICK old, n, s : old = calls[c] /\ n = Len(actors) /\ s = old.session
  OBVIOUS
<1>3. /\ old \in Call /\ n \in Nat /\ n <= MaxActors /\ Shaped(old, n)
      /\ \A t \in DOMAIN entry : entry[t] \in 1..n
  BY <1>2, CallFacts
<1>4. PICK a, call : a = entry[s] /\ call = Handed(old, a)
  OBVIOUS
<1>5. /\ old.op = "GetData" /\ old.pc = "lookup"
      /\ IF s \in DOMAIN entry THEN calls' = [calls EXCEPT ![c].actor = a, ![c].pc = "send"] ELSE EndCall(c)
      /\ entry' = Drop(entry, {s})
      /\ UNCHANGED <<owner, watched, actors, cleanup, producer, created, started, value, history>>
  BY <1>2, <1>4 DEF LookupTeardown, At
<1>6. DOMAIN entry' = DOMAIN entry \ {s} /\ \A t \in DOMAIN entry' : entry'[t] = entry[t]
  BY <1>5 DEF Drop
<1>7. Len(actors) \in Nat /\ Len(actors') \in Nat /\ Len(actors) <= Len(actors')
  BY <1>2, <1>3, <1>5
<1>8. IndexOK' /\ RestOK' /\ ActorsOK'
  BY <1>1, <1>5, IndexFrame, RestFrame DEF ActorsOK, ActorIds
<1>9. \A b : ~TearsDown(c, b)
  BY <1>2, <1>5 DEF TearsDown
<1>10. CASE s \in DOMAIN entry
  <2>1. /\ DOMAIN calls' = DOMAIN calls /\ calls'[c] = call
        /\ \A d \in DOMAIN calls : d # c => calls'[d] = calls[d]
    BY <1>2, <1>4, <1>5, <1>10 DEF Handed
  <2>2. call \in Call /\ Shaped(call, n) /\ call.op = old.op /\ call.pc = "send" /\ call.actor = a
    <3>1. a \in 1..n /\ ~(old.op \in {"Clone", "Insert", "Mark", "Complete"})
      BY <1>3, <1>4, <1>5, <1>10
    <3>2. call \in Call /\ Shaped(call, n)
      BY <1>3, <1>4, <3>1, Found, Zenon
    <3>3. call.op = old.op /\ call.pc = "send" /\ call.actor = a
      BY <1>3, <1>4 DEF Handed, Call
    <3> QED
      BY <3>2, <3>3
  <2>3. CallsOK'
    BY <1>1, <1>2, <1>5, <1>7, <2>1, <2>2, CallChanges
  <2>4. AwaitingKept
    BY <1>2, <1>5, <2>1 DEF AwaitingKept
  <2>5. \A b : TearsDown(c, b)' <=> b = a
    BY <1>5, <2>1, <2>2 DEF TearsDown
  <2>6. \A d, b : d # c => ((d \in DOMAIN calls' /\ TearsDown(d, b)') <=> (d \in DOMAIN calls /\ TearsDown(d, b)))
    BY <2>1 DEF TearsDown
  <2>7. /\ \A d, b : d \in DOMAIN calls' /\ TearsDown(d, b)' =>
                       (d \in DOMAIN calls /\ TearsDown(d, b)) \/ (s \in DOMAIN entry /\ b = entry[s])
        /\ \A d, b : d \in DOMAIN calls /\ TearsDown(d, b) => d \in DOMAIN calls' /\ TearsDown(d, b)'
        /\ \E d \in DOMAIN calls' : TearsDown(d, a)'
    BY <1>4, <1>9, <1>10, <2>1, <2>5, <2>6
  <2>8. Registry' /\ EntryOK'
    BY <1>1, <1>4, <1>5, <1>6, <2>4, <2>7, EntryTaken
  <2> QED
    BY <1>8, <2>3, <2>8, PartsNext
<1>11. CASE ~(s \in DOMAIN entry)
  <2>1. EndCall(c)
    BY <1>5, <1>11
  <2>2. /\ CallsOK' /\ DOMAIN calls' = DOMAIN calls \ {c}
        /\ \A d \in DOMAIN calls' : calls'[d] = calls[d]
    BY <1>1, <1>7, <2>1, CallEnds
  <2>3. AwaitingKept /\ TeardownsKept
    BY <1>2, <1>5, <2>2, CallEndKeeps DEF Tearing
  <2>4. /\ \A d, b : d \in DOMAIN calls' /\ TearsDown(d, b)' =>
                       (d \in DOMAIN calls /\ TearsDown(d, b)) \/ (s \in DOMAIN entry /\ b = entry[s])
        /\ \A d, b : d \in DOMAIN calls /\ TearsDown(d, b) => d \in DOMAIN calls' /\ TearsDown(d, b)'
    BY <2>3 DEF TeardownsKept
  <2>5. Registry' /\ EntryOK'
    BY <1>1, <1>4, <1>5, <1>6, <1>11, <2>3, <2>4, EntryTaken
  <2> QED
    BY <1>8, <2>2, <2>5, PartsNext
<1> QED
  BY <1>10, <1>11

LEMMA FinishTeardownStep ==
    ASSUME IInv, NEW c \in DOMAIN calls, FinishTeardown(c)
    PROVE  IInv'
<1>1. Shape /\ Registry /\ EntryOK /\ IndexOK /\ ActorsOK /\ CallsOK /\ RestOK
  BY Parts
<1>2. PICK old, n, a : old = calls[c] /\ n = Len(actors) /\ a = old.actor
  OBVIOUS
<1>3. old \in Call /\ n \in Nat /\ Shaped(old, n) /\ ActorIds = 1..n
  BY <1>2, CallFacts
<1>4. /\ old.op = "GetData" /\ old.pc = "replied" /\ Deregister(old.reply.ids, old.reply.items)
      /\ actors' = Posted(actors, a, [op |-> "Stop", by |-> "cache"]) /\ EndCall(c)
      /\ UNCHANGED <<entry, cleanup, producer, created, started, value, history>>
  BY <1>2 DEF FinishTeardown, At
<1>5. IndexOK'
  BY <1>1, <1>4, Deregistered
<1>6. a \in ActorIds
  <2>1. a \in 0..n /\ a # 0
    BY <1>2, <1>3, <1>4 DEF Shaped
  <2> QED
    BY <1>3, <2>1
<1>7. DOMAIN calls' = DOMAIN calls \ {c} /\ \A d \in DOMAIN calls' : calls'[d] = calls[d]
  BY <1>4 DEF EndCall, Drop
<1>8. AwaitingKept
  BY <1>2, <1>4, <1>7 DEF AwaitingKept
<1>9. \A b : TearsDown(c, b) <=> b = a
  BY <1>2, <1>4 DEF TearsDown
<1>10. \A d, b : d # c => ((d \in DOMAIN calls' /\ TearsDown(d, b)') <=> (d \in DOMAIN calls /\ TearsDown(d, b)))
  BY <1>7 DEF TearsDown
<1>11. /\ \A d, b : d \in DOMAIN calls' /\ TearsDown(d, b)' => d \in DOMAIN calls /\ TearsDown(d, b)
       /\ \A d, b : b # a /\ d \in DOMAIN calls /\ TearsDown(d, b) => d \in DOMAIN calls' /\ TearsDown(d, b)'
  BY <1>7, <1>9, <1>10
<1>12. \A t \in DOMAIN entry : entry[t] # a
  BY <1>1, <1>9 DEF Registry, TeardownHolds
<1>13. /\ DOMAIN entry' \subseteq DOMAIN entry
       /\ \A t \in DOMAIN entry' : entry'[t] = entry[t] /\ entry[t] # a
       /\ \A t \in DOMAIN entry : entry[t] # a => t \in DOMAIN entry'
  BY <1>4, <1>12
<1>14. Registry' /\ EntryOK' /\ ActorsOK' /\ Len(actors') = Len(actors) /\ DOMAIN actors' = DOMAIN actors
  BY <1>1, <1>4, <1>6, <1>8, <1>11, <1>13, StopSent
<1>15. Len(actors) \in Nat /\ Len(actors') \in Nat /\ Len(actors) <= Len(actors')
  BY <1>2, <1>3, <1>14
<1>16. CallsOK'
  BY <1>1, <1>4, <1>15, CallEnds
<1>17. RestOK'
  BY <1>1, <1>4, <1>14, RestFrame
<1> QED
  BY <1>5, <1>14, <1>16, <1>17, PartsNext

\* A transfer has found its source.
LEMMA SourceFound ==
    ASSUME NEW old \in Call, NEW n \in Nat, n <= MaxActors, Shaped(old, n), NEW a \in 1..n, old.op = "Clone",
           NEW call, call = [old EXCEPT !.actor = a, !.source = a, !.pc = "send"]
    PROVE  call \in Call /\ Shaped(call, n) /\ ~Tearing(call)
<1>1. a \in 0..MaxActors /\ a # 0 /\ a \in 0..n
  BY Within, Zenon
<1>2. /\ call \in Call /\ call.op = "Clone" /\ call.actor = a /\ call.source = a
      /\ call.dest = old.dest /\ call.sub = old.sub /\ call.kind = old.kind
  BY <1>1 DEF Call
<1>3. Shaped(call, n)
  BY <1>1, <1>2 DEF Shaped
<1> QED
  BY <1>2, <1>3 DEF Tearing

LEMMA LookupSourceStep ==
    ASSUME IInv, NEW c \in DOMAIN calls, LookupSource(c)
    PROVE  IInv'
<1>1. IndexOK
  BY Parts
<1>2. PICK old, n, found, a : /\ old = calls[c] /\ n = Len(actors) /\ a = entry[owner[old.sub]]
                              /\ found = (/\ old.sub \in DOMAIN owner
                                          /\ owner[old.sub] \in DOMAIN entry
                                          /\ owner[old.sub] # old.session)
  OBVIOUS
<1>3. /\ old \in Call /\ n \in Nat /\ n <= MaxActors /\ Shaped(old, n)
      /\ \A s \in DOMAIN entry : entry[s] \in 1..n
  BY <1>2, CallFacts
<1>4. /\ old.op = "Clone" /\ old.pc = "lookup"
      /\ IF found THEN calls' = [calls EXCEPT ![c].actor = a, ![c].source = a, ![c].pc = "send"]
         ELSE EndCall(c)
      /\ UNCHANGED <<cache, actors, cleanup, producer, created, started, value, history>>
  BY <1>2 DEF LookupSource, At
<1>5. IndexOK' /\ ~Tearing(calls[c]) /\ calls[c].pc # "sent"
  BY <1>1, <1>2, <1>4, IndexFrame DEF cache, Tearing
<1>6. CASE found
  <2>1. PICK call : call = [old EXCEPT !.actor = a, !.source = a, !.pc = "send"]
    OBVIOUS
  <2>2. a \in 1..n
    BY <1>2, <1>3, <1>6
  <2>3. call \in Call /\ Shaped(call, n) /\ ~Tearing(call)
    BY <1>3, <1>4, <2>1, <2>2, SourceFound, Zenon
  <2>4. calls' = [calls EXCEPT ![c] = call]
    BY <1>2, <1>4, <1>6, <2>1
  <2> QED
    BY <1>2, <1>4, <1>5, <2>3, <2>4, CallStep DEF cache
<1>7. CASE ~found
  BY <1>4, <1>5, <1>7, CallDone DEF cache
<1> QED
  BY <1>6, <1>7

\* The next command of a transfer.
Onward(old, op, a) == [old EXCEPT !.op = op, !.actor = a]

LEMMA NextOfTransfer ==
    ASSUME NEW old \in Call, NEW n \in Nat, n <= MaxActors, Shaped(old, n),
           old.op \in {"Clone", "Insert", "Mark", "Complete"}, old.pc = "replied",
           NEW op \in {"Insert", "Mark", "Complete"}, NEW a \in {old.source, old.dest},
           NEW call, call = Onward(old, op, a)
    PROVE  call \in Call /\ Shaped(call, n) /\ ~Tearing(call) /\ call.pc = "replied"
<1>1. op \in Ops /\ op # "GetData"
  BY DEF Ops
<1>2. a \in 0..n /\ a # 0
  BY DEF Shaped
<1>3. a \in 0..MaxActors
  BY DEF Call
<1>4. /\ call \in Call /\ call.op = op /\ call.actor = a /\ call.source = old.source /\ call.pc = "replied"
      /\ call.dest = old.dest /\ call.sub = old.sub /\ call.kind = old.kind
  BY <1>1, <1>3 DEF Call, Onward
<1>5. Shaped(call, n)
  BY <1>2, <1>4 DEF Shaped
<1> QED
  BY <1>1, <1>4, <1>5 DEF Tearing

LEMMA ProceedStep ==
    ASSUME IInv, NEW c \in DOMAIN calls, NEW op \in {"Insert", "Mark", "Complete"},
           NEW a \in {calls[c].source, calls[c].dest}, Proceed(c, op, a), IndexOK',
           calls[c].op \in {"Clone", "Insert", "Mark", "Complete"}, calls[c].pc = "replied"
    PROVE  IInv'
<1>1. PICK old, n, call : old = calls[c] /\ n = Len(actors) /\ call = Onward(old, op, a)
  OBVIOUS
<1>2. old \in Call /\ n \in Nat /\ n <= MaxActors /\ Shaped(old, n)
  BY <1>1, CallFacts
<1>3. /\ IF old.reply.ok THEN SendCommand(c, call) ELSE EndCall(c) /\ UNCHANGED actors
      /\ UNCHANGED <<entry, watched, cleanup, producer, created, started, value, history>>
  BY <1>1 DEF Proceed, Onward
<1>4. ~Tearing(calls[c]) /\ calls[c].pc # "sent"
  BY DEF Tearing
<1>5. CASE old.reply.ok
  <2>1. call \in Call /\ Shaped(call, n) /\ ~Tearing(call) /\ call.pc = "replied"
    <3>1. /\ old.op \in {"Clone", "Insert", "Mark", "Complete"} /\ old.pc = "replied"
          /\ a \in {old.source, old.dest}
      BY <1>1
    <3> QED
      BY <1>1, <1>2, <3>1, NextOfTransfer
  <2>2. SendCommand(c, call) /\ call.pc # "lookup"
    BY <1>3, <1>5, <2>1
  <2> QED
    BY <1>1, <1>3, <1>4, <2>1, <2>2, CommandStep
<1>6. CASE ~old.reply.ok
  BY <1>3, <1>4, <1>6, CallDone
<1> QED
  BY <1>5, <1>6

LEMMA TransferStep ==
    ASSUME IInv, NEW c \in DOMAIN calls,
           \/ TransferCloned(c) \/ TransferInserted(c) \/ TransferMarked(c) \/ TransferCompleted(c)
    PROVE  IInv'
<1>1. IndexOK
  BY Parts
<1>2. CASE TransferCloned(c)
  <2>1. /\ calls[c].op = "Clone" /\ calls[c].pc = "replied" /\ Proceed(c, "Insert", calls[c].dest)
        /\ UNCHANGED <<owner, watched>>
    BY <1>2 DEF TransferCloned, At, Proceed
  <2> QED
    BY <1>1, <2>1, IndexFrame, ProceedStep
<1>3. CASE TransferInserted(c)
  <2>1. /\ calls[c].op = "Insert" /\ calls[c].pc = "replied" /\ Proceed(c, "Mark", calls[c].source)
        /\ UNCHANGED <<owner, watched>>
    BY <1>3 DEF TransferInserted, At, Proceed
  <2> QED
    BY <1>1, <2>1, IndexFrame, ProceedStep
<1>4. CASE TransferMarked(c)
  <2>1. PICK old, n : old = calls[c] /\ n = Len(actors)
    OBVIOUS
  <2>2. old \in Call /\ Shaped(old, n) /\ old.session \in Sessions /\ old.sub \in 0..MaxSubs
    BY <2>1, CallFacts
  <2>3. /\ old.op = "Mark" /\ old.pc = "replied" /\ Proceed(c, "Complete", calls[c].source)
        /\ owner' = IF old.reply.ok THEN Put(owner, old.sub, old.session) ELSE owner
        /\ UNCHANGED watched
    BY <1>4, <2>1 DEF TransferMarked, At, Proceed
  <2>4. old.sub \in SubIds
    <3>1. old.sub # 0
      BY <2>2, <2>3 DEF Shaped
    <3> QED
      BY <2>2, <3>1, LimitFacts
  <2>5. IndexOK'
    BY <1>1, <2>2, <2>3, <2>4 DEF IndexOK, Put
  <2> QED
    BY <2>1, <2>3, <2>5, ProceedStep
<1>5. CASE TransferCompleted(c)
  <2>1. /\ calls[c].op = "Complete" /\ calls[c].pc = "replied" /\ EndCall(c)
        /\ UNCHANGED <<cache, actors, cleanup, producer, created, started, value, history>>
    BY <1>5 DEF TransferCompleted, At
  <2>2. IndexOK' /\ ~Tearing(calls[c]) /\ calls[c].pc # "sent"
    BY <1>1, <2>1, IndexFrame DEF cache, Tearing
  <2> QED
    BY <2>1, <2>2, CallDone DEF cache
<1> QED
  BY <1>2, <1>3, <1>4, <1>5

-----------------------------------------------------------------------------
(***************************************************************************)
(* The invariant holds, and what it implies.                               *)
(***************************************************************************)

LEMMA InitHolds == Init => IInv
<1> SUFFICES ASSUME Init
             PROVE  IInv
  OBVIOUS
<1>1. DOMAIN entry = {} /\ DOMAIN owner = {} /\ DOMAIN calls = {}
  BY DEF Init
<1>2. actors = <<>> /\ Len(actors) = 0 /\ DOMAIN actors = {} /\ cleanup = <<>>
  BY DEF Init
<1>3. EntryOK /\ IndexOK
  BY <1>1 DEF EntryOK, IndexOK, Init
<1>4. ActorsOK
  BY <1>2, LimitFacts DEF ActorsOK, ActorIds
<1>5. CallsOK
  BY <1>1 DEF CallsOK, CallsShaped
<1>6. RestOK
  BY <1>2, LimitFacts DEF RestOK, Init, RoutesHaveValue
<1>7. Registry
  BY <1>1, <1>2 DEF Registry, MailFromCalls, EntriesOwn, EntriesAlive, TeardownHolds, NoActorLost, ActorIds
<1> QED
  BY <1>3, <1>4, <1>5, <1>6, <1>7, Groups DEF IInv

LEMMA StutterStep ==
    ASSUME IInv, UNCHANGED vars
    PROVE  IInv'
<1>1. Shape /\ Registry /\ EntryOK /\ IndexOK /\ ActorsOK /\ CallsOK /\ RestOK
  BY Parts
<1>2. /\ UNCHANGED <<cache, calls>> /\ UNCHANGED actors
      /\ UNCHANGED <<cleanup, producer, created, started, value, history>>
  BY DEF vars
<1>3. Len(actors) \in Nat /\ ActorsKept
  BY <1>1, <1>2, ActorFacts DEF ActorsKept, Alike
<1>4. ActorsOK'
  BY <1>1, <1>2 DEF ActorsOK, ActorIds
<1>5. EntryOK' /\ IndexOK' /\ CallsOK' /\ RestOK'
  BY <1>1, <1>2, <1>3, EntryFrame, IndexFrame, CallsFrame, RestFrame DEF cache
<1>6. Registry'
  BY <1>1, <1>2, <1>3, CallsSameKeeps, RegistryFrame DEF cache
<1> QED
  BY <1>4, <1>5, <1>6, PartsNext

LEMMA NextPreserves == IInv /\ [Next]_vars => IInv'
<1> SUFFICES ASSUME IInv, [Next]_vars
             PROVE  IInv'
  OBVIOUS
<1>1. CASE BeginCall
  <2>1. PICK c \in Callers, s \in Sessions :
          \/ BeginCreate(c, s)
          \/ BeginClose(c, s)
          \/ \E id \in SubIds : BeginCreateItem(c, s, id) \/ BeginDelete(c, s, id) \/ BeginTransfer(c, s, id)
    BY <1>1 DEF BeginCall
  <2>2. CASE BeginCreate(c, s)
    BY <2>2, BeginCreateStep
  <2>3. CASE BeginClose(c, s)
    BY <2>3, BeginCloseStep
  <2>4. CASE \E id \in SubIds : BeginCreateItem(c, s, id) \/ BeginDelete(c, s, id) \/ BeginTransfer(c, s, id)
    BY <2>4, BeginOtherStep, BeginTransferStep
  <2> QED
    BY <2>1, <2>2, <2>3, <2>4
<1>2. ASSUME NEW c \in DOMAIN calls, Step(c)
      PROVE  IInv'
  <2>1. CASE Send(c)
    BY <2>1, SendStep
  <2>2. CASE LookupCreate(c) \/ FinishCreate(c)
    BY <2>2, LookupCreateStep, FinishCreateStep
  <2>3. CASE LookupCreateItem(c) \/ FinishCreateItem(c)
    BY <2>3, LookupCreateItemStep, FinishCreateItemStep
  <2>4. CASE LookupIds(c) \/ FinishIds(c)
    BY <2>4, LookupIdsStep, FinishIdsStep
  <2>5. CASE LookupDelete(c) \/ FinishDelete(c)
    BY <2>5, LookupDeleteStep, FinishDeleteStep
  <2>6. CASE LookupTeardown(c) \/ FinishTeardown(c)
    BY <2>6, LookupTeardownStep, FinishTeardownStep
  <2>7. CASE LookupSource(c)
    BY <2>7, LookupSourceStep
  <2>8. CASE TransferCloned(c) \/ TransferInserted(c) \/ TransferMarked(c) \/ TransferCompleted(c)
    BY <2>8, TransferStep
  <2> QED
    BY <1>2, <2>1, <2>2, <2>3, <2>4, <2>5, <2>6, <2>7, <2>8 DEF Step
<1>3. ASSUME NEW a \in ActorIds, Serve(a) \/ TimerExpires(a) \/ TimerRetires(a) \/ RemoveReady(a)
      PROVE  IInv'
  <2>1. CASE Serve(a)
    BY <2>1, HandleCommandStep, HandleStopStep, WakeStep DEF Serve
  <2>2. CASE TimerExpires(a) \/ TimerRetires(a) \/ RemoveReady(a)
    BY <2>2, TimerExpiresStep, TimerRetiresStep, RemoveReadyStep
  <2> QED
    BY <1>3, <2>1, <2>2
<1>4. CASE RunCleanup
  BY <1>4, RunCleanupStep
<1>5. CASE Snapshot
  BY <1>5, SnapshotStep
<1>6. CASE Push
  BY <1>6, PushStep
<1>7. CASE UNCHANGED vars
  BY <1>7, StutterStep
<1> QED
  BY <1>1, <1>2, <1>3, <1>4, <1>5, <1>6, <1>7 DEF Next

LEMMA Invariance == Spec => []IInv
  BY InitHolds, NextPreserves, PTL DEF Spec

\* Every state is well typed: among others no session holds more than MaxPerSession
\* subscriptions, and no ring holds more than RingCapacity values.
THEOREM TypeCorrect == Spec => []TypeOK
<1>1. IInv => TypeOK
  BY DEF IInv, Shape
<1> QED
  BY <1>1, Invariance, PTL

\* The registry names exactly the actors that run (ensure_session_entry, teardown_session,
\* run_cleanup): an entry leads to an actor that runs and has not been told to stop, and an
\* actor that runs is in an entry, has been told to stop, or is about to be.
THEOREM RegistryAlwaysExact == Spec => []RegistryExact
<1>1. IInv => EntriesAlive
  BY DEF IInv, Registry
<1>2. NoActorLost => NoOrphanActor
  <2> SUFFICES ASSUME NoActorLost, NEW a \in ActorIds, actors[a].alive
               PROVE  \/ \E s \in DOMAIN entry : entry[s] = a
                      \/ Stopping(a)
                      \/ \E c \in DOMAIN calls : calls[c].op = "GetData" /\ calls[c].actor = a
    BY DEF NoOrphanActor
  <2>1. \/ \E s \in DOMAIN entry : entry[s] = a
        \/ Stopping(a)
        \/ \E c \in DOMAIN calls : TearsDown(c, a)
    BY DEF NoActorLost
  <2> QED
    BY <2>1 DEF TearsDown
<1>3. IInv => RegistryExact
  BY <1>1, <1>2 DEF IInv, Registry, RegistryExact
<1> QED
  BY <1>3, Invariance, PTL

-----------------------------------------------------------------------------
(***************************************************************************)
(* What the steps do to subscriptions, calls and indexes.                  *)
(***************************************************************************)

Holds(a, id) == id \in DOMAIN actors[a].subs
Creating(c) == calls[c].op = "Create"
TransferOps == {"Clone", "Insert", "Mark", "Complete"}

\* A transfer that has found its subscription in the registry.
PastLookup(c) == calls[c].op \in TransferOps /\ ~At(c, "Clone", "lookup")

\* Commands are posted and actors spawned, and nothing else happens to them.
ActorsSame ==
    /\ \A a \in DOMAIN actors :
         /\ a \in DOMAIN actors' /\ actors'[a].subs = actors[a].subs
         /\ actors'[a].ring = actors[a].ring /\ actors'[a].session = actors[a].session
    /\ \A a \in DOMAIN actors' : a \notin DOMAIN actors => DOMAIN actors'[a].subs = {}

\* Entries are removed, or added for actors that hold nothing.
EntryKept ==
    \A s \in DOMAIN entry' : \/ s \in DOMAIN entry /\ entry'[s] = entry[s]
                             \/ DOMAIN actors'[entry'[s]].subs = {}

OnlyCall(c) ==
    /\ DOMAIN calls \ {c} = DOMAIN calls' \ {c}
    /\ \A d \in DOMAIN calls : d # c => calls'[d] = calls[d]

\* Call c stays the same call; a creation goes on to the next stage, an answer is bad, and
\* a transfer gets past its lookup only for a subscription that is registered.
Moved(c) ==
    /\ c \in DOMAIN calls
    /\ calls'[c].sub = calls[c].sub /\ calls'[c].session = calls[c].session
    /\ calls'[c].kind = calls[c].kind /\ (calls'[c].op \in TransferOps => calls[c].op \in TransferOps)
    /\ Creating(c)' =>
         /\ Creating(c) /\ calls[c].pc # "replied" /\ calls'[c].pc # "lookup"
         /\ IF calls[c].pc = "lookup" THEN actors'[calls'[c].actor].session = calls[c].session
            ELSE calls'[c].actor = calls[c].actor
    /\ At(c, "CreateItem", "replied")' => ~calls'[c].reply.ok
    /\ PastLookup(c)' => PastLookup(c) \/ calls[c].sub \in DOMAIN owner

OwnerMoved(c) ==
    \A id \in DOMAIN owner' :
        \/ id \in DOMAIN owner /\ owner'[id] = owner[id]
        \/ At(c, "Create", "replied") /\ id = calls[c].sub /\ owner'[id] = calls[c].session
             /\ c \notin DOMAIN calls'
        \/ PastLookup(c) /\ id = calls[c].sub

WatchedMoved(c) ==
    \A id \in watched' :
        \/ id \in watched
        \/ At(c, "CreateItem", "replied") /\ calls[c].reply.ok /\ id = calls[c].sub

\* What a step of call c does.
Effects(c) ==
    /\ ActorsSame /\ EntryKept /\ OnlyCall(c) /\ (c \in DOMAIN calls' => Moved(c))
    /\ OwnerMoved(c) /\ WatchedMoved(c)
    /\ UNCHANGED <<producer, created, value, history>>

LEMMA SameActors ==
    ASSUME UNCHANGED actors
    PROVE  ActorsSame
  BY DEF ActorsSame

LEMMA SameEntry ==
    ASSUME UNCHANGED entry
    PROVE  EntryKept
  BY DEF EntryKept

LEMMA PostedSame ==
    ASSUME ActorsOK, NEW a \in ActorIds, NEW m \in Message, actors' = Posted(actors, a, m)
    PROVE  ActorsSame
<1>1. PICK act : act = actors[a]
  OBVIOUS
<1>2. act \in ActorState
  BY <1>1, ActorFacts DEF Fits
<1>3. CASE ~act.alive
  BY <1>1, <1>3, SameActors DEF Posted
<1>4. CASE act.alive
  <2>1. actors' = [actors EXCEPT ![a] = [act EXCEPT !.mail = Append(@, m)]]
    BY <1>1, <1>4 DEF Posted
  <2>2. PICK new : new = [act EXCEPT !.mail = Append(@, m)]
    OBVIOUS
  <2>3. new.subs = act.subs /\ new.ring = act.ring /\ new.session = act.session
    BY <1>2, <2>2 DEF ActorState
  <2>4. DOMAIN actors' = DOMAIN actors /\ actors'[a] = new /\ \A b \in DOMAIN actors : b # a => actors'[b] = actors[b]
    BY <2>1, <2>2 DEF ActorIds
  <2> QED
    BY <1>1, <2>3, <2>4 DEF ActorsSame
<1> QED
  BY <1>3, <1>4

LEMMA EnsuredSame ==
    ASSUME IInv, NEW s \in Sessions, EnsureEntry(s)
    PROVE  ActorsSame /\ EntryKept /\ actors'[entry'[s]].session = s /\ s \in DOMAIN entry'
<1>1. Registry /\ EntryOK /\ ActorsOK
  BY Parts
<1>2. CASE s \in DOMAIN entry
  <2>1. UNCHANGED <<entry, actors>>
    BY <1>2 DEF EnsureEntry
  <2> QED
    BY <1>1, <1>2, <2>1, SameActors, SameEntry DEF Registry, EntriesOwn
<1>3. CASE s \notin DOMAIN entry
  <2>1. PICK new : new = Actor(s)
    OBVIOUS
  <2>2. Fits(new) /\ new.session = s
    BY <2>1, NewActor
  <2>3. DOMAIN new.subs = {}
    BY <2>1 DEF Actor
  <2>4. actors' = Append(actors, new) /\ Len(actors) < MaxActors /\ entry' = Put(entry, s, Len(actors'))
    BY <1>3, <2>1 DEF EnsureEntry
  <2>5. /\ Len(actors') = Len(actors) + 1
        /\ DOMAIN actors' = DOMAIN actors \cup {Len(actors) + 1} /\ ~(Len(actors) + 1 \in DOMAIN actors)
        /\ actors'[Len(actors) + 1] = new /\ \A b \in DOMAIN actors : actors'[b] = actors[b]
    BY <1>1, <2>2, <2>4, ActorSpawns
  <2>6. ActorsSame
    BY <2>3, <2>5 DEF ActorsSame
  <2>7. DOMAIN entry' = DOMAIN entry \cup {s} /\ entry'[s] = Len(actors') /\ \A z \in DOMAIN entry : z # s => entry'[z] = entry[z]
    <3>1. PICK n : n = Len(actors')
      OBVIOUS
    <3>2. entry' = Put(entry, s, n)
      BY <2>4, <3>1
    <3> QED
        BY <3>1, <3>2 DEF Put
  <2>8. EntryKept
    BY <2>3, <2>5, <2>7 DEF EntryKept
  <2> QED
    BY <2>2, <2>5, <2>6, <2>7, <2>8
<1> QED
  BY <1>2, <1>3

LEMMA OneCall ==
    ASSUME NEW c \in DOMAIN calls, NEW call, calls' = [calls EXCEPT ![c] = call]
    PROVE  OnlyCall(c) /\ DOMAIN calls' = DOMAIN calls /\ calls'[c] = call
  BY DEF OnlyCall

LEMMA NoCall ==
    ASSUME NEW c, EndCall(c)
    PROVE  OnlyCall(c) /\ c \notin DOMAIN calls'
  BY DEF OnlyCall, EndCall, Drop

\* A call that neither creates nor transfers goes on.
LEMMA PlainMove ==
    ASSUME NEW c \in DOMAIN calls, NEW call, calls' = [calls EXCEPT ![c] = call],
           call.sub = calls[c].sub, call.session = calls[c].session, call.kind = calls[c].kind,
           call.op \notin TransferOps, call.op # "Create",
           call.op = "CreateItem" => call.pc # "replied" \/ ~call.reply.ok
    PROVE  OnlyCall(c) /\ Moved(c)
<1>1. OnlyCall(c) /\ calls'[c] = call
  BY OneCall
<1> QED
  BY <1>1 DEF Moved, Creating, PastLookup, At

LEMMA SameIndex ==
    ASSUME NEW c, UNCHANGED <<owner, watched>>
    PROVE  OwnerMoved(c) /\ WatchedMoved(c)
  BY DEF OwnerMoved, WatchedMoved

LEMMA EffectsParts ==
    ASSUME NEW c, ActorsSame, EntryKept, OnlyCall(c), c \in DOMAIN calls' => Moved(c),
           OwnerMoved(c), WatchedMoved(c), UNCHANGED <<producer, created, value, history>>
    PROVE  Effects(c)
  BY DEF Effects

\* The command of call, of any stage, is posted.
LEMMA CommandPosted ==
    ASSUME IInv, NEW c \in DOMAIN calls, NEW call \in Call, SendCommand(c, call), call.actor \in ActorIds
    PROVE  /\ ActorsSame /\ OnlyCall(c) /\ DOMAIN calls' = DOMAIN calls
           /\ \E new \in Call :
                /\ calls'[c] = new
                /\ \/ new = [call EXCEPT !.pc = "sent"]
                   \/ new = [call EXCEPT !.pc = "replied", !.reply = Failed] /\ ~actors[call.actor].alive
<1>1. ActorsOK
  BY Parts
<1>2. PICK a : a = call.actor
  OBVIOUS
<1>3. PICK m : m = [op |-> call.op, by |-> c]
  OBVIOUS
<1>4. c \in Callers
  BY Parts DEF CallsOK
<1>5. m \in Message
  BY <1>3, <1>4 DEF Message, Call
<1>6. ActorsSame
  BY <1>1, <1>2, <1>3, <1>5, PostedSame DEF SendCommand
<1>7. PICK new : new = IF actors[a].alive THEN [call EXCEPT !.pc = "sent"]
                       ELSE [call EXCEPT !.pc = "replied", !.reply = Failed]
  OBVIOUS
<1>8. calls' = [calls EXCEPT ![c] = new]
  BY <1>2, <1>7 DEF SendCommand
<1>9. new \in Call
  BY <1>7, ReplyFacts DEF Call
<1> QED
  BY <1>2, <1>6, <1>7, <1>8, <1>9, OneCall

LEMMA SendEffects ==
    ASSUME IInv, NEW c \in DOMAIN calls, Send(c)
    PROVE  Effects(c)
<1>1. PICK old : old = calls[c]
  OBVIOUS
<1>2. old \in Call /\ Shaped(old, Len(actors)) /\ ActorIds = 1..Len(actors) /\ Len(actors) \in Nat
  BY <1>1, CallFacts
<1>3. /\ old.pc = "send" /\ SendCommand(c, old)
      /\ UNCHANGED <<cache, cleanup, producer, created, started, value, history>>
  BY <1>1 DEF Send
<1>4. old.actor \in ActorIds
  BY <1>2, <1>3 DEF Shaped
<1>5. /\ ActorsSame /\ OnlyCall(c) /\ DOMAIN calls' = DOMAIN calls
      /\ \E new \in Call :
           /\ calls'[c] = new
           /\ \/ new = [old EXCEPT !.pc = "sent"]
              \/ new = [old EXCEPT !.pc = "replied", !.reply = Failed]
  BY <1>2, <1>3, <1>4, CommandPosted
<1>6. Moved(c)
  <2>1. PICK new \in Call : /\ calls'[c] = new
                            /\ \/ new = [old EXCEPT !.pc = "sent"]
                               \/ new = [old EXCEPT !.pc = "replied", !.reply = Failed]
    BY <1>5
  <2>2. /\ new.sub = old.sub /\ new.session = old.session /\ new.kind = old.kind /\ new.op = old.op
        /\ new.actor = old.actor /\ new.pc # "lookup"
    BY <1>2, <2>1 DEF Call
  <2>3. ~Failed.ok
    BY DEF Failed
  <2>4. new.pc = "replied" => ~new.reply.ok
    BY <1>2, <2>1, <2>3 DEF Call
  <2> QED
    BY <1>1, <1>3, <2>1, <2>2, <2>4 DEF Moved, Creating, PastLookup, At
<1>7. UNCHANGED <<owner, watched, entry, producer, created, value, history>>
  BY <1>3 DEF cache
<1> QED
  BY <1>5, <1>6, <1>7, SameIndex, SameEntry, EffectsParts

LEMMA LookupCreateEffects ==
    ASSUME IInv, NEW c \in DOMAIN calls, LookupCreate(c)
    PROVE  Effects(c)
<1>1. PICK old : old = calls[c]
  OBVIOUS
<1>2. old \in Call /\ old.session \in Sessions
  BY <1>1, CallFacts
<1>3. PICK s, a : s = old.session /\ a = entry'[s]
  OBVIOUS
<1>4. /\ old.op = "Create" /\ old.pc = "lookup" /\ EnsureEntry(s)
      /\ calls' = [calls EXCEPT ![c].actor = a, ![c].pc = "send"]
      /\ UNCHANGED <<owner, watched, cleanup, producer, created, started, value, history>>
  BY <1>1, <1>3 DEF LookupCreate, At
<1>5. PICK new : new = [old EXCEPT !.actor = a, !.pc = "send"]
  OBVIOUS
<1>6. calls' = [calls EXCEPT ![c] = new]
  BY <1>1, <1>4, <1>5
<1>7. /\ new.sub = old.sub /\ new.session = old.session /\ new.kind = old.kind /\ new.op = old.op
      /\ new.actor = a /\ new.pc = "send"
  BY <1>2, <1>5 DEF Call
<1>8. ActorsSame /\ EntryKept /\ actors'[a].session = s
  BY <1>2, <1>3, <1>4, EnsuredSame
<1>9. OnlyCall(c) /\ calls'[c] = new
  BY <1>6, OneCall
<1>10. Moved(c)
  BY <1>1, <1>3, <1>4, <1>7, <1>8, <1>9 DEF Moved, Creating, PastLookup, At, TransferOps
<1> QED
  BY <1>4, <1>8, <1>9, <1>10, SameIndex, EffectsParts

LEMMA FinishCreateEffects ==
    ASSUME IInv, NEW c \in DOMAIN calls, FinishCreate(c)
    PROVE  Effects(c)
<1>1. PICK old : old = calls[c]
  OBVIOUS
<1>2. /\ old.op = "Create" /\ old.pc = "replied"
      /\ owner' = IF old.reply.ok THEN Put(owner, old.sub, old.session) ELSE owner
      /\ EndCall(c)
      /\ UNCHANGED <<entry, watched, actors, cleanup, producer, created, started, value, history>>
  BY <1>1 DEF FinishCreate, At
<1>3. OnlyCall(c) /\ c \notin DOMAIN calls'
  BY <1>2, NoCall
<1>4. OwnerMoved(c)
  BY <1>1, <1>2, <1>3 DEF OwnerMoved, Put, At
<1>5. WatchedMoved(c)
  BY <1>2 DEF WatchedMoved
<1> QED
  BY <1>2, <1>3, <1>4, <1>5, SameActors, SameEntry, EffectsParts

LEMMA FinishCreateItemEffects ==
    ASSUME IInv, NEW c \in DOMAIN calls, FinishCreateItem(c)
    PROVE  Effects(c)
<1>1. /\ At(c, "CreateItem", "replied")
      /\ watched' = IF calls[c].reply.ok THEN watched \cup {calls[c].sub} ELSE watched
      /\ EndCall(c)
      /\ UNCHANGED <<entry, owner, actors, cleanup, producer, created, started, value, history>>
  BY DEF FinishCreateItem
<1>2. OnlyCall(c) /\ c \notin DOMAIN calls'
  BY <1>1, NoCall
<1>3. OwnerMoved(c) /\ WatchedMoved(c)
  BY <1>1 DEF OwnerMoved, WatchedMoved
<1> QED
  BY <1>1, <1>2, <1>3, SameActors, SameEntry, EffectsParts

\* A step that changes only what call c knows, or ends it.
LEMMA MoveEffects ==
    ASSUME NEW c \in DOMAIN calls, NEW call, calls' = [calls EXCEPT ![c] = call] \/ EndCall(c),
           call.sub = calls[c].sub, call.session = calls[c].session, call.kind = calls[c].kind,
           call.op \notin TransferOps, call.op # "Create",
           call.op = "CreateItem" => call.pc # "replied" \/ ~call.reply.ok,
           EntryKept, ActorsSame, OwnerMoved(c), WatchedMoved(c),
           UNCHANGED <<producer, created, value, history>>
    PROVE  Effects(c)
<1>1. OnlyCall(c) /\ (c \in DOMAIN calls' => Moved(c))
  BY PlainMove, NoCall
<1> QED
  BY <1>1, EffectsParts

LEMMA LookupHandleEffects ==
    ASSUME IInv, NEW c \in DOMAIN calls, LookupHandle(c), calls[c].op = "CreateItem"
    PROVE  Effects(c)
<1>1. PICK old : old = calls[c]
  OBVIOUS
<1>2. PICK new : new = [old EXCEPT !.actor = entry[old.session], !.pc = "send"]
  OBVIOUS
<1>3. old \in Call
  BY <1>1, CallFacts
<1>4. /\ calls' = [calls EXCEPT ![c] = new] \/ EndCall(c)
      /\ UNCHANGED <<cache, actors, cleanup, producer, created, started, value, history>>
  BY <1>1, <1>2 DEF LookupHandle
<1>5. /\ new.sub = old.sub /\ new.session = old.session /\ new.kind = old.kind /\ new.op = old.op
      /\ new.pc = "send"
  BY <1>2, <1>3 DEF Call
<1>6. UNCHANGED <<entry, owner, watched, actors>>
  BY <1>4 DEF cache
<1> QED
  BY <1>1, <1>4, <1>5, <1>6, SameActors, SameEntry, SameIndex, MoveEffects DEF TransferOps

\* Deletes and closes: the next stage of the call, whatever it is.
LEMMA ClosingEffects ==
    ASSUME IInv, NEW c \in DOMAIN calls,
           \/ LookupIds(c) \/ FinishIds(c) \/ LookupDelete(c) \/ FinishDelete(c)
           \/ LookupTeardown(c) \/ FinishTeardown(c)
    PROVE  Effects(c)
<1>1. PICK old : old = calls[c]
  OBVIOUS
<1>2. old \in Call /\ Shaped(old, Len(actors)) /\ ActorIds = 1..Len(actors) /\ Len(actors) \in Nat
  BY <1>1, CallFacts
<1>3. old.op \in {"GetIds", "Delete", "GetData"}
  BY <1>1 DEF LookupIds, FinishIds, LookupDelete, FinishDelete, LookupTeardown, FinishTeardown, At
<1>4. \E call : /\ calls' = [calls EXCEPT ![c] = call] \/ EndCall(c)
                /\ call.sub = old.sub /\ call.session = old.session /\ call.kind = old.kind
                /\ call.op \in {"GetIds", "Delete", "GetData"}
  <2>1. CASE EndCall(c)
    BY <1>3, <2>1
  <2>2. CASE LookupIds(c) \/ LookupTeardown(c)
    <3>1. PICK e : e = entry[old.session]
      OBVIOUS
    <3>2. PICK new : new = IF old.session \in DOMAIN entry THEN [old EXCEPT !.actor = e, !.pc = "send"]
                           ELSE [old EXCEPT !.op = "GetData"]
      OBVIOUS
    <3>3. calls' = [calls EXCEPT ![c] = new] \/ EndCall(c)
      BY <1>1, <2>2, <3>1, <3>2 DEF LookupIds, LookupTeardown
    <3>4. /\ new.sub = old.sub /\ new.session = old.session /\ new.kind = old.kind
          /\ new.op \in {"GetIds", "Delete", "GetData"}
      BY <1>2, <1>3, <3>2 DEF Call
    <3> QED
      BY <3>3, <3>4
  <2>3. CASE FinishIds(c)
    <3>1. PICK new : new = [old EXCEPT !.pc = "lookup", !.ids = old.reply.ids,
                                       !.op = IF old.reply.ids = {} THEN "GetData" ELSE "Delete"]
      OBVIOUS
    <3>2. calls' = [calls EXCEPT ![c] = new]
      BY <1>1, <2>3, <3>1 DEF FinishIds
    <3>3. /\ new.sub = old.sub /\ new.session = old.session /\ new.kind = old.kind
          /\ new.op \in {"GetIds", "Delete", "GetData"}
      BY <1>2, <1>3, <3>1 DEF Call
    <3> QED
      BY <3>2, <3>3
  <2>4. CASE LookupDelete(c) /\ ~EndCall(c)
    <3>1. PICK e, i : e = entry[old.session] /\ i = IF old.kind = "Delete" THEN {old.sub} ELSE old.ids
      OBVIOUS
    <3>2. PICK new : new = IF old.session \in DOMAIN entry
                             THEN [old EXCEPT !.actor = e, !.pc = "send", !.ids = i]
                             ELSE [old EXCEPT !.op = "GetData"]
      OBVIOUS
    <3>3. calls' = [calls EXCEPT ![c] = new]
      <4>1. CASE old.session \in DOMAIN entry
        <5>1. calls' = [calls EXCEPT ![c].actor = e, ![c].pc = "send",
                                     ![c].ids = IF old.kind = "Delete" THEN {old.sub} ELSE @]
          BY <1>1, <2>4, <3>1, <4>1 DEF LookupDelete
        <5>2. DOMAIN calls' = DOMAIN calls /\ \A d \in DOMAIN calls : d # c => calls'[d] = calls[d]
          BY <5>1
        <5>3. calls'[c] = [old EXCEPT !.actor = e, !.pc = "send",
                                      !.ids = IF old.kind = "Delete" THEN {old.sub} ELSE @]
          BY <1>1, <5>1
        <5>4. calls'[c] = new
          BY <1>2, <3>1, <3>2, <4>1, <5>3 DEF Call
        <5> QED
          BY <5>1, <5>2, <5>4
      <4>2. CASE old.session \notin DOMAIN entry
        BY <1>1, <2>4, <3>2, <4>2 DEF LookupDelete
      <4> QED
        BY <4>1, <4>2
    <3>4. /\ new.sub = old.sub /\ new.session = old.session /\ new.kind = old.kind
          /\ new.op \in {"GetIds", "Delete", "GetData"}
      BY <1>2, <1>3, <3>2 DEF Call
    <3> QED
      BY <3>3, <3>4
  <2>5. CASE FinishDelete(c)
    <3>1. PICK new : new = [old EXCEPT !.op = "GetData", !.pc = "lookup"]
      OBVIOUS
    <3>2. calls' = [calls EXCEPT ![c] = new] \/ EndCall(c)
      BY <1>1, <2>5, <3>1 DEF FinishDelete
    <3>3. /\ new.sub = old.sub /\ new.session = old.session /\ new.kind = old.kind
          /\ new.op \in {"GetIds", "Delete", "GetData"}
      BY <1>2, <1>3, <3>1 DEF Call
    <3> QED
      BY <3>2, <3>3
  <2> QED
    BY <2>1, <2>2, <2>3, <2>4, <2>5 DEF FinishTeardown
<1>5. PICK call : /\ calls' = [calls EXCEPT ![c] = call] \/ EndCall(c)
                  /\ call.sub = old.sub /\ call.session = old.session /\ call.kind = old.kind
                  /\ call.op \in {"GetIds", "Delete", "GetData"}
  BY <1>4
<1>6. EntryKept
  BY DEF EntryKept, LookupIds, FinishIds, LookupDelete, FinishDelete, LookupTeardown, FinishTeardown, Drop, cache
<1>7. ActorsSame
  <2>1. CASE FinishTeardown(c)
    <3>1. PICK a, m : a = old.actor /\ m = [op |-> "Stop", by |-> "cache"]
      OBVIOUS
    <3>2. m \in Message /\ actors' = Posted(actors, a, m)
      BY <1>1, <2>1, <3>1 DEF FinishTeardown, Message
    <3>3. old.pc # "lookup"
      BY <1>1, <2>1 DEF FinishTeardown, At
    <3>4. a \in ActorIds
      BY <1>2, <3>1, <3>3 DEF Shaped
    <3> QED
      BY <3>2, <3>4, Parts, PostedSame
  <2>2. CASE ~FinishTeardown(c)
    <3>1. UNCHANGED actors
      BY <2>2 DEF LookupIds, FinishIds, LookupDelete, FinishDelete, LookupTeardown
    <3> QED
      BY <3>1, SameActors
  <2> QED
    BY <2>1, <2>2
<1>8. OwnerMoved(c) /\ WatchedMoved(c)
  <2>1. UNCHANGED <<owner, watched>> \/ \E ids, items : Deregister(ids, items)
    BY DEF LookupIds, FinishIds, LookupDelete, FinishDelete, LookupTeardown, FinishTeardown, cache
  <2> QED
    BY <2>1 DEF OwnerMoved, WatchedMoved, Deregister, Drop
<1>9. UNCHANGED <<producer, created, value, history>>
  BY DEF LookupIds, FinishIds, LookupDelete, FinishDelete, LookupTeardown, FinishTeardown, cache
<1> QED
  BY <1>1, <1>5, <1>6, <1>7, <1>8, <1>9, MoveEffects DEF TransferOps

\* A transfer has found the actor of its source.
SourceKnown(c) ==
    /\ calls[c].sub \in DOMAIN owner /\ owner[calls[c].sub] \in DOMAIN entry
    /\ calls'[c].op = "Clone" /\ calls'[c].pc = "send" /\ calls'[c].sub = calls[c].sub
    /\ calls'[c].actor = entry[owner[calls[c].sub]] /\ calls'[c].source = calls'[c].actor

LEMMA LookupSourceEffects ==
    ASSUME IInv, NEW c \in DOMAIN calls, LookupSource(c)
    PROVE  Effects(c) /\ (c \in DOMAIN calls' => SourceKnown(c) /\ calls'[c].dest = calls[c].dest)
<1>1. PICK old : old = calls[c]
  OBVIOUS
<1>2. old \in Call
  BY <1>1, CallFacts
<1>3. PICK a : a = entry[owner[old.sub]]
  OBVIOUS
<1>4. PICK new : new = [old EXCEPT !.actor = a, !.source = a, !.pc = "send"]
  OBVIOUS
<1>5. /\ old.op = "Clone"
      /\ \/ EndCall(c)
         \/ /\ calls' = [calls EXCEPT ![c] = new]
            /\ old.sub \in DOMAIN owner /\ owner[old.sub] \in DOMAIN entry
      /\ UNCHANGED <<cache, actors, cleanup, producer, created, started, value, history>>
  BY <1>1, <1>3, <1>4 DEF LookupSource, At
<1>6. /\ new.sub = old.sub /\ new.session = old.session /\ new.kind = old.kind /\ new.op = old.op
      /\ new.actor = a /\ new.pc = "send" /\ new.source = a /\ new.dest = old.dest
  BY <1>2, <1>4 DEF Call
<1>7. UNCHANGED <<entry, owner, watched, actors>>
  BY <1>5 DEF cache
<1>8. OnlyCall(c) /\ (c \in DOMAIN calls' => calls'[c] = new /\ ~EndCall(c))
  BY <1>5, OneCall, NoCall
<1>9. c \in DOMAIN calls' => Moved(c) /\ SourceKnown(c) /\ calls'[c].dest = calls[c].dest
  BY <1>1, <1>3, <1>5, <1>6, <1>8 DEF Moved, Creating, PastLookup, At, SourceKnown
<1> QED
  BY <1>5, <1>7, <1>8, <1>9, SameActors, SameEntry, SameIndex, EffectsParts

\* The next command of a transfer has been posted, or refused by an actor that has ended.
Commanded(c, op, a) ==
    /\ calls[c].reply.ok
    /\ calls'[c].op = op /\ calls'[c].actor = a /\ calls'[c].sub = calls[c].sub
    /\ calls'[c].source = calls[c].source /\ calls'[c].dest = calls[c].dest
    /\ \/ calls'[c].pc = "sent"
       \/ calls'[c].pc = "replied" /\ ~calls'[c].reply.ok /\ ~actors[a].alive

LEMMA ProceedEffects ==
    ASSUME IInv, NEW c \in DOMAIN calls, NEW op \in {"Insert", "Mark", "Complete"},
           NEW a \in {calls[c].source, calls[c].dest}, Proceed(c, op, a), OwnerMoved(c),
           calls[c].op \in TransferOps, calls[c].pc = "replied"
    PROVE  Effects(c) /\ (c \in DOMAIN calls' => Commanded(c, op, a))
<1>1. PICK old : old = calls[c]
  OBVIOUS
<1>2. /\ old \in Call /\ Shaped(old, Len(actors)) /\ ActorIds = 1..Len(actors) /\ Len(actors) \in Nat
      /\ Len(actors) <= MaxActors
  BY <1>1, CallFacts
<1>3. PICK call : call = [old EXCEPT !.op = op, !.actor = a]
  OBVIOUS
<1>4. /\ \/ old.reply.ok /\ SendCommand(c, call)
         \/ EndCall(c) /\ UNCHANGED actors
      /\ UNCHANGED <<entry, watched, producer, created, value, history>>
  BY <1>1, <1>3 DEF Proceed
<1>5. a \in 1..Len(actors)
  BY <1>1, <1>2 DEF Shaped, TransferOps
<1>6. /\ call \in Call /\ call.actor = a /\ call.op = op /\ call.sub = old.sub /\ call.session = old.session
      /\ call.kind = old.kind /\ call.source = old.source /\ call.dest = old.dest
  BY <1>2, <1>3, <1>5, Within DEF Call, Ops
<1>7. CASE EndCall(c) /\ UNCHANGED actors
  BY <1>4, <1>7, NoCall, SameActors, SameEntry, EffectsParts DEF WatchedMoved
<1>8. CASE old.reply.ok /\ SendCommand(c, call)
  <2>1. /\ ActorsSame /\ OnlyCall(c) /\ DOMAIN calls' = DOMAIN calls
        /\ \E new \in Call :
             /\ calls'[c] = new
             /\ \/ new = [call EXCEPT !.pc = "sent"]
                \/ new = [call EXCEPT !.pc = "replied", !.reply = Failed] /\ ~actors[call.actor].alive
    <3>1. call \in Call /\ SendCommand(c, call) /\ call.actor \in ActorIds
      BY <1>2, <1>5, <1>6, <1>8
    <3> QED
      BY <3>1, CommandPosted
  <2>2. PICK new \in Call :
          /\ calls'[c] = new
          /\ \/ new = [call EXCEPT !.pc = "sent"]
             \/ new = [call EXCEPT !.pc = "replied", !.reply = Failed] /\ ~actors[a].alive
    BY <1>6, <2>1
  <2>3. /\ new.sub = old.sub /\ new.session = old.session /\ new.kind = old.kind /\ new.op = op
        /\ new.actor = a /\ new.source = old.source /\ new.dest = old.dest
    BY <1>6, <2>2 DEF Call
  <2>4. ~Failed.ok
    BY DEF Failed
  <2>5. new.pc = "sent" \/ (new.pc = "replied" /\ ~new.reply.ok /\ ~actors[a].alive)
    BY <1>6, <2>2, <2>4 DEF Call
  <2>6. Moved(c)
    BY <1>1, <2>2, <2>3 DEF Moved, Creating, PastLookup, At
  <2>7. Commanded(c, op, a)
    BY <1>1, <1>8, <2>2, <2>3, <2>5 DEF Commanded
  <2> QED
    BY <1>4, <2>1, <2>6, <2>7, SameEntry, EffectsParts DEF WatchedMoved
<1> QED
  BY <1>4, <1>7, <1>8

LEMMA TransferEffects ==
    ASSUME IInv, NEW c \in DOMAIN calls,
           \/ TransferCloned(c) \/ TransferInserted(c) \/ TransferMarked(c) \/ TransferCompleted(c)
    PROVE  /\ Effects(c)
           /\ c \in DOMAIN calls' =>
                \/ calls[c].op = "Clone" /\ Commanded(c, "Insert", calls[c].dest)
                \/ calls[c].op = "Insert" /\ Commanded(c, "Mark", calls[c].source)
                \/ calls[c].op = "Mark" /\ Commanded(c, "Complete", calls[c].source)
           /\ calls[c].pc = "replied" /\ calls[c].op \in TransferOps
           /\ c \notin DOMAIN calls' => ~calls[c].reply.ok \/ calls[c].op = "Complete"
<1>1. CASE TransferCloned(c)
  <2>1. calls[c].op = "Clone" /\ calls[c].pc = "replied" /\ Proceed(c, "Insert", calls[c].dest) /\ UNCHANGED owner
    BY <1>1 DEF TransferCloned, At
  <2>2. OwnerMoved(c)
    BY <2>1 DEF OwnerMoved
  <2>3. ~calls[c].reply.ok \/ DOMAIN calls' = DOMAIN calls
    BY <2>1 DEF Proceed, SendCommand
  <2> QED
    BY <2>1, <2>2, <2>3, ProceedEffects DEF TransferOps
<1>2. CASE TransferInserted(c)
  <2>1. calls[c].op = "Insert" /\ calls[c].pc = "replied" /\ Proceed(c, "Mark", calls[c].source) /\ UNCHANGED owner
    BY <1>2 DEF TransferInserted, At
  <2>2. OwnerMoved(c)
    BY <2>1 DEF OwnerMoved
  <2>3. ~calls[c].reply.ok \/ DOMAIN calls' = DOMAIN calls
    BY <2>1 DEF Proceed, SendCommand
  <2> QED
    BY <2>1, <2>2, <2>3, ProceedEffects DEF TransferOps
<1>3. CASE TransferMarked(c)
  <2>1. /\ calls[c].op = "Mark" /\ calls[c].pc = "replied" /\ Proceed(c, "Complete", calls[c].source)
        /\ owner' = IF calls[c].reply.ok THEN Put(owner, calls[c].sub, calls[c].session) ELSE owner
    BY <1>3 DEF TransferMarked, At
  <2>2. OwnerMoved(c)
    BY <2>1 DEF OwnerMoved, Put, PastLookup, TransferOps, At
  <2>3. ~calls[c].reply.ok \/ DOMAIN calls' = DOMAIN calls
    BY <2>1 DEF Proceed, SendCommand
  <2> QED
    BY <2>1, <2>2, <2>3, ProceedEffects DEF TransferOps
<1>4. CASE TransferCompleted(c)
  <2>1. /\ calls[c].op = "Complete" /\ calls[c].pc = "replied" /\ EndCall(c)
        /\ UNCHANGED <<entry, owner, watched, actors, producer, created, value, history>>
    BY <1>4 DEF TransferCompleted, At, cache
  <2> QED
    BY <2>1, NoCall, SameActors, SameEntry, SameIndex, EffectsParts DEF TransferOps
<1> QED
  BY <1>1, <1>2, <1>3, <1>4

LEMMA StepEffects ==
    ASSUME IInv, NEW c \in DOMAIN calls, Step(c)
    PROVE  Effects(c)
<1>1. CASE LookupCreateItem(c)
  <2>1. calls[c].op = "CreateItem" /\ LookupHandle(c)
    BY <1>1 DEF LookupCreateItem, At
  <2> QED
    BY <2>1, LookupHandleEffects
<1>2. CASE Send(c) \/ LookupCreate(c) \/ FinishCreate(c) \/ FinishCreateItem(c) \/ LookupSource(c)
  BY <1>2, SendEffects, LookupCreateEffects, FinishCreateEffects, FinishCreateItemEffects, LookupSourceEffects
<1>3. CASE \/ LookupIds(c) \/ FinishIds(c) \/ LookupDelete(c) \/ FinishDelete(c)
           \/ LookupTeardown(c) \/ FinishTeardown(c)
  BY <1>3, ClosingEffects
<1>4. CASE TransferCloned(c) \/ TransferInserted(c) \/ TransferMarked(c) \/ TransferCompleted(c)
  BY <1>4, TransferEffects
<1> QED
  BY <1>1, <1>2, <1>3, <1>4 DEF Step

-----------------------------------------------------------------------------
(***************************************************************************)
(* Ids are handed out once.                                                *)
(***************************************************************************)

\* Something has been, or is about to be, delivered for subscription id, so that it has an
\* item: it is in the reverse index, routed, or its item has been created.
Marked(id) ==
    \/ id \in watched
    \/ routed[id] # {}
    \/ \E a \in ActorIds : <<a, id>> \in producer
    \/ \E c \in DOMAIN calls :
         At(c, "CreateItem", "replied") /\ calls[c].reply.ok /\ calls[c].sub = id

\* No actor has ever held subscription id.
Unborn(id) ==
    /\ \A a \in ActorIds : ~Holds(a, id)
    /\ id \notin DOMAIN owner
    /\ ~Marked(id)
    /\ \A c \in DOMAIN calls : calls[c].sub = id => ~PastLookup(c)

\* Each creation has an id of its own, which is unborn until an actor answers.
CreatesOwn ==
    \A c \in DOMAIN calls : \A id \in 0..MaxSubs : Creating(c) /\ calls[c].sub = id =>
        /\ id \in 1..created
        /\ calls[c].pc # "replied" => Unborn(id)
        /\ \A d \in DOMAIN calls : Creating(d) /\ calls[d].sub = id => d = c

FutureUnborn == \A id \in SubIds : id > created => Unborn(id)

\* The commands of a transfer belong to a transfer.
OfTransfer == \A c \in DOMAIN calls : calls[c].op \in TransferOps => calls[c].kind = "Transfer"

BirthInv == CreatesOwn /\ FutureUnborn /\ OfTransfer

\* A step gives subscription id to no other actor ...
HoldersKept(id) ==
    \A a \in DOMAIN actors' : id \in DOMAIN actors'[a].subs => a \in DOMAIN actors /\ Holds(a, id)

\* ... or creates it where the call asks for it ...
BornAt(c, id) ==
    /\ c \in DOMAIN calls /\ c \in DOMAIN calls' /\ At(c, "Create", "sent") /\ At(c, "Create", "replied")'
    /\ calls[c].sub = id /\ calls'[c].sub = id /\ calls'[c].actor = calls[c].actor
    /\ \A a \in DOMAIN actors' :
         id \in DOMAIN actors'[a].subs => a = calls[c].actor \/ (a \in DOMAIN actors /\ Holds(a, id))

\* ... or may insert it for a transfer.
InTransfer(id) == \E c \in DOMAIN calls : PastLookup(c) /\ calls[c].sub = id

MarksKept == \A id \in SubIds : Marked(id)' => Marked(id) \/ \E a \in ActorIds : Holds(a, id)

OwnerKept ==
    \A id \in DOMAIN owner' :
        \/ id \in DOMAIN owner
        \/ \E c \in DOMAIN calls : At(c, "Create", "replied") /\ calls[c].sub = id /\ c \notin DOMAIN calls'
        \/ InTransfer(id)

CallsKept ==
    \A c \in DOMAIN calls' \cap DOMAIN calls :
        /\ calls'[c].sub = calls[c].sub /\ calls'[c].session = calls[c].session
        /\ calls'[c].kind = calls[c].kind /\ (calls'[c].op \in TransferOps => calls[c].op \in TransferOps)
        /\ Creating(c)' => Creating(c) /\ (calls[c].pc = "replied" => calls'[c].pc = "replied")
        /\ PastLookup(c)' => PastLookup(c) \/ calls[c].sub \in DOMAIN owner

\* A call that begins has found nothing, and a creation takes the next id.
CallsBegin ==
    /\ \A c \in DOMAIN calls' \ DOMAIN calls :
         /\ ~PastLookup(c)' /\ (calls'[c].op \in TransferOps => calls'[c].kind = "Transfer")
         /\ Creating(c)' => /\ calls'[c].pc # "replied" /\ calls'[c].sub = created + 1
                            /\ created' = created + 1 /\ calls'[c].sub \in SubIds
    /\ \A c, d \in DOMAIN calls' \ DOMAIN calls : c = d
    /\ created' \in {created, created + 1}

\* What every step keeps to.
Orderly ==
    /\ \A id \in SubIds : HoldersKept(id) \/ (\E c : BornAt(c, id)) \/ InTransfer(id)
    /\ MarksKept /\ OwnerKept /\ CallsKept /\ CallsBegin

LEMMA StaysUnborn ==
    ASSUME NEW id \in SubIds, Unborn(id), HoldersKept(id), MarksKept, CallsKept, CallsBegin, id \notin DOMAIN owner'
    PROVE  Unborn(id)'
<1>1. \A a \in DOMAIN actors' : id \notin DOMAIN actors'[a].subs
  BY DEF Unborn, HoldersKept, ActorIds
<1>2. ~Marked(id)'
  BY DEF MarksKept, Unborn
<1>3. ASSUME NEW c \in DOMAIN calls', calls'[c].sub = id
      PROVE  ~PastLookup(c)'
  <2>1. CASE c \in DOMAIN calls
    BY <1>3, <2>1 DEF CallsKept, Unborn
  <2>2. CASE c \notin DOMAIN calls
    BY <2>2 DEF CallsBegin
  <2> QED
    BY <2>1, <2>2
<1> QED
  BY <1>1, <1>2, <1>3 DEF Unborn, Holds, ActorIds

LEMMA BirthStep ==
    ASSUME IInv, BirthInv, Orderly
    PROVE  BirthInv'
<1>1. created \in 0..MaxSubs /\ created' \in {created, created + 1}
  BY Parts DEF RestOK, Orderly, CallsBegin
<1>2. \A id \in SubIds : id \in Nat
  BY LimitFacts DEF SubIds
<1>3. ASSUME NEW id \in SubIds, Unborn(id),
             \A c \in DOMAIN calls : Creating(c) /\ calls[c].sub = id => c \in DOMAIN calls' /\ ~At(c, "Create", "replied")'
      PROVE  Unborn(id)'
  <2>1. ~InTransfer(id)
    BY <1>3 DEF InTransfer, Unborn
  <2>2. \A c : ~BornAt(c, id)
    BY <1>3 DEF BornAt, Creating, At
  <2>3. HoldersKept(id)
    BY <2>1, <2>2 DEF Orderly
  <2>4. id \notin DOMAIN owner'
    BY <1>3, <2>1 DEF OwnerKept, Creating, At, Orderly, Unborn
  <2> QED
    BY <1>3, <2>3, <2>4, StaysUnborn DEF Orderly
<1>4. ASSUME NEW c \in DOMAIN calls, NEW id, Creating(c), calls[c].sub = id
      PROVE  /\ id \in 1..created /\ id \in SubIds
             /\ calls[c].pc # "replied" => Unborn(id)
             /\ \A d \in DOMAIN calls : Creating(d) /\ calls[d].sub = id => d = c
  <2>1. id \in 0..MaxSubs
    BY <1>4, CallFacts
  <2>2. /\ id \in 1..created
        /\ calls[c].pc # "replied" => Unborn(id)
        /\ \A d \in DOMAIN calls : Creating(d) /\ calls[d].sub = id => d = c
    BY <1>4, <2>1 DEF BirthInv, CreatesOwn
  <2> QED
    BY <1>1, <2>2, LimitFacts DEF SubIds
<1>5. FutureUnborn'
  <2> SUFFICES ASSUME NEW id \in SubIds, id > created'
               PROVE  Unborn(id)'
    BY DEF FutureUnborn
  <2>1. id > created
    BY <1>1, <1>2
  <2>2. \A c \in DOMAIN calls : ~(Creating(c) /\ calls[c].sub = id)
    BY <1>1, <1>2, <1>4, <2>1
  <2> QED
    BY <1>3, <2>1, <2>2 DEF BirthInv, FutureUnborn
<1>6. ASSUME NEW c \in DOMAIN calls' \cap DOMAIN calls, Creating(c)'
      PROVE  /\ Creating(c) /\ calls'[c].sub = calls[c].sub
             /\ calls'[c].pc # "replied" => calls[c].pc # "replied"
  BY <1>6 DEF Orderly, CallsKept
<1>7. ASSUME NEW c \in DOMAIN calls' \ DOMAIN calls, Creating(c)'
      PROVE  calls'[c].sub = created + 1 /\ created' = created + 1 /\ calls'[c].sub \in SubIds
  BY <1>7 DEF Orderly, CallsBegin
<1>8. ~(created + 1 \in 1..created)
  BY <1>1
<1>9. CreatesOwn'
  <2> SUFFICES ASSUME NEW c \in DOMAIN calls', NEW id, Creating(c)', calls'[c].sub = id
               PROVE  /\ id \in 1..created'
                      /\ calls'[c].pc # "replied" => Unborn(id)'
                      /\ \A d \in DOMAIN calls' : Creating(d)' /\ calls'[d].sub = id => d = c
    BY DEF CreatesOwn
  <2>1. CASE c \in DOMAIN calls
    <3>1. Creating(c) /\ calls[c].sub = id /\ (calls'[c].pc # "replied" => calls[c].pc # "replied")
      BY <1>6, <2>1
    <3>2. id \in 1..created /\ id \in SubIds
      BY <1>4, <3>1, <2>1
    <3>3. \A d \in DOMAIN calls' : Creating(d)' /\ calls'[d].sub = id => d = c
      <4> SUFFICES ASSUME NEW d \in DOMAIN calls', Creating(d)', calls'[d].sub = id
                   PROVE  d = c
        OBVIOUS
      <4>1. d \in DOMAIN calls
        BY <1>7, <1>8, <3>2
      <4>2. Creating(d) /\ calls[d].sub = id
        BY <1>6, <4>1
      <4> QED
        BY <1>4, <2>1, <3>1, <4>1, <4>2
    <3>4. ASSUME calls'[c].pc # "replied"
          PROVE  Unborn(id)'
      <4>1. Unborn(id)
        BY <1>4, <2>1, <3>1, <3>4
      <4>2. \A d \in DOMAIN calls : Creating(d) /\ calls[d].sub = id => d = c
        BY <1>4, <2>1, <3>1
      <4>3. ~At(c, "Create", "replied")'
        BY <3>4 DEF At
      <4> QED
        BY <1>3, <3>2, <4>1, <4>2, <4>3
    <3> QED
      BY <1>1, <3>2, <3>3, <3>4
  <2>2. CASE c \notin DOMAIN calls
    <3>1. id = created + 1 /\ created' = created + 1 /\ id \in SubIds /\ id > created
      BY <1>1, <1>7, <2>2
    <3>2. \A d \in DOMAIN calls : ~(Creating(d) /\ calls[d].sub = id)
      BY <1>4, <1>8, <3>1
    <3>3. \A d \in DOMAIN calls' : Creating(d)' /\ calls'[d].sub = id => d = c
      BY <1>6, <2>2, <3>2 DEF Orderly, CallsBegin
    <3>4. Unborn(id)'
      BY <1>3, <3>1, <3>2 DEF BirthInv, FutureUnborn
    <3> QED
      BY <1>1, <3>1, <3>3, <3>4
  <2> QED
    BY <2>1, <2>2
<1>10. OfTransfer'
  <2> SUFFICES ASSUME NEW c \in DOMAIN calls', calls'[c].op \in TransferOps
               PROVE  calls'[c].kind = "Transfer"
    BY DEF OfTransfer
  <2>1. CASE c \in DOMAIN calls
    BY <2>1 DEF Orderly, CallsKept, BirthInv, OfTransfer
  <2>2. CASE c \notin DOMAIN calls
    BY <2>2 DEF Orderly, CallsBegin
  <2> QED
    BY <2>1, <2>2
<1> QED
  BY <1>5, <1>9, <1>10 DEF BirthInv

LEMMA OrderlyParts ==
    ASSUME \A id \in SubIds : HoldersKept(id), MarksKept, OwnerKept, CallsKept, CallsBegin
    PROVE  Orderly
  BY DEF Orderly

LEMMA SameHolders ==
    ASSUME ActorsSame
    PROVE  \A id \in SubIds : HoldersKept(id)
  BY DEF ActorsSame, HoldersKept, Holds

LEMMA SameCalls ==
    ASSUME UNCHANGED <<calls, created>>
    PROVE  CallsKept /\ CallsBegin
  BY DEF CallsKept, CallsBegin, Creating, PastLookup, At

LEMMA EffectsOrderly ==
    ASSUME IInv, NEW c \in DOMAIN calls, Effects(c)
    PROVE  Orderly
<1>1. /\ ActorsSame /\ EntryKept /\ OnlyCall(c) /\ (c \in DOMAIN calls' => Moved(c))
      /\ OwnerMoved(c) /\ WatchedMoved(c)
      /\ UNCHANGED <<producer, created, value, history>>
  BY DEF Effects
<1>2. \A id \in SubIds : HoldersKept(id)
  BY <1>1, SameHolders
<1>3. MarksKept
  <2> SUFFICES ASSUME NEW id \in SubIds, Marked(id)', ~\E a \in ActorIds : Holds(a, id)
               PROVE  Marked(id)
    BY DEF MarksKept
  <2>1. UNCHANGED <<producer, routed>>
    BY <1>1 DEF history
  <2>2. CASE id \in watched'
    BY <1>1, <2>2 DEF WatchedMoved, Marked
  <2>3. CASE routed'[id] # {}
    BY <2>1, <2>3 DEF Marked
  <2>4. CASE \E a : <<a, id>> \in producer'
    <3>1. \E a \in ActorIds : <<a, id>> \in producer
      BY <2>1, <2>4, Parts DEF RestOK
    <3> QED
      BY <3>1 DEF Marked
  <2>5. CASE \E d \in DOMAIN calls' : At(d, "CreateItem", "replied")' /\ calls'[d].reply.ok /\ calls'[d].sub = id
    <3>1. PICK d \in DOMAIN calls' : At(d, "CreateItem", "replied")' /\ calls'[d].reply.ok /\ calls'[d].sub = id
      BY <2>5
    <3>2. d # c
      BY <1>1, <3>1 DEF Moved
    <3>3. d \in DOMAIN calls /\ calls'[d] = calls[d]
      BY <1>1, <3>2 DEF OnlyCall
    <3> QED
      BY <3>1, <3>3 DEF Marked, At
  <2> QED
    BY <2>2, <2>3, <2>4, <2>5 DEF Marked
<1>4. OwnerKept
  <2> SUFFICES ASSUME NEW id \in DOMAIN owner', id \notin DOMAIN owner, ~InTransfer(id)
               PROVE  \E d \in DOMAIN calls : At(d, "Create", "replied") /\ calls[d].sub = id /\ d \notin DOMAIN calls'
    BY DEF OwnerKept
  <2>1. At(c, "Create", "replied") /\ id = calls[c].sub /\ c \notin DOMAIN calls'
    BY <1>1 DEF OwnerMoved, InTransfer
  <2> QED
    BY <2>1
<1>5. CallsKept
  <2> SUFFICES ASSUME NEW d \in DOMAIN calls' \cap DOMAIN calls
               PROVE  /\ calls'[d].sub = calls[d].sub /\ calls'[d].session = calls[d].session
                      /\ calls'[d].kind = calls[d].kind
                      /\ calls'[d].op \in TransferOps => calls[d].op \in TransferOps
                      /\ Creating(d)' => Creating(d) /\ (calls[d].pc = "replied" => calls'[d].pc = "replied")
                      /\ PastLookup(d)' => PastLookup(d) \/ calls[d].sub \in DOMAIN owner
    BY DEF CallsKept
  <2>1. CASE d = c
    BY <1>1, <2>1 DEF Moved
  <2>2. CASE d # c
    BY <1>1, <2>2 DEF OnlyCall, Creating, PastLookup, At
  <2> QED
    BY <2>1, <2>2
<1>6. CallsBegin
  BY <1>1 DEF CallsBegin, OnlyCall
<1> QED
  BY <1>2, <1>3, <1>4, <1>5, <1>6, OrderlyParts

\* What the call is that begins.
Begun(c) ==
    /\ c \notin DOMAIN calls /\ c \in DOMAIN calls' /\ OnlyCall(c)
    /\ calls'[c].pc = "lookup"
    /\ calls'[c].op = "Create" => calls'[c].sub = created + 1 /\ created' = created + 1 /\ calls'[c].sub \in SubIds
    /\ calls'[c].op \notin {"Insert", "Mark", "Complete"}
    /\ calls'[c].op \in TransferOps => calls'[c].kind = "Transfer"
    /\ created' \in {created, created + 1}
    /\ ActorsSame /\ EntryKept
    /\ UNCHANGED <<owner, watched, producer, value, history>>

LEMMA BeginBegun ==
    ASSUME NEW c, NEW kind, NEW s, NEW id, NEW op, Begin(c, kind, s, id, op),
           op = "Create" => id = created + 1 /\ created' = created + 1 /\ id \in SubIds,
           op \notin TransferOps, created' \in {created, created + 1}
    PROVE  Begun(c)
<1>1. PICK call : call = [kind |-> kind, session |-> s, sub |-> id, op |-> op,
                          pc |-> "lookup", actor |-> 0, source |-> 0, dest |-> 0,
                          ids |-> {}, reply |-> Failed]
  OBVIOUS
<1>2. /\ c \notin DOMAIN calls /\ calls' = Put(calls, c, call)
      /\ UNCHANGED <<cache, actors, cleanup, producer, value, history>>
  BY <1>1 DEF Begin
<1>3. c \in DOMAIN calls' /\ calls'[c] = call /\ OnlyCall(c)
  BY <1>2 DEF Put, OnlyCall
<1>4. call.pc = "lookup" /\ call.op = op /\ call.sub = id
  BY <1>1
<1>5. UNCHANGED <<entry, owner, watched, actors>>
  BY <1>2 DEF cache
<1> QED
  BY <1>2, <1>3, <1>4, <1>5, SameActors, SameEntry DEF Begun, TransferOps

LEMMA BeginTransferBegun ==
    ASSUME IInv, NEW c \in Callers, NEW s \in Sessions, NEW id \in SubIds, BeginTransfer(c, s, id)
    PROVE  Begun(c) /\ calls'[c].op = "Clone" /\ calls'[c].kind = "Transfer"
<1>1. PICK e : e = entry'[s]
  OBVIOUS
<1>2. PICK call : call = [kind |-> "Transfer", session |-> s, sub |-> id, op |-> "Clone",
                          pc |-> "lookup", actor |-> 0, source |-> 0, dest |-> e,
                          ids |-> {}, reply |-> Failed]
  OBVIOUS
<1>3. /\ c \notin DOMAIN calls /\ calls' = Put(calls, c, call) /\ EnsureEntry(s) /\ UNCHANGED created
      /\ UNCHANGED <<owner, watched, cleanup, producer, created, value, history>>
  BY <1>1, <1>2 DEF BeginTransfer
<1>4. c \in DOMAIN calls' /\ calls'[c] = call /\ OnlyCall(c)
  BY <1>3 DEF Put, OnlyCall
<1>5. call.pc = "lookup" /\ call.op = "Clone" /\ call.kind = "Transfer"
  BY <1>2
<1> QED
  BY <1>3, <1>4, <1>5, EnsuredSame DEF Begun

LEMMA CallBegun ==
    ASSUME IInv, BeginCall
    PROVE  \E c : Begun(c)
<1>1. PICK c \in Callers, s \in Sessions :
        \/ BeginCreate(c, s)
        \/ BeginClose(c, s)
        \/ \E id \in SubIds : BeginCreateItem(c, s, id) \/ BeginDelete(c, s, id) \/ BeginTransfer(c, s, id)
  BY DEF BeginCall
<1>2. created \in 0..MaxSubs
  BY Parts DEF RestOK
<1>3. CASE BeginCreate(c, s)
  <2>1. Begin(c, "Create", s, created + 1, "Create") /\ created' = created + 1 /\ created < MaxSubs
    BY <1>3 DEF BeginCreate
  <2>2. created + 1 \in SubIds
    BY <1>2, <2>1, LimitFacts DEF SubIds
  <2>3. PICK n : n = created + 1
    OBVIOUS
  <2> QED
    BY <2>1, <2>2, <2>3, BeginBegun DEF TransferOps
<1>4. CASE BeginClose(c, s)
  <2>1. Begin(c, "Close", s, 0, "GetIds") /\ UNCHANGED created
    BY <1>4 DEF BeginClose
  <2> QED
    BY <2>1, BeginBegun DEF TransferOps
<1>5. ASSUME NEW id \in SubIds, BeginCreateItem(c, s, id) \/ BeginDelete(c, s, id)
      PROVE  Begun(c)
  <2>1. /\ Begin(c, "CreateItem", s, id, "CreateItem") \/ Begin(c, "Delete", s, id, "Delete")
        /\ UNCHANGED created
    BY <1>5 DEF BeginCreateItem, BeginDelete
  <2> QED
    BY <2>1, BeginBegun DEF TransferOps
<1>6. ASSUME NEW id \in SubIds, BeginTransfer(c, s, id)
      PROVE  Begun(c)
  BY <1>6, BeginTransferBegun
<1> QED
  BY <1>1, <1>3, <1>4, <1>5, <1>6

LEMMA BegunOrderly ==
    ASSUME IInv, NEW c, Begun(c)
    PROVE  Orderly
<1>1. \A id \in SubIds : HoldersKept(id)
  BY SameHolders DEF Begun
<1>2. \A d \in DOMAIN calls' : d # c => d \in DOMAIN calls /\ calls'[d] = calls[d]
  BY DEF Begun, OnlyCall
<1>3. MarksKept
  <2> SUFFICES ASSUME NEW id \in SubIds, Marked(id)'
               PROVE  Marked(id)
    BY DEF MarksKept
  <2>1. UNCHANGED <<watched, producer, routed>>
    BY DEF history, Begun
  <2>2. (\E a : <<a, id>> \in producer') => \E a \in ActorIds : <<a, id>> \in producer
    BY <2>1, Parts DEF RestOK
  <2>3. \A d \in DOMAIN calls' : At(d, "CreateItem", "replied")' => d \in DOMAIN calls /\ calls'[d] = calls[d]
    BY <1>2 DEF At, Begun
  <2> QED
    BY <2>1, <2>2, <2>3 DEF Marked, At
<1>4. OwnerKept
  BY DEF OwnerKept, Begun
<1>5. CallsKept
  BY <1>2 DEF CallsKept, Begun, Creating, PastLookup, At
<1>6. CallsBegin
  BY <1>2 DEF CallsBegin, Begun, PastLookup, Creating, At, TransferOps
<1> QED
  BY <1>1, <1>3, <1>4, <1>5, <1>6, OrderlyParts

-----------------------------------------------------------------------------
(***************************************************************************)
(* What actors do to subscriptions.                                        *)
(***************************************************************************)

\* The values in an actor's ring for subscription id.
Ringed(act, id) == {act.ring[i][2] : i \in {j \in DOMAIN act.ring : act.ring[j][1] = id}}

LEMMA DrainedSubs ==
    ASSUME NEW act, Fits(act)
    PROVE  /\ Drained(act).ring = <<>> /\ DOMAIN Drained(act).subs = DOMAIN act.subs
           /\ Drained(act).transferring = act.transferring
           /\ \A id \in DOMAIN act.subs :
                /\ Drained(act).subs[id].item = act.subs[id].item
                /\ Drained(act).subs[id].closed = act.subs[id].closed
                /\ act.subs[id].received \subseteq Drained(act).subs[id].received
                /\ act.subs[id].item => Ringed(act, id) \subseteq Drained(act).subs[id].received
<1>1. PICK g : g = [id \in DOMAIN act.subs |->
                      [act.subs[id] EXCEPT !.received = IF act.subs[id].item THEN @ \cup Ringed(act, id) ELSE @]]
  OBVIOUS
<1>2. act \in ActorState /\ act.subs \in Subscriptions
  BY DEF Fits, ActorState
<1>3. \A id \in DOMAIN act.subs : act.subs[id] \in Sub
  BY <1>2, SubsFacts
<1>4. Drained(act) = [act EXCEPT !.ring = <<>>, !.subs = g]
  BY <1>1, Zenon DEF Drained, Ringed
<1>5. PICK new : new = [act EXCEPT !.ring = <<>>, !.subs = g]
  OBVIOUS
<1>6. new.ring = <<>> /\ new.subs = g /\ new.transferring = act.transferring /\ new = Drained(act)
  BY <1>2, <1>4, <1>5 DEF ActorState
<1>7. ASSUME NEW id \in DOMAIN act.subs
      PROVE  /\ g[id].item = act.subs[id].item /\ g[id].closed = act.subs[id].closed
             /\ act.subs[id].received \subseteq g[id].received
             /\ act.subs[id].item => Ringed(act, id) \subseteq g[id].received
  <2>1. PICK sub, r : sub = act.subs[id] /\ r = Ringed(act, id)
    OBVIOUS
  <2>2. sub \in Sub /\ g[id] = [sub EXCEPT !.received = IF sub.item THEN @ \cup r ELSE @]
    BY <1>1, <1>3, <2>1
  <2> QED
    BY <2>1, <2>2 DEF Sub
<1> QED
  BY <1>1, <1>6, <1>7

\* A subscription that stays where it is, up to a new item.
SameSub(new, old) == new.item = old.item /\ new.closed = old.closed /\ new.received = old.received

\* What a command does to the subscriptions of an actor, and what its answer tells of them.
Handled(d, act, call) ==
    /\ d.act.ring = act.ring
    /\ \A id \in DOMAIN d.act.subs :
         \/ call.op \in {"Create", "Insert"} /\ d.reply.ok /\ id = call.sub
         \/ /\ id \in DOMAIN act.subs
            /\ \/ SameSub(d.act.subs[id], act.subs[id])
               \/ d.act.subs[id] = [act.subs[id] EXCEPT !.item = TRUE]
    /\ call.op = "CreateItem" /\ d.reply.ok =>
         call.sub \in DOMAIN act.subs /\ call.sub \in DOMAIN d.act.subs /\ d.act.subs[call.sub].item
    /\ call.op = "Clone" /\ d.reply.ok => call.sub \in DOMAIN act.subs
    /\ call.op = "Mark" /\ ~d.reply.ok => call.sub \notin DOMAIN d.act.subs
    /\ call.op = "Complete" => call.sub \notin DOMAIN d.act.subs
    /\ call.op = "Delete" => d.reply.ids \subseteq DOMAIN act.subs \ DOMAIN d.act.subs
    /\ call.op = "GetData" => d.reply.ids \subseteq DOMAIN act.subs

LEMMA SameHandled ==
    ASSUME NEW d, NEW act, NEW call, d.act = act, call.op \in {"Create", "Insert", "GetIds"}
    PROVE  Handled(d, act, call)
  BY DEF Handled, SameSub

LEMMA ApplyHandled ==
    ASSUME NEW act \in ActorState, NEW call \in Call
    PROVE  Handled(Apply(act, call), act, call)
<1>1. PICK d, id : d = Apply(act, call) /\ id = call.sub
  OBVIOUS
<1>2. call.op \in Ops /\ Good.ok /\ ~Failed.ok
  BY DEF Call, Good, Failed
<1>3. CASE call.op \in {"Create", "Insert"}
  <2>1. PICK new : new = IF call.op = "Create" THEN NewSub ELSE call.reply.copy
    OBVIOUS
  <2>2. \/ d = [act |-> act, reply |-> Failed]
        \/ d.act = [act EXCEPT !.subs = Put(act.subs, id, new)] /\ d.reply = Good
        \/ d.act = [act EXCEPT !.subs = Put(act.subs, id, new), !.transferring = @ \ {id}] /\ d.reply = Good
    BY <1>1, <1>3, <2>1 DEF Apply
  <2>3. CASE d = [act |-> act, reply |-> Failed]
    BY <1>1, <1>3, <2>3, SameHandled
  <2>4. CASE ~(d = [act |-> act, reply |-> Failed])
    <3>1. d.act.subs = Put(act.subs, id, new) /\ d.act.ring = act.ring /\ d.reply = Good
      BY <2>2, <2>4 DEF ActorState
    <3>2. \A x \in DOMAIN d.act.subs : x = id \/ (x \in DOMAIN act.subs /\ d.act.subs[x] = act.subs[x])
      BY <3>1 DEF Put
    <3> QED
      BY <1>1, <1>2, <1>3, <3>1, <3>2 DEF Handled, SameSub
  <2> QED
    BY <2>3, <2>4
<1>4. CASE call.op = "CreateItem"
  <2>1. d = IF id \notin DOMAIN act.subs THEN [act |-> act, reply |-> Failed]
            ELSE [act |-> [act EXCEPT !.subs[id].item = TRUE], reply |-> Good]
    BY <1>1, <1>4 DEF Apply
  <2>2. CASE id \notin DOMAIN act.subs
    BY <1>1, <1>2, <1>4, <2>1, <2>2 DEF Handled, SameSub
  <2>3. CASE id \in DOMAIN act.subs
    <3>1. PICK old : old = act.subs[id]
      OBVIOUS
    <3>2. PICK subs : subs = [act.subs EXCEPT ![id] = [old EXCEPT !.item = TRUE]]
      OBVIOUS
    <3>3. act.subs \in Subscriptions
      BY DEF ActorState
    <3>4. old \in Sub
      BY <2>3, <3>1, <3>3, SubsFacts
    <3>5. d.act = [act EXCEPT !.subs = subs] /\ d.reply = Good
      BY <2>1, <2>3, <3>1, <3>2
    <3>6. d.act.subs = subs /\ d.act.ring = act.ring
      BY <3>5 DEF ActorState
    <3>7. subs[id] = [old EXCEPT !.item = TRUE] /\ subs[id].item /\ DOMAIN subs = DOMAIN act.subs
          /\ \A x \in DOMAIN subs : x # id => subs[x] = act.subs[x]
      BY <2>3, <3>2, <3>4 DEF Sub
    <3> QED
      BY <1>1, <1>4, <2>3, <3>1, <3>6, <3>7 DEF Handled, SameSub
  <2> QED
    BY <2>2, <2>3
<1>5. CASE call.op \in {"GetIds", "GetData"}
  <2>1. d.act = act
    BY <1>1, <1>5 DEF Apply
  <2>2. CASE call.op = "GetIds"
    BY <1>1, <2>1, <2>2, SameHandled
  <2>3. CASE call.op = "GetData"
    <3>1. PICK ids, items : ids = DOMAIN act.subs /\ items = Items(act.subs)
      OBVIOUS
    <3>2. d.reply = [Good EXCEPT !.ids = ids, !.items = items]
      BY <1>1, <2>3, <3>1 DEF Apply
    <3>3. d.reply.ids = ids
      BY <3>2 DEF Good, Failed
    <3> QED
      BY <1>1, <2>1, <2>3, <3>1, <3>3 DEF Handled, SameSub
  <2> QED
    BY <1>5, <2>2, <2>3
<1>6. CASE call.op = "Delete"
  <2>1. PICK gone : gone = call.ids \cap DOMAIN act.subs
    OBVIOUS
  <2>2. d.act = [act EXCEPT !.subs = Drop(act.subs, gone)]
    BY <1>1, <1>6, <2>1 DEF Apply
  <2>3. d.act.subs = Drop(act.subs, gone) /\ d.act.ring = act.ring
    BY <2>2 DEF ActorState
  <2>4. PICK items : items = gone \cap Items(act.subs)
    OBVIOUS
  <2>5. d.reply = [Good EXCEPT !.ids = gone, !.items = items]
    BY <1>1, <1>6, <2>1, <2>4 DEF Apply
  <2>6. d.reply.ids = gone
    BY <2>5 DEF Good, Failed
  <2>7. d.reply.ids \subseteq DOMAIN act.subs \ DOMAIN d.act.subs
    BY <2>1, <2>3, <2>6 DEF Drop
  <2> QED
    BY <1>1, <1>6, <2>3, <2>7 DEF Handled, SameSub, Drop
<1>7. CASE call.op = "Clone"
  <2>1. d.act = act /\ (d.reply.ok => id \in DOMAIN act.subs)
    BY <1>1, <1>2, <1>7 DEF Apply
  <2> QED
    BY <1>1, <1>7, <2>1 DEF Handled, SameSub
<1>8. CASE call.op = "Mark"
  <2>1. /\ d.act = act \/ d.act = [act EXCEPT !.transferring = @ \cup {id}]
        /\ ~d.reply.ok => id \notin DOMAIN act.subs
    BY <1>1, <1>2, <1>8 DEF Apply
  <2>2. d.act.subs = act.subs /\ d.act.ring = act.ring
    BY <2>1 DEF ActorState
  <2> QED
    BY <1>1, <1>8, <2>1, <2>2 DEF Handled, SameSub
<1>9. CASE call.op = "Complete"
  <2>1. d.act = [act EXCEPT !.subs = Drop(act.subs, {id}), !.transferring = @ \ {id}]
    BY <1>1, <1>9 DEF Apply
  <2>2. d.act.subs = Drop(act.subs, {id}) /\ d.act.ring = act.ring
    BY <2>1 DEF ActorState
  <2> QED
    BY <1>1, <1>9, <2>2 DEF Handled, SameSub, Drop
<1> QED
  BY <1>2, <1>3, <1>4, <1>5, <1>6, <1>7, <1>8, <1>9 DEF Ops

\* The answer of actor a to call c, and what it leaves of the actor.
AnswersCall(a, c, d) ==
    /\ c \in DOMAIN calls /\ calls[c].pc = "sent" /\ calls[c].actor = a
    /\ Handled(d, Drained(actors[a]), calls[c])
    /\ actors'[a].subs = d.act.subs /\ actors'[a].ring = d.act.ring /\ actors'[a].session = actors[a].session
    /\ DOMAIN actors' = DOMAIN actors /\ \A b \in DOMAIN actors : b # a => actors'[b] = actors[b]
    /\ OnlyCall(c) /\ DOMAIN calls' = DOMAIN calls
    /\ calls'[c].pc = "replied" /\ calls'[c].reply = d.reply
    /\ calls'[c].kind = calls[c].kind /\ calls'[c].op = calls[c].op /\ calls'[c].sub = calls[c].sub
    /\ calls'[c].session = calls[c].session /\ calls'[c].actor = calls[c].actor
    /\ calls'[c].source = calls[c].source /\ calls'[c].dest = calls[c].dest
    /\ UNCHANGED <<entry, owner, watched, producer, created, value, history>>

LEMMA CommandAnswers ==
    ASSUME IInv, NEW a \in ActorIds, HandleCommand(a)
    PROVE  \E c, d : AnswersCall(a, c, d)
<1>1. Shape /\ Registry /\ EntryOK /\ IndexOK /\ ActorsOK /\ CallsOK /\ RestOK
  BY Parts
<1>2. PICK act, mail : act = actors[a] /\ mail = act.mail
  OBVIOUS
<1>3. Fits(act) /\ mail \in Seq(Message)
  <2>1. Fits(act)
    BY <1>1, <1>2, ActorFacts
  <2> QED
    BY <1>2, <2>1 DEF Fits, ActorState
<1>4. mail # <<>> /\ Head(mail).op # "Stop" /\ MailOK(a, mail)
  BY <1>1, <1>2 DEF HandleCommand, Registry, MailFromCalls
<1>5. PICK c, old : c = Head(mail).by /\ old = calls[c]
  OBVIOUS
<1>6. Head(mail) = mail[1] /\ 1 \in DOMAIN mail /\ mail[1].op # "Stop" /\ mail[1].by = c
  BY <1>3, <1>4, <1>5, TailFacts
<1>7. c \in DOMAIN calls /\ old.pc = "sent" /\ old.actor = a
  BY <1>4, <1>5, <1>6 DEF MailOK, FromCall
<1>8. old \in Call /\ Shaped(old, Len(actors))
  BY <1>5, <1>7, CallFacts
<1>9. PICK dr, d : dr = Drained(act) /\ d = Apply(dr, old)
  OBVIOUS
<1>10. Fits(dr) /\ Alike(dr, act)
  BY <1>3, <1>9, DrainedFacts
<1>11. Outcome(d.act, d.reply, dr) /\ Handled(d, dr, old)
  <2>1. old.sub = 0 => old.op \in {"GetIds", "Delete", "GetData"}
    BY <1>8 DEF Shaped
  <2>2. dr \in ActorState
    BY <1>10 DEF Fits
  <2> QED
    BY <1>8, <1>9, <1>10, <2>1, <2>2, ApplyFacts, ApplyHandled
<1>12. PICK t, new, moved : /\ t = Tail(d.act.mail) /\ new = [d.act EXCEPT !.mail = t]
                            /\ moved = [old EXCEPT !.pc = "replied", !.reply = d.reply]
  OBVIOUS
<1>13. d.act \in ActorState /\ d.reply \in Reply /\ d.act.session = act.session
  BY <1>10, <1>11 DEF Outcome, Fits, Alike
<1>14. new.subs = d.act.subs /\ new.ring = d.act.ring /\ new.session = act.session
  BY <1>12, <1>13 DEF ActorState
<1>15. /\ actors' = [actors EXCEPT ![a] = new]
       /\ calls' = [calls EXCEPT ![c].pc = "replied", ![c].reply = d.reply]
       /\ UNCHANGED <<cache, cleanup, producer, created, started, value, history>>
  BY <1>2, <1>5, <1>9, <1>12 DEF HandleCommand
<1>16. DOMAIN actors' = DOMAIN actors /\ actors'[a] = new /\ \A b \in DOMAIN actors : b # a => actors'[b] = actors[b]
  BY <1>15 DEF ActorIds
<1>17. calls' = [calls EXCEPT ![c] = moved]
  BY <1>5, <1>12, <1>15
<1>18. OnlyCall(c) /\ DOMAIN calls' = DOMAIN calls /\ calls'[c] = moved
  BY <1>7, <1>17, OneCall
<1>19. /\ moved.pc = "replied" /\ moved.reply = d.reply
       /\ moved.kind = old.kind /\ moved.op = old.op /\ moved.sub = old.sub /\ moved.session = old.session
       /\ moved.actor = old.actor /\ moved.source = old.source /\ moved.dest = old.dest
  BY <1>8, <1>12 DEF Call
<1>20. UNCHANGED <<entry, owner, watched>>
  BY <1>15 DEF cache
<1>21. Handled(d, Drained(actors[a]), calls[c])
  BY <1>2, <1>5, <1>9, <1>11
<1>22. AnswersCall(a, c, d)
  BY <1>2, <1>5, <1>7, <1>14, <1>15, <1>16, <1>18, <1>19, <1>20, <1>21 DEF AnswersCall
<1> QED
  BY <1>22

\* A subscription that stays where it is keeps its item, or is closed; while it is live it
\* keeps what has arrived and, with an item, what is on its way in the ring.
SubKept(new, old, id) ==
    /\ old.subs[id].item \/ old.subs[id].closed => new.subs[id].item \/ new.subs[id].closed
    /\ ~new.subs[id].closed =>
         /\ ~old.subs[id].closed
         /\ old.subs[id].item =>
              old.subs[id].received \cup Ringed(old, id) \subseteq new.subs[id].received \cup Ringed(new, id)

ActorKept(new, old) ==
    new.session = old.session /\ \A id \in DOMAIN old.subs \cap DOMAIN new.subs : SubKept(new, old, id)

SubsKept == \A a \in DOMAIN actors : a \in DOMAIN actors' /\ ActorKept(actors'[a], actors[a])

\* The values that a route has put into the ring of its actor.
ArrivalsKept ==
    \A id \in SubIds : \A v \in routed'[id] \ dropped'[id] :
        v \in routed[id] \ dropped[id] \/ \E a \in ActorIds : <<a, id>> \in producer /\ v \in Ringed(actors'[a], id)

\* A step that is no call's: actors may lose subscriptions and the cache entries.
Losing ==
    /\ SubsKept /\ (\A id \in SubIds : HoldersKept(id)) /\ EntryKept
    /\ UNCHANGED <<calls, created>>
    /\ \A id \in DOMAIN owner' : id \in DOMAIN owner /\ owner'[id] = owner[id]
    /\ watched' \subseteq watched
    /\ \A r \in producer' : r \in producer \/ (r \in Routes /\ UNCHANGED <<entry, actors>>)
    /\ \A id \in SubIds : routed'[id] # {} => routed[id] # {} \/ \E a \in ActorIds : <<a, id>> \in producer
    /\ ArrivalsKept

LEMMA LosingOrderly ==
    ASSUME IInv, Losing
    PROVE  Orderly
<1>1. MarksKept
  <2> SUFFICES ASSUME NEW id \in SubIds, Marked(id)'
               PROVE  Marked(id)
    BY DEF MarksKept
  <2>1. CASE id \in watched'
    BY <2>1 DEF Losing, Marked
  <2>2. CASE routed'[id] # {}
    BY <2>2 DEF Losing, Marked
  <2>3. CASE \E a : <<a, id>> \in producer'
    <3>1. PICK a : <<a, id>> \in producer'
      BY <2>3
    <3>2. CASE <<a, id>> \in producer
      <4>1. a \in ActorIds
        BY <3>2, Parts DEF RestOK
      <4> QED
        BY <3>2, <4>1 DEF Marked
    <3>3. CASE <<a, id>> \in Routes
      BY <3>3 DEF Routes, Marked
    <3> QED
      BY <3>1, <3>2, <3>3 DEF Losing
  <2>4. CASE \E c \in DOMAIN calls' : At(c, "CreateItem", "replied")' /\ calls'[c].reply.ok /\ calls'[c].sub = id
    BY <2>4 DEF Losing, Marked, At
  <2> QED
    BY <2>1, <2>2, <2>3, <2>4 DEF Marked
<1>2. OwnerKept
  BY DEF OwnerKept, Losing
<1> QED
  BY <1>1, <1>2, SameCalls, OrderlyParts DEF Losing

LEMMA SameSubKept ==
    ASSUME NEW new, NEW old, new.subs = old.subs, new.ring = old.ring, new.session = old.session
    PROVE  ActorKept(new, old)
  BY DEF ActorKept, SubKept, Ringed

LEMMA SameSubsKept ==
    ASSUME ActorsSame
    PROVE  SubsKept
  BY SameSubKept DEF ActorsSame, SubsKept

\* Actor a changes and nothing else does that a call or a producer can see.
LEMMA ActorLoses ==
    ASSUME IInv, NEW a \in ActorIds, NEW new, actors' = [actors EXCEPT ![a] = new], ActorKept(new, actors[a]),
           DOMAIN new.subs \subseteq DOMAIN actors[a].subs,
           UNCHANGED <<cache, calls, producer, created, history>>
    PROVE  Losing
<1>1. DOMAIN actors' = DOMAIN actors /\ actors'[a] = new /\ \A b \in DOMAIN actors : b # a => actors'[b] = actors[b]
  BY DEF ActorIds
<1>2. SubsKept
  BY <1>1, SameSubKept DEF SubsKept
<1>3. \A id \in SubIds : HoldersKept(id)
  BY <1>1 DEF HoldersKept, Holds
<1>4. UNCHANGED <<entry, owner, watched, calls, producer, created, routed, dropped>>
  BY DEF cache, history
<1>5. ArrivalsKept
  BY <1>4 DEF ArrivalsKept
<1> QED
  BY <1>2, <1>3, <1>4, <1>5, SameEntry DEF Losing

\* Draining moves values from the ring to the items they are for.
LEMMA DrainedKept ==
    ASSUME NEW act, Fits(act)
    PROVE  ActorKept(Drained(act), act) /\ DOMAIN Drained(act).subs \subseteq DOMAIN act.subs
<1>1. PICK new : new = Drained(act)
  OBVIOUS
<1>2. /\ DOMAIN new.subs = DOMAIN act.subs /\ new.session = act.session
      /\ \A id \in DOMAIN act.subs :
                /\ new.subs[id].item = act.subs[id].item
                /\ new.subs[id].closed = act.subs[id].closed
                /\ act.subs[id].received \subseteq new.subs[id].received
                /\ act.subs[id].item => Ringed(act, id) \subseteq new.subs[id].received
  BY <1>1, DrainedFacts, DrainedSubs DEF Alike
<1> QED
  BY <1>1, <1>2 DEF ActorKept, SubKept

LEMMA KeptTwice ==
    ASSUME NEW new, NEW mid, NEW old, ActorKept(new, mid), ActorKept(mid, old),
           DOMAIN mid.subs = DOMAIN old.subs
    PROVE  ActorKept(new, old)
<1> SUFFICES ASSUME NEW id \in DOMAIN old.subs \cap DOMAIN new.subs
             PROVE  SubKept(new, old, id)
  BY DEF ActorKept
<1>1. SubKept(new, mid, id) /\ SubKept(mid, old, id)
  BY DEF ActorKept
<1>2. /\ old.subs[id].item \/ old.subs[id].closed => new.subs[id].item \/ new.subs[id].closed
      /\ ~new.subs[id].closed => ~old.subs[id].closed
  BY <1>1 DEF SubKept
<1>3. ASSUME ~new.subs[id].closed, old.subs[id].item
      PROVE  old.subs[id].received \cup Ringed(old, id) \subseteq new.subs[id].received \cup Ringed(new, id)
  <2>1. ~mid.subs[id].closed /\ mid.subs[id].item
    BY <1>1, <1>3 DEF SubKept
  <2> QED
    BY <1>1, <1>3, <2>1 DEF SubKept
<1> QED
  BY <1>2, <1>3 DEF SubKept

LEMMA WakeLoses ==
    ASSUME IInv, NEW a \in ActorIds, Wake(a) \/ TimerRetires(a)
    PROVE  Losing
<1>1. PICK new : new = Drained(actors[a])
  OBVIOUS
<1>2. ActorKept(new, actors[a]) /\ DOMAIN new.subs \subseteq DOMAIN actors[a].subs
  BY <1>1, Parts, ActorFacts, DrainedKept
<1>3. actors' = [actors EXCEPT ![a] = new] /\ UNCHANGED <<cache, calls, producer, created, history>>
  BY <1>1 DEF Wake, TimerRetires
<1> QED
  BY <1>2, <1>3, ActorLoses

LEMMA TimerExpiresLoses ==
    ASSUME IInv, NEW a \in ActorIds, TimerExpires(a)
    PROVE  Losing
<1>1. PICK act : act = Drained(actors[a])
  OBVIOUS
<1>2. Fits(act) /\ ActorKept(act, actors[a]) /\ DOMAIN act.subs = DOMAIN actors[a].subs
  <2>1. Fits(actors[a])
    BY Parts, ActorFacts
  <2> QED
    BY <1>1, <2>1, DrainedFacts, DrainedKept
<1>3. PICK gone \in SUBSET DOMAIN act.subs :
        /\ actors' = [actors EXCEPT ![a] =
             [act EXCEPT !.subs = [id \in DOMAIN act.subs |->
                IF id \in gone THEN [act.subs[id] EXCEPT !.closed = TRUE, !.item = FALSE]
                ELSE act.subs[id]]]]
        /\ cleanup' = Append(cleanup, [session |-> act.session, ids |-> gone,
                                       items |-> gone \cap Items(act.subs), ready |-> FALSE])
  BY <1>1 DEF TimerExpires
<1>4. PICK subs : subs = [id \in DOMAIN act.subs |->
                             IF id \in gone THEN [act.subs[id] EXCEPT !.closed = TRUE, !.item = FALSE]
                             ELSE act.subs[id]]
  OBVIOUS
<1>5. PICK new : new = [act EXCEPT !.subs = subs]
  OBVIOUS
<1>6. act \in ActorState /\ act.subs \in Subscriptions
  BY <1>2 DEF Fits, ActorState
<1>7. new.subs = subs /\ new.ring = act.ring /\ new.session = act.session /\ DOMAIN subs = DOMAIN act.subs
  BY <1>4, <1>5, <1>6 DEF ActorState
<1>8. \A id \in DOMAIN act.subs : act.subs[id] \in Sub
  BY <1>6, SubsFacts
<1>9. \A id \in DOMAIN act.subs : IF id \in gone THEN subs[id].closed ELSE subs[id] = act.subs[id]
  <2> TAKE id \in DOMAIN act.subs
  <2>1. PICK sub : sub = act.subs[id]
    OBVIOUS
  <2>2. sub \in Sub /\ (id \in gone => subs[id] = [sub EXCEPT !.closed = TRUE, !.item = FALSE])
    BY <1>4, <1>8, <2>1
  <2>3. id \in gone => subs[id].closed
    BY <2>2 DEF Sub
  <2> QED
    BY <1>4, <2>3
<1>10. ActorKept(new, act)
  BY <1>7, <1>9 DEF ActorKept, SubKept, Ringed
<1>11. ActorKept(new, actors[a]) /\ DOMAIN new.subs \subseteq DOMAIN actors[a].subs
  BY <1>2, <1>7, <1>10, KeptTwice
<1>12. actors' = [actors EXCEPT ![a] = new] /\ UNCHANGED <<cache, calls, producer, created, history>>
  BY <1>3, <1>4, <1>5 DEF TimerExpires
<1> QED
  BY <1>11, <1>12, ActorLoses

LEMMA RemoveReadyLoses ==
    ASSUME IInv, NEW a \in ActorIds, RemoveReady(a)
    PROVE  Losing
<1>1. PICK old : old = actors[a]
  OBVIOUS
<1>2. PICK id : actors' = [actors EXCEPT ![a].subs = Drop(@, {id})]
  BY DEF RemoveReady
<1>3. PICK subs, new : subs = Drop(old.subs, {id}) /\ new = [old EXCEPT !.subs = subs]
  OBVIOUS
<1>4. old \in ActorState
  BY <1>1, Parts, ActorFacts DEF Fits
<1>5. new.subs = subs /\ new.ring = old.ring /\ new.session = old.session
  BY <1>3, <1>4 DEF ActorState
<1>6. DOMAIN subs \subseteq DOMAIN old.subs /\ \A x \in DOMAIN subs : subs[x] = old.subs[x]
  BY <1>3 DEF Drop
<1>7. ActorKept(new, old)
  BY <1>5, <1>6 DEF ActorKept, SubKept, Ringed
<1>8. actors' = [actors EXCEPT ![a] = new] /\ UNCHANGED <<cache, calls, producer, created, history>>
  BY <1>1, <1>2, <1>3 DEF RemoveReady
<1> QED
  BY <1>1, <1>5, <1>6, <1>7, <1>8, ActorLoses

LEMMA RunCleanupLoses ==
    ASSUME IInv, RunCleanup
    PROVE  Losing
<1>1. PICK msg : msg = Head(cleanup)
  OBVIOUS
<1>2. PICK retired : retired = (msg.ready /\ msg.session \in DOMAIN entry)
  OBVIOUS
<1>3. PICK a, m : a = entry[msg.session] /\ m = [op |-> "Stop", by |-> "cache"]
  OBVIOUS
<1>4. /\ Deregister(msg.ids, msg.items)
      /\ entry' = IF retired THEN Drop(entry, {msg.session}) ELSE entry
      /\ actors' = IF retired THEN Posted(actors, a, m) ELSE actors
      /\ UNCHANGED <<calls, producer, created, started, value, history>>
  BY <1>1, <1>2, <1>3 DEF RunCleanup
<1>5. ActorsSame
  <2>1. m \in Message
    BY <1>3 DEF Message
  <2>2. retired => a \in ActorIds
    BY <1>2, <1>3, Parts DEF EntryOK
  <2> QED
    BY <1>4, <2>1, <2>2, Parts, SameActors, PostedSame
<1>6. EntryKept
  BY <1>4 DEF EntryKept, Drop
<1>7. /\ \A id \in DOMAIN owner' : id \in DOMAIN owner /\ owner'[id] = owner[id]
      /\ watched' \subseteq watched
  BY <1>4 DEF Deregister, Drop
<1>8. ArrivalsKept
  BY <1>4 DEF ArrivalsKept, history
<1> QED
  BY <1>4, <1>5, <1>6, <1>7, <1>8, SameHolders, SameSubsKept DEF Losing, history

LEMMA SnapshotLoses ==
    ASSUME IInv, Snapshot
    PROVE  Losing
<1>1. UNCHANGED <<entry, owner, watched, actors, calls, created, routed, dropped>> /\ producer' = Routes
  BY DEF Snapshot, cache, history
<1>2. ArrivalsKept
  BY <1>1 DEF ArrivalsKept
<1> QED
  BY <1>1, <1>2, SameActors, SameEntry, SameHolders, SameSubsKept DEF Losing

LEMMA RingedMore ==
    ASSUME NEW S, NEW old, NEW new, NEW v, NEW id, old.ring \in Seq(S), <<id, v>> \in S,
           new.ring = Append(old.ring, <<id, v>>)
    PROVE  v \in Ringed(new, id) /\ \A x : Ringed(old, x) \subseteq Ringed(new, x)
<1>1. PICK ring, e : ring = old.ring /\ e = <<id, v>>
  OBVIOUS
<1>2. /\ DOMAIN Append(ring, e) = DOMAIN ring \cup {Len(ring) + 1}
      /\ (\A k \in DOMAIN ring : Append(ring, e)[k] = ring[k])
      /\ Append(ring, e)[Len(ring) + 1] = e
  BY <1>1, SeqFacts, AppendFacts, AppendDomain
<1>3. new.ring = Append(ring, e)
  BY <1>1
<1>4. v \in Ringed(new, id)
  <2>1. PICK n : n = Len(ring) + 1
    OBVIOUS
  <2>2. n \in DOMAIN new.ring /\ new.ring[n][1] = id /\ new.ring[n][2] = v
    BY <1>1, <1>2, <1>3, <2>1
  <2> QED
    BY <2>2 DEF Ringed
<1>5. ASSUME NEW x, NEW y \in Ringed(old, x)
      PROVE  y \in Ringed(new, x)
  <2>1. PICK k \in DOMAIN ring : ring[k][1] = x /\ ring[k][2] = y
    BY <1>1, <1>5 DEF Ringed
  <2>2. k \in DOMAIN new.ring /\ new.ring[k] = ring[k]
    BY <1>2, <1>3, <2>1
  <2> QED
    BY <2>1, <2>2 DEF Ringed
<1> QED
  BY <1>4, <1>5

LEMMA PushLoses ==
    ASSUME IInv, Push
    PROVE  Losing
<1>1. PICK route \in producer :
        /\ producer' = producer \ {route}
        /\ actors' = IF Len(actors[route[1]].ring) >= RingCapacity THEN actors
                     ELSE [actors EXCEPT ![route[1]].ring = Append(@, <<route[2], value>>)]
        /\ routed' = [routed EXCEPT ![route[2]] = @ \cup {value}]
        /\ dropped' = IF Len(actors[route[1]].ring) >= RingCapacity
                        THEN [dropped EXCEPT ![route[2]] = @ \cup {value}] ELSE dropped
  BY DEF Push
<1>2. UNCHANGED <<entry, owner, watched, calls, created, value>>
  BY DEF Push, cache
<1>3. PICK a, id, v : a = route[1] /\ id = route[2] /\ v = value
  OBVIOUS
<1>4. a \in ActorIds /\ id \in SubIds /\ route = <<a, id>> /\ ActorsOK
  BY <1>3, Parts DEF RestOK
<1>5. v \in 1..MaxValues
  <2>1. value \in 0..MaxValues /\ value # 0
    BY <1>1, Parts DEF RestOK, Shape, RoutesHaveValue
  <2> QED
    BY <1>3, <2>1, LimitFacts
<1>6. /\ routed \in [SubIds -> SUBSET (1..MaxValues)] /\ dropped \in [SubIds -> SUBSET (1..MaxValues)]
  BY Parts DEF RestOK
<1>7. /\ \A x \in SubIds : x # id => routed'[x] = routed[x] /\ dropped'[x] = dropped[x]
      /\ routed'[id] = routed[id] \cup {v}
      /\ dropped[id] \subseteq dropped'[id]
  BY <1>1, <1>3, <1>4, <1>6
<1>8. \A x \in SubIds : routed'[x] # {} => routed[x] # {} \/ \E b \in ActorIds : <<b, x>> \in producer
  BY <1>1, <1>4, <1>7
<1>9. PICK old, full : old = actors[a] /\ full = (Len(old.ring) >= RingCapacity)
  OBVIOUS
<1>10. CASE full
  <2>1. UNCHANGED actors /\ v \in dropped'[id]
    BY <1>1, <1>3, <1>4, <1>6, <1>9, <1>10
  <2>2. ArrivalsKept
    BY <1>7, <2>1 DEF ArrivalsKept
  <2> QED
    BY <1>1, <1>2, <1>8, <2>1, <2>2, SameActors, SameEntry, SameHolders, SameSubsKept DEF Losing
<1>11. CASE ~full
  <2>1. PICK e, new : e = <<id, v>> /\ new = [old EXCEPT !.ring = Append(@, e)]
    OBVIOUS
  <2>2. actors' = [actors EXCEPT ![a] = new]
    BY <1>1, <1>3, <1>9, <1>11, <2>1
  <2>3. old \in ActorState /\ old.ring \in Seq(SubIds \X (1..MaxValues))
    BY <1>4, <1>9, ActorFacts DEF Fits, ActorState
  <2>4. new.ring = Append(old.ring, e) /\ new.subs = old.subs /\ new.session = old.session
    BY <2>1, <2>3 DEF ActorState
  <2>5. v \in Ringed(new, id) /\ \A x : Ringed(old, x) \subseteq Ringed(new, x)
    <3>1. <<id, v>> \in SubIds \X (1..MaxValues) /\ new.ring = Append(old.ring, <<id, v>>)
      BY <1>4, <1>5, <2>1, <2>4
    <3> QED
      BY <2>3, <3>1, RingedMore
  <2>6. ActorKept(new, old)
    BY <2>4, <2>5 DEF ActorKept, SubKept
  <2>7. DOMAIN actors' = DOMAIN actors /\ actors'[a] = new /\ \A b \in DOMAIN actors : b # a => actors'[b] = actors[b]
    BY <1>4, <2>2 DEF ActorIds
  <2>8. SubsKept
    BY <1>9, <2>6, <2>7, SameSubKept DEF SubsKept
  <2>9. \A x \in SubIds : HoldersKept(x)
    BY <1>9, <2>4, <2>7 DEF HoldersKept, Holds
  <2>10. ArrivalsKept
    <3> SUFFICES ASSUME NEW x \in SubIds, NEW w \in routed'[x] \ dropped'[x]
                 PROVE  w \in routed[x] \ dropped[x] \/ \E b \in ActorIds : <<b, x>> \in producer /\ w \in Ringed(actors'[b], x)
      BY DEF ArrivalsKept
    <3>1. CASE x = id /\ w = v
      BY <1>1, <1>4, <2>5, <2>7, <3>1
    <3>2. CASE ~(x = id /\ w = v)
      <4>1. w \in routed[x]
        BY <1>7, <3>2
      <4>2. w \notin dropped[x]
        <5>1. CASE x = id
          BY <1>7, <5>1
        <5>2. CASE x # id
          BY <1>7, <5>2
        <5> QED
          BY <5>1, <5>2
      <4> QED
        BY <4>1, <4>2
    <3> QED
      BY <3>1, <3>2
  <2> QED
    BY <1>1, <1>2, <1>8, <2>8, <2>9, <2>10, SameEntry DEF Losing
<1> QED
  BY <1>10, <1>11

\* The answer a call gets from an actor that has ended.
FailedAs(new, old) ==
    /\ new.pc = "replied" /\ ~new.reply.ok /\ new.reply.ids = {} /\ new.kind = old.kind /\ new.op = old.op /\ new.sub = old.sub
    /\ new.session = old.session /\ new.actor = old.actor /\ new.source = old.source /\ new.dest = old.dest

StoppedAt(a) ==
    /\ ActorsSame /\ Stopping(a) /\ DOMAIN calls' = DOMAIN calls
    /\ \A c \in DOMAIN calls :
         \/ calls'[c] = calls[c]
         \/ calls[c].pc = "sent" /\ calls[c].actor = a /\ FailedAs(calls'[c], calls[c])
    /\ UNCHANGED <<entry, owner, watched, producer, created, value, history>>

LEMMA StopStops ==
    ASSUME IInv, NEW a \in ActorIds, HandleStop(a)
    PROVE  StoppedAt(a)
<1>1. Registry /\ ActorsOK /\ CallsOK
  BY Parts
<1>2. PICK act, mail : act = actors[a] /\ mail = act.mail
  OBVIOUS
<1>3. act \in ActorState /\ mail \in Seq(Message)
  <2>1. Fits(act)
    BY <1>1, <1>2, ActorFacts
  <2> QED
    BY <1>2, <2>1 DEF Fits, ActorState
<1>4. mail # <<>> /\ Head(mail).op = "Stop" /\ MailOK(a, mail)
  BY <1>1, <1>2 DEF HandleStop, Registry, MailFromCalls
<1>5. Stopping(a)
  <2>1. 1 \in DOMAIN mail /\ mail[1].op = "Stop"
    BY <1>3, <1>4, TailFacts
  <2> QED
    BY <1>2, <2>1 DEF Stopping
<1>6. PICK new : new = [act EXCEPT !.alive = FALSE, !.mail = <<>>]
  OBVIOUS
<1>7. new.subs = act.subs /\ new.ring = act.ring /\ new.session = act.session
  BY <1>3, <1>6 DEF ActorState
<1>8. /\ actors' = [actors EXCEPT ![a].alive = FALSE, ![a].mail = <<>>]
      /\ calls' = [c \in DOMAIN calls |->
                     IF c \in Abandoned(a) THEN [calls[c] EXCEPT !.pc = "replied", !.reply = Failed]
                     ELSE calls[c]]
      /\ UNCHANGED <<cache, cleanup, producer, created, started, value, history>>
  BY DEF HandleStop
<1>9. actors' = [actors EXCEPT ![a] = new]
  BY <1>2, <1>6, <1>8
<1>10. ActorsSame
  <2>1. DOMAIN actors' = DOMAIN actors /\ actors'[a] = new /\ \A b \in DOMAIN actors : b # a => actors'[b] = actors[b]
    BY <1>9 DEF ActorIds
  <2> QED
    BY <1>2, <1>7, <2>1 DEF ActorsSame
<1>11. \A c \in Abandoned(a) : c \in DOMAIN calls /\ calls[c].pc = "sent" /\ calls[c].actor = a
  <2> TAKE c \in Abandoned(a)
  <2>1. PICK i \in 2..Len(mail) : mail[i].by = c
    BY <1>2 DEF Abandoned
  <2>2. c # "cache" /\ i \in DOMAIN mail
    BY <1>3, SeqFacts DEF Abandoned
  <2> QED
    BY <1>4, <2>1, <2>2 DEF MailOK, FromCall
<1>12. ASSUME NEW c \in DOMAIN calls
       PROVE  \/ calls'[c] = calls[c]
              \/ calls[c].pc = "sent" /\ calls[c].actor = a /\ FailedAs(calls'[c], calls[c])
  <2>1. CASE c \notin Abandoned(a)
    BY <1>8, <2>1
  <2>2. CASE c \in Abandoned(a)
    <3>1. PICK old, ended : old = calls[c] /\ ended = [old EXCEPT !.pc = "replied", !.reply = Failed]
      OBVIOUS
    <3>2. old \in Call /\ calls'[c] = ended
      BY <1>1, <1>8, <2>2, <3>1 DEF CallsOK
    <3>3. FailedAs(ended, old)
      BY <3>1, <3>2 DEF Call, FailedAs, Failed
    <3> QED
      BY <1>11, <2>2, <3>1, <3>2, <3>3
  <2> QED
    BY <2>1, <2>2
<1>13. UNCHANGED <<entry, owner, watched, producer, created, value, history>> /\ DOMAIN calls' = DOMAIN calls
  BY <1>8 DEF cache
<1> QED
  BY <1>5, <1>10, <1>12, <1>13 DEF StoppedAt

LEMMA StoppedOrderly ==
    ASSUME IInv, NEW a, StoppedAt(a)
    PROVE  Orderly
<1>1. \A c \in DOMAIN calls' : /\ c \in DOMAIN calls /\ (calls'[c] = calls[c] \/ FailedAs(calls'[c], calls[c]))
                               /\ calls'[c] # calls[c] => calls[c].pc = "sent"
  BY DEF StoppedAt
<1>2. UNCHANGED <<owner, watched, producer, created, routed>>
  BY DEF StoppedAt, history
<1>3. MarksKept
  <2> SUFFICES ASSUME NEW id \in SubIds, Marked(id)'
               PROVE  Marked(id)
    BY DEF MarksKept
  <2>1. (\E b : <<b, id>> \in producer) => \E b \in ActorIds : <<b, id>> \in producer
    BY Parts DEF RestOK
  <2>2. \A c \in DOMAIN calls' : At(c, "CreateItem", "replied")' /\ calls'[c].reply.ok => calls'[c] = calls[c] /\ c \in DOMAIN calls
    BY <1>1 DEF FailedAs
  <2> QED
    BY <1>2, <2>1, <2>2 DEF Marked, At
<1>4. OwnerKept
  BY <1>2 DEF OwnerKept
<1>5. CallsKept
  BY <1>1 DEF CallsKept, Creating, PastLookup, At, FailedAs
<1>6. CallsBegin
  BY <1>1, <1>2 DEF CallsBegin
<1> QED
  BY <1>3, <1>4, <1>5, <1>6, SameHolders, OrderlyParts DEF StoppedAt

\* Which actors hold a subscription after an answer.
LEMMA AnsweredHolders ==
    ASSUME IInv, NEW a \in ActorIds, NEW c, NEW d, AnswersCall(a, c, d), NEW b \in DOMAIN actors', NEW id,
           id \in DOMAIN actors'[b].subs
    PROVE  /\ b \in DOMAIN actors
           /\ Holds(b, id) \/ (b = a /\ id = calls[c].sub /\ d.reply.ok /\ calls[c].op \in {"Create", "Insert"})
<1>1. b \in DOMAIN actors
  BY DEF AnswersCall
<1>2. CASE b # a
  BY <1>1, <1>2 DEF AnswersCall, Holds
<1>3. CASE b = a
  <2>1. Fits(actors[a])
    BY Parts, ActorFacts
  <2>2. DOMAIN Drained(actors[a]).subs = DOMAIN actors[a].subs
    BY <2>1, DrainedSubs
  <2>3. id \in DOMAIN d.act.subs
    BY <1>3 DEF AnswersCall
  <2>4. \/ calls[c].op \in {"Create", "Insert"} /\ d.reply.ok /\ id = calls[c].sub
        \/ id \in DOMAIN Drained(actors[a]).subs
    BY <2>3 DEF AnswersCall, Handled
  <2> QED
    BY <1>1, <1>3, <2>2, <2>4 DEF Holds
<1> QED
  BY <1>1, <1>2, <1>3

LEMMA AnsweredOrderly ==
    ASSUME IInv, NEW a \in ActorIds, NEW c, NEW d, AnswersCall(a, c, d)
    PROVE  Orderly
<1>1. ASSUME NEW id \in SubIds
      PROVE  HoldersKept(id) \/ (\E e : BornAt(e, id)) \/ InTransfer(id)
  <2>1. CASE calls[c].op \in {"Create", "Insert"} /\ id = calls[c].sub
    <3>1. CASE calls[c].op = "Create"
      <4>1. \A b \in DOMAIN actors' : id \in DOMAIN actors'[b].subs => b = a \/ (b \in DOMAIN actors /\ Holds(b, id))
        BY AnsweredHolders
      <4>2. BornAt(c, id)
        BY <2>1, <3>1, <4>1 DEF BornAt, AnswersCall, At
      <4> QED
        BY <4>2
    <3>2. CASE calls[c].op = "Insert"
      BY <2>1, <3>2 DEF InTransfer, PastLookup, TransferOps, At, AnswersCall
    <3> QED
      BY <2>1, <3>1, <3>2
  <2>2. CASE ~(calls[c].op \in {"Create", "Insert"} /\ id = calls[c].sub)
    BY <2>2, AnsweredHolders DEF HoldersKept
  <2> QED
    BY <2>1, <2>2
<1>2. /\ DOMAIN calls' = DOMAIN calls /\ c \in DOMAIN calls /\ \A e \in DOMAIN calls : e # c => calls'[e] = calls[e]
      /\ UNCHANGED <<owner, watched, producer, created, routed>>
  BY DEF AnswersCall, OnlyCall, history
<1>3. MarksKept
  <2> SUFFICES ASSUME NEW id \in SubIds, Marked(id)', ~\E b \in ActorIds : Holds(b, id)
               PROVE  Marked(id)
    BY DEF MarksKept
  <2>1. (\E b : <<b, id>> \in producer) => \E b \in ActorIds : <<b, id>> \in producer
    BY Parts DEF RestOK
  <2>2. ~(At(c, "CreateItem", "replied")' /\ calls'[c].reply.ok /\ calls'[c].sub = id)
    <3> SUFFICES ASSUME calls[c].op = "CreateItem", d.reply.ok, calls[c].sub = id
                 PROVE  FALSE
      BY DEF AnswersCall, At
    <3>1. id \in DOMAIN Drained(actors[a]).subs
      BY DEF AnswersCall, Handled
    <3>2. Fits(actors[a])
      BY Parts, ActorFacts
    <3> QED
      BY <3>1, <3>2, DrainedSubs DEF Holds
  <2> QED
    BY <1>2, <2>1, <2>2 DEF Marked, At
<1>4. OwnerKept
  BY <1>2 DEF OwnerKept
<1>5. CallsKept
  BY <1>2 DEF CallsKept, Creating, PastLookup, At, AnswersCall
<1>6. CallsBegin
  BY <1>2 DEF CallsBegin
<1> QED
  BY <1>1, <1>3, <1>4, <1>5, <1>6 DEF Orderly

LEMMA StutterLoses ==
    ASSUME UNCHANGED vars
    PROVE  Losing
<1>1. UNCHANGED <<entry, owner, watched, actors, calls, producer, created, routed, dropped>>
  BY DEF vars, cache, history
<1>2. ArrivalsKept
  BY <1>1 DEF ArrivalsKept
<1> QED
  BY <1>1, <1>2, SameActors, SameEntry, SameHolders, SameSubsKept DEF Losing

\* Every step is one of these.
LEMMA Kinds ==
    ASSUME IInv, [Next]_vars
    PROVE  \/ \E c : Begun(c)
           \/ \E c \in DOMAIN calls : Step(c) /\ Effects(c)
           \/ \E a \in ActorIds : \E c, d : AnswersCall(a, c, d)
           \/ \E a \in ActorIds : StoppedAt(a)
           \/ Losing
<1>1. CASE BeginCall
  BY <1>1, CallBegun
<1>2. CASE \E c \in DOMAIN calls : Step(c)
  BY <1>2, StepEffects
<1>3. ASSUME NEW a \in ActorIds, Serve(a) \/ TimerExpires(a) \/ TimerRetires(a) \/ RemoveReady(a)
      PROVE  (\E c, d : AnswersCall(a, c, d)) \/ StoppedAt(a) \/ Losing
  <2>1. CASE HandleCommand(a)
    BY <2>1, CommandAnswers
  <2>2. CASE HandleStop(a)
    BY <2>2, StopStops
  <2>3. CASE Wake(a) \/ TimerRetires(a)
    BY <2>3, WakeLoses
  <2>4. CASE TimerExpires(a) \/ RemoveReady(a)
    BY <2>4, TimerExpiresLoses, RemoveReadyLoses
  <2> QED
    BY <1>3, <2>1, <2>2, <2>3, <2>4 DEF Serve
<1>4. CASE RunCleanup \/ Snapshot \/ Push \/ UNCHANGED vars
  BY <1>4, RunCleanupLoses, SnapshotLoses, PushLoses, StutterLoses
<1> QED
  BY <1>1, <1>2, <1>3, <1>4 DEF Next

LEMMA BirthInit == Init => BirthInv
<1> SUFFICES ASSUME Init
             PROVE  BirthInv
  OBVIOUS
<1>1. DOMAIN calls = {} /\ DOMAIN owner = {} /\ watched = {} /\ producer = {} /\ \A id \in SubIds : routed[id] = {}
  BY DEF Init
<1>2. DOMAIN actors = {}
  BY DEF Init
<1>3. CreatesOwn /\ OfTransfer
  BY <1>1 DEF CreatesOwn, OfTransfer
<1>4. \A id \in SubIds : Unborn(id)
  BY <1>1, <1>2 DEF Unborn, Marked, ActorIds
<1> QED
  BY <1>3, <1>4 DEF BirthInv, FutureUnborn

LEMMA StepOrderly ==
    ASSUME IInv, [Next]_vars
    PROVE  Orderly
  BY Kinds, BegunOrderly, EffectsOrderly, AnsweredOrderly, StoppedOrderly, LosingOrderly

-----------------------------------------------------------------------------
(***************************************************************************)
(* Without transfers, values reach the items they are pushed for.          *)
(***************************************************************************)

\* A subscription is created by the actor of the session, and no other holds it.
CreatesHere ==
    \A c \in DOMAIN calls : Creating(c) =>
        /\ calls[c].pc # "lookup" => actors[calls[c].actor].session = calls[c].session
        /\ \A id \in SubIds : calls[c].sub = id => \A a \in ActorIds : Holds(a, id) => a = calls[c].actor

OneHolder == \A id \in SubIds : \A a, b \in ActorIds : Holds(a, id) /\ Holds(b, id) => a = b

OwnerHolds == \A id \in DOMAIN owner : \A a \in ActorIds : Holds(a, id) => owner[id] = actors[a].session

\* A route leads to the actor in the cache that holds the subscription.
RoutesCurrent ==
    \A s \in DOMAIN entry, a \in ActorIds, id \in SubIds :
        <<a, id>> \in producer /\ Holds(entry[s], id) => a = entry[s]

ItemOrClosed ==
    \A id \in SubIds : \A a \in ActorIds :
        Holds(a, id) /\ Marked(id) => actors[a].subs[id].item \/ actors[a].subs[id].closed

\* A value that was pushed and not dropped has been received or waits in the ring.
Arrives ==
    \A s \in DOMAIN entry : \A id \in DOMAIN actors[entry[s]].subs :
        ~actors[entry[s]].subs[id].closed =>
            routed[id] \ dropped[id] \subseteq actors[entry[s]].subs[id].received \cup Ringed(actors[entry[s]], id)

ValInv == CreatesHere /\ OneHolder /\ OwnerHolds /\ RoutesCurrent /\ ItemOrClosed /\ Arrives

CreatesKept ==
    \A c \in DOMAIN calls' : Creating(c)' =>
        \/ calls'[c].pc = "lookup"
        \/ /\ c \in DOMAIN calls
           /\ IF calls[c].pc = "lookup" THEN actors'[calls'[c].actor].session = calls[c].session
              ELSE calls'[c].actor = calls[c].actor

OwnersKept ==
    \A id \in DOMAIN owner' :
        \/ id \in DOMAIN owner /\ owner'[id] = owner[id]
        \/ \E c \in DOMAIN calls : At(c, "Create", "replied") /\ calls[c].sub = id /\ owner'[id] = calls[c].session
        \/ InTransfer(id)

ItemsMarked ==
    \A id \in SubIds : Marked(id)' =>
        Marked(id) \/ \E a \in ActorIds : Holds(a, id) /\ (id \in DOMAIN actors'[a].subs => actors'[a].subs[id].item)

RoutesKept == \A r \in producer' : r \in producer \/ (r \in Routes /\ UNCHANGED <<entry, actors>>)

\* What every step keeps to if no subscription is transferred.
Delivers == SubsKept /\ EntryKept /\ CreatesKept /\ OwnersKept /\ ItemsMarked /\ RoutesKept /\ ArrivalsKept

LEMMA LosingDelivers ==
    ASSUME IInv, Losing
    PROVE  Delivers
<1>1. CreatesKept /\ OwnersKept /\ RoutesKept
  BY DEF Losing, CreatesKept, OwnersKept, RoutesKept
<1>2. ItemsMarked
  <2> SUFFICES ASSUME NEW id \in SubIds, Marked(id)'
               PROVE  Marked(id)
    BY DEF ItemsMarked
  <2>1. CASE \E a : <<a, id>> \in producer'
    <3>1. PICK a : <<a, id>> \in producer'
      BY <2>1
    <3>2. CASE <<a, id>> \in producer
      <4>1. a \in ActorIds
        BY <3>2, Parts DEF RestOK
      <4> QED
        BY <3>2, <4>1 DEF Marked
    <3>3. CASE <<a, id>> \in Routes
      BY <3>3 DEF Routes, Marked
    <3> QED
      BY <3>1, <3>2, <3>3 DEF Losing
  <2>2. CASE id \in watched' \/ routed'[id] # {}
    BY <2>2 DEF Losing, Marked
  <2>3. CASE \E c \in DOMAIN calls' : At(c, "CreateItem", "replied")' /\ calls'[c].reply.ok /\ calls'[c].sub = id
    BY <2>3 DEF Losing, Marked, At
  <2> QED
    BY <2>1, <2>2, <2>3 DEF Marked
<1> QED
  BY <1>1, <1>2 DEF Delivers, Losing

\* Nothing reaches a producer, a ring or the history.
LEMMA QuietDelivers ==
    ASSUME SubsKept, EntryKept, CreatesKept, OwnersKept, ItemsMarked, UNCHANGED <<producer, history>>
    PROVE  Delivers
  BY DEF Delivers, RoutesKept, ArrivalsKept, history

\* New marks are those of new items.
LEMMA MarksOf ==
    ASSUME IInv, UNCHANGED <<producer, history>>,
           \A id \in SubIds :
             (\/ id \in watched'
              \/ \E c \in DOMAIN calls' : At(c, "CreateItem", "replied")' /\ calls'[c].reply.ok /\ calls'[c].sub = id)
             => Marked(id)
                \/ \E a \in ActorIds : Holds(a, id) /\ (id \in DOMAIN actors'[a].subs => actors'[a].subs[id].item)
    PROVE  ItemsMarked
<1> SUFFICES ASSUME NEW id \in SubIds, Marked(id)'
             PROVE  \/ Marked(id)
                    \/ \E a \in ActorIds : Holds(a, id) /\ (id \in DOMAIN actors'[a].subs => actors'[a].subs[id].item)
  BY DEF ItemsMarked
<1>1. (\E b : <<b, id>> \in producer) => \E b \in ActorIds : <<b, id>> \in producer
  BY Parts DEF RestOK
<1>2. CASE routed'[id] # {} \/ \E b : <<b, id>> \in producer'
  BY <1>1, <1>2 DEF Marked, history
<1>3. CASE \/ id \in watched'
           \/ \E c \in DOMAIN calls' : At(c, "CreateItem", "replied")' /\ calls'[c].reply.ok /\ calls'[c].sub = id
  BY <1>3
<1> QED
  BY <1>2, <1>3 DEF Marked

LEMMA BegunDelivers ==
    ASSUME IInv, NEW c, Begun(c)
    PROVE  Delivers
<1>1. /\ ActorsSame /\ EntryKept /\ UNCHANGED <<owner, watched, producer, history>>
      /\ calls'[c].pc = "lookup" /\ \A d \in DOMAIN calls' : d # c => d \in DOMAIN calls /\ calls'[d] = calls[d]
  BY DEF Begun, OnlyCall
<1>2. CreatesKept
  BY <1>1 DEF CreatesKept
<1>3. OwnersKept
  BY <1>1 DEF OwnersKept
<1>4. ItemsMarked
  BY <1>1, MarksOf DEF Marked, At
<1> QED
  BY <1>1, <1>2, <1>3, <1>4, SameSubsKept, QuietDelivers

LEMMA EffectsDelivers ==
    ASSUME IInv, NEW c \in DOMAIN calls, Effects(c)
    PROVE  Delivers
<1>1. /\ ActorsSame /\ EntryKept /\ OnlyCall(c) /\ (c \in DOMAIN calls' => Moved(c))
      /\ OwnerMoved(c) /\ WatchedMoved(c)
      /\ UNCHANGED <<producer, created, value, history>>
  BY DEF Effects
<1>2. \A d \in DOMAIN calls' : d # c => d \in DOMAIN calls /\ calls'[d] = calls[d]
  BY <1>1 DEF OnlyCall
<1>3. CreatesKept
  BY <1>1, <1>2 DEF CreatesKept, Moved
<1>4. OwnersKept
  BY <1>1 DEF OwnersKept, OwnerMoved, InTransfer
<1>5. ItemsMarked
  <2>1. ASSUME NEW id \in SubIds,
               \/ id \in watched'
               \/ \E d \in DOMAIN calls' : At(d, "CreateItem", "replied")' /\ calls'[d].reply.ok /\ calls'[d].sub = id
        PROVE  Marked(id)
    <3>1. CASE id \in watched'
      BY <1>1, <3>1 DEF WatchedMoved, Marked
    <3>2. CASE \E d \in DOMAIN calls' : At(d, "CreateItem", "replied")' /\ calls'[d].reply.ok /\ calls'[d].sub = id
      <4>1. PICK d \in DOMAIN calls' : At(d, "CreateItem", "replied")' /\ calls'[d].reply.ok /\ calls'[d].sub = id
        BY <3>2
      <4>2. d # c
        BY <1>1, <4>1 DEF Moved
      <4> QED
        BY <1>2, <4>1, <4>2 DEF Marked, At
    <3> QED
      BY <2>1, <3>1, <3>2
  <2> QED
    BY <1>1, <2>1, MarksOf
<1> QED
  BY <1>1, <1>3, <1>4, <1>5, SameSubsKept, QuietDelivers

LEMMA StoppedDelivers ==
    ASSUME IInv, NEW a, StoppedAt(a)
    PROVE  Delivers
<1>1. /\ \A c \in DOMAIN calls' : /\ c \in DOMAIN calls /\ (calls'[c] = calls[c] \/ FailedAs(calls'[c], calls[c]))
                                  /\ calls'[c] # calls[c] => calls[c].pc = "sent"
      /\ ActorsSame /\ UNCHANGED <<entry, owner, watched, producer, history>>
  BY DEF StoppedAt
<1>2. CreatesKept
  BY <1>1 DEF CreatesKept, FailedAs
<1>3. OwnersKept
  BY <1>1 DEF OwnersKept
<1>4. ItemsMarked
  <2>1. \A c \in DOMAIN calls' : At(c, "CreateItem", "replied")' /\ calls'[c].reply.ok => calls'[c] = calls[c] /\ c \in DOMAIN calls
    BY <1>1 DEF FailedAs
  <2> QED
    BY <1>1, <2>1, MarksOf DEF Marked, At
<1> QED
  BY <1>1, <1>2, <1>3, <1>4, SameSubsKept, SameEntry, QuietDelivers

LEMMA AnsweredDelivers ==
    ASSUME IInv, BirthInv, NEW a \in ActorIds, NEW c, NEW d, AnswersCall(a, c, d), calls[c].op \notin TransferOps
    PROVE  Delivers
<1>1. PICK act, dr, call : act = actors[a] /\ dr = Drained(actors[a]) /\ call = calls[c]
  OBVIOUS
<1>2. /\ c \in DOMAIN calls /\ call.pc = "sent" /\ Handled(d, dr, call)
      /\ actors'[a].subs = d.act.subs /\ actors'[a].ring = d.act.ring /\ actors'[a].session = act.session
      /\ DOMAIN actors' = DOMAIN actors /\ \A b \in DOMAIN actors : b # a => actors'[b] = actors[b]
      /\ DOMAIN calls' = DOMAIN calls /\ (\A e \in DOMAIN calls : e # c => calls'[e] = calls[e])
      /\ calls'[c].reply = d.reply /\ calls'[c].op = call.op /\ calls'[c].sub = call.sub
      /\ calls'[c].actor = call.actor
      /\ UNCHANGED <<entry, owner, watched, producer, history>>
  BY <1>1 DEF AnswersCall, OnlyCall
<1>3. Fits(act) /\ a \in DOMAIN actors /\ call.sub \in 0..MaxSubs
  BY <1>1, <1>2, Parts, ActorFacts, CallFacts DEF ActorIds
<1>4. /\ dr.ring = <<>> /\ DOMAIN dr.subs = DOMAIN act.subs /\ dr.session = act.session /\ Fits(dr)
      /\ ActorKept(dr, act)
  BY <1>1, <1>3, DrainedSubs, DrainedFacts, DrainedKept DEF Alike
<1>5. \A id \in DOMAIN dr.subs : dr.subs[id] \in Sub
  BY <1>4, SubsFacts DEF Fits, ActorState
<1>6. call.op = "Create" => call.sub \notin DOMAIN act.subs
  BY <1>1, <1>2, <1>3 DEF BirthInv, CreatesOwn, Creating, Unborn, Holds, ActorIds
<1>7. ActorKept(actors'[a], act)
  <2>1. PICK new : new = actors'[a]
    OBVIOUS
  <2>2. new.subs = d.act.subs /\ new.ring = dr.ring /\ new.session = dr.session
    BY <1>2, <1>4, <2>1 DEF Handled
  <2>3. \A id \in DOMAIN dr.subs \cap DOMAIN new.subs : SubKept(new, dr, id)
    <3> SUFFICES ASSUME NEW id \in DOMAIN dr.subs \cap DOMAIN new.subs
                 PROVE  SubKept(new, dr, id)
      OBVIOUS
    <3>1. SameSub(d.act.subs[id], dr.subs[id]) \/ d.act.subs[id] = [dr.subs[id] EXCEPT !.item = TRUE]
      BY <1>1, <1>2, <1>4, <1>6, <2>2 DEF Handled, TransferOps
    <3>2. PICK sub : sub = dr.subs[id]
      OBVIOUS
    <3>3. sub \in Sub
      BY <1>5, <3>2
    <3>4. /\ new.subs[id].closed = sub.closed /\ new.subs[id].received = sub.received
          /\ sub.item => new.subs[id].item
      <4>1. CASE SameSub(d.act.subs[id], dr.subs[id])
        BY <2>2, <3>2, <4>1 DEF SameSub
      <4>2. CASE d.act.subs[id] = [dr.subs[id] EXCEPT !.item = TRUE]
        <5>1. new.subs[id] = [sub EXCEPT !.item = TRUE]
          BY <2>2, <3>2, <4>2
        <5> QED
          BY <3>3, <5>1 DEF Sub
      <4> QED
        BY <3>1, <4>1, <4>2
    <3> QED
      BY <2>2, <3>2, <3>4 DEF SubKept, Ringed
  <2>4. ActorKept(new, dr)
    BY <2>2, <2>3 DEF ActorKept
  <2> QED
    BY <1>4, <2>1, <2>4, KeptTwice
<1>8. SubsKept
  BY <1>1, <1>2, <1>7, SameSubKept DEF SubsKept
<1>9. CreatesKept
  BY <1>1, <1>2 DEF CreatesKept
<1>10. OwnersKept
  BY <1>2 DEF OwnersKept
<1>11. ItemsMarked
  <2>1. ASSUME NEW id \in SubIds,
               \/ id \in watched'
               \/ \E e \in DOMAIN calls' : At(e, "CreateItem", "replied")' /\ calls'[e].reply.ok /\ calls'[e].sub = id
        PROVE  \/ Marked(id)
               \/ \E b \in ActorIds : Holds(b, id) /\ (id \in DOMAIN actors'[b].subs => actors'[b].subs[id].item)
    <3>1. CASE id \in watched'
      BY <1>2, <3>1 DEF Marked
    <3>2. CASE \E e \in DOMAIN calls' : At(e, "CreateItem", "replied")' /\ calls'[e].reply.ok /\ calls'[e].sub = id
      <4>1. PICK e \in DOMAIN calls' : At(e, "CreateItem", "replied")' /\ calls'[e].reply.ok /\ calls'[e].sub = id
        BY <3>2
      <4>2. CASE e # c
        BY <1>2, <4>1, <4>2 DEF Marked, At
      <4>3. CASE e = c
        <5>1. call.op = "CreateItem" /\ d.reply.ok /\ call.sub = id
          BY <1>2, <4>1, <4>3 DEF At
        <5>2. id \in DOMAIN dr.subs /\ d.act.subs[id].item
          BY <1>2, <5>1 DEF Handled
        <5> QED
          BY <1>1, <1>2, <1>4, <5>2 DEF Holds
      <4> QED
        BY <4>2, <4>3
    <3> QED
      BY <2>1, <3>1, <3>2
  <2> QED
    BY <1>2, <2>1, MarksOf
<1> QED
  BY <1>2, <1>8, <1>9, <1>10, <1>11, SameEntry, QuietDelivers

LEMMA StepDelivers ==
    ASSUME IInv, BirthInv, [Next]_vars, \A c \in DOMAIN calls : calls[c].op \notin TransferOps
    PROVE  Delivers
<1>1. ASSUME NEW a \in ActorIds, NEW c, NEW d, AnswersCall(a, c, d)
      PROVE  Delivers
  <2>1. calls[c].op \notin TransferOps
    BY <1>1 DEF AnswersCall
  <2> QED
    BY <1>1, <2>1, AnsweredDelivers
<1> QED
  BY <1>1, Kinds, BegunDelivers, EffectsDelivers, StoppedDelivers, LosingDelivers

\* A subscription that an actor holds it has held before, or has been asked to create now.
LEMMA HolderCases ==
    ASSUME IInv, BirthInv, Orderly, NEW id \in SubIds, ~InTransfer(id), NEW a \in DOMAIN actors', id \in DOMAIN actors'[a].subs
    PROVE  \/ a \in ActorIds /\ Holds(a, id)
           \/ /\ Unborn(id)
              /\ \E c \in DOMAIN calls : At(c, "Create", "sent") /\ calls[c].sub = id /\ a = calls[c].actor
                                           /\ calls'[c].actor = calls[c].actor
                                           /\ \A b \in DOMAIN actors' : id \in DOMAIN actors'[b].subs => b = a
<1>1. CASE HoldersKept(id)
  BY <1>1 DEF HoldersKept, ActorIds
<1>2. ASSUME NEW c, BornAt(c, id)
      PROVE  /\ Unborn(id)
             /\ \E e \in DOMAIN calls : At(e, "Create", "sent") /\ calls[e].sub = id /\ a = calls[e].actor
                                          /\ calls'[e].actor = calls[e].actor
                                          /\ \A b \in DOMAIN actors' : id \in DOMAIN actors'[b].subs => b = a
  <2>1. c \in DOMAIN calls /\ At(c, "Create", "sent") /\ calls[c].sub = id /\ calls'[c].actor = calls[c].actor
    BY <1>2 DEF BornAt
  <2>2. Unborn(id)
    BY <2>1, LimitFacts DEF BirthInv, CreatesOwn, Creating, At
  <2>3. \A b \in DOMAIN actors' : id \in DOMAIN actors'[b].subs => b = calls[c].actor
    BY <1>2, <2>2 DEF BornAt, Unborn, ActorIds
  <2> QED
    BY <2>1, <2>2, <2>3
<1> QED
  BY <1>1, <1>2 DEF Orderly

LEMMA CreatesHereStep ==
    ASSUME IInv, BirthInv, BirthInv', ValInv, Orderly, Delivers, \A id \in SubIds : ~InTransfer(id)
    PROVE  CreatesHere'
<1> SUFFICES ASSUME NEW c \in DOMAIN calls', Creating(c)'
             PROVE  /\ calls'[c].pc # "lookup" => actors'[calls'[c].actor].session = calls'[c].session
                    /\ \A id \in SubIds : calls'[c].sub = id =>
                         \A a \in DOMAIN actors' : id \in DOMAIN actors'[a].subs => a = calls'[c].actor
  BY DEF CreatesHere, Holds, ActorIds
<1>1. calls'[c].pc # "lookup" => /\ c \in DOMAIN calls
                                 /\ IF calls[c].pc = "lookup" THEN actors'[calls'[c].actor].session = calls[c].session
                                    ELSE calls'[c].actor = calls[c].actor
  BY DEF Delivers, CreatesKept
<1>2. c \in DOMAIN calls => /\ Creating(c) /\ calls'[c].sub = calls[c].sub /\ calls'[c].session = calls[c].session
                            /\ calls[c].actor \in ActorIds \/ calls[c].pc = "lookup"
  <2> SUFFICES ASSUME c \in DOMAIN calls
               PROVE  /\ Creating(c) /\ calls'[c].sub = calls[c].sub /\ calls'[c].session = calls[c].session
                      /\ calls[c].actor \in ActorIds \/ calls[c].pc = "lookup"
    OBVIOUS
  <2>1. Creating(c) /\ calls'[c].sub = calls[c].sub /\ calls'[c].session = calls[c].session
    BY DEF Orderly, CallsKept
  <2>2. Shaped(calls[c], Len(actors)) /\ ActorIds = 1..Len(actors) /\ Len(actors) \in Nat
    BY CallFacts
  <2>3. calls[c].pc # "lookup" => calls[c].actor \in ActorIds
    BY <2>2 DEF Shaped
  <2> QED
    BY <2>1, <2>3
<1>3. ASSUME calls'[c].pc # "lookup"
      PROVE  actors'[calls'[c].actor].session = calls'[c].session
  <2>1. CASE calls[c].pc = "lookup"
    BY <1>1, <1>2, <1>3, <2>1
  <2>2. CASE calls[c].pc # "lookup"
    <3>1. calls[c].actor \in DOMAIN actors /\ actors[calls[c].actor].session = calls[c].session
      BY <1>1, <1>2, <1>3, <2>2 DEF ActorIds, ValInv, CreatesHere
    <3>2. actors'[calls[c].actor].session = actors[calls[c].actor].session
      BY <3>1 DEF Delivers, SubsKept, ActorKept
    <3> QED
      BY <1>1, <1>2, <1>3, <2>2, <3>1, <3>2
  <2> QED
    BY <2>1, <2>2
<1>4. ASSUME NEW id \in SubIds, calls'[c].sub = id, NEW a \in DOMAIN actors', id \in DOMAIN actors'[a].subs
      PROVE  a = calls'[c].actor
  <2>1. id \in 0..MaxSubs
    BY LimitFacts
  <2>2. calls'[c].pc = "replied"
    <3>1. calls'[c].pc # "replied" => Unborn(id)'
      BY <1>4, <2>1 DEF BirthInv, CreatesOwn
    <3> QED
      BY <1>4, <3>1 DEF Unborn, Holds, ActorIds
  <2>3. c \in DOMAIN calls /\ Creating(c) /\ calls[c].sub = id
    BY <1>1, <1>2, <1>4, <2>2
  <2>4. CASE a \in ActorIds /\ Holds(a, id)
    <3>1. calls[c].pc = "replied"
      BY <2>1, <2>3, <2>4 DEF BirthInv, CreatesOwn, Unborn
    <3>2. a = calls[c].actor
      BY <2>3, <2>4 DEF ValInv, CreatesHere
    <3> QED
      BY <1>1, <2>2, <3>1, <3>2
  <2>5. ASSUME NEW e \in DOMAIN calls, At(e, "Create", "sent"), calls[e].sub = id, a = calls[e].actor,
               calls'[e].actor = calls[e].actor
        PROVE  a = calls'[c].actor
    <3>1. e = c
      BY <2>1, <2>3, <2>5 DEF BirthInv, CreatesOwn, Creating, At
    <3> QED
      BY <2>5, <3>1
  <2> QED
    BY <1>4, <2>4, <2>5, HolderCases
<1> QED
  BY <1>3, <1>4

LEMMA OneHolderStep ==
    ASSUME IInv, BirthInv, ValInv, Orderly, \A id \in SubIds : ~InTransfer(id)
    PROVE  OneHolder'
<1> SUFFICES ASSUME NEW id \in SubIds, NEW a \in DOMAIN actors', NEW b \in DOMAIN actors',
                    id \in DOMAIN actors'[a].subs, id \in DOMAIN actors'[b].subs
             PROVE  a = b
  BY DEF OneHolder, Holds, ActorIds
<1>1. CASE Unborn(id)
  <2>1. ~(a \in ActorIds /\ Holds(a, id))
    BY <1>1 DEF Unborn
  <2> QED
    BY <2>1, HolderCases
<1>2. CASE ~Unborn(id)
  <2>1. a \in ActorIds /\ Holds(a, id) /\ b \in ActorIds /\ Holds(b, id)
    BY <1>2, HolderCases
  <2> QED
    BY <2>1 DEF ValInv, OneHolder
<1> QED
  BY <1>1, <1>2

LEMMA OwnerHoldsStep ==
    ASSUME IInv, BirthInv, ValInv, Orderly, Delivers, \A id \in SubIds : ~InTransfer(id), IndexOK'
    PROVE  OwnerHolds'
<1> SUFFICES ASSUME NEW id \in DOMAIN owner', NEW a \in DOMAIN actors', id \in DOMAIN actors'[a].subs
             PROVE  owner'[id] = actors'[a].session
  BY DEF OwnerHolds, Holds, ActorIds
<1>1. id \in SubIds
  BY DEF IndexOK
<1>2. \/ a \in ActorIds /\ Holds(a, id)
      \/ Unborn(id) /\ \E c \in DOMAIN calls : At(c, "Create", "sent") /\ calls[c].sub = id
  BY <1>1, HolderCases
<1>3. a \in ActorIds => actors'[a].session = actors[a].session
  BY DEF Delivers, SubsKept, ActorKept, ActorIds
<1>4. CASE id \in DOMAIN owner /\ owner'[id] = owner[id]
  <2>1. ~Unborn(id)
    BY <1>4 DEF Unborn
  <2>2. a \in ActorIds /\ Holds(a, id)
    BY <1>2, <2>1
  <2> QED
    BY <1>3, <1>4, <2>2 DEF ValInv, OwnerHolds
<1>5. ASSUME NEW c \in DOMAIN calls, At(c, "Create", "replied"), calls[c].sub = id, owner'[id] = calls[c].session
      PROVE  owner'[id] = actors'[a].session
  <2>1. id \in 0..MaxSubs
    BY <1>1, LimitFacts
  <2>2. \A e \in DOMAIN calls : At(e, "Create", "sent") /\ calls[e].sub = id => e = c
    BY <1>5, <2>1 DEF BirthInv, CreatesOwn, Creating, At
  <2>3. a \in ActorIds /\ Holds(a, id)
    BY <1>2, <1>5, <2>2 DEF At
  <2>4. a = calls[c].actor /\ actors[calls[c].actor].session = calls[c].session
    BY <1>1, <1>5, <2>3 DEF ValInv, CreatesHere, Creating, At
  <2> QED
    BY <1>3, <1>5, <2>3, <2>4
<1> QED
  BY <1>1, <1>4, <1>5 DEF Delivers, OwnersKept

LEMMA RoutesCurrentStep ==
    ASSUME IInv, BirthInv, ValInv, Orderly, Delivers, \A id \in SubIds : ~InTransfer(id), EntryOK'
    PROVE  RoutesCurrent'
<1> SUFFICES ASSUME NEW s \in DOMAIN entry', NEW a \in DOMAIN actors', NEW id \in SubIds,
                    <<a, id>> \in producer', id \in DOMAIN actors'[entry'[s]].subs
             PROVE  a = entry'[s]
  BY DEF RoutesCurrent, Holds, ActorIds
<1>1. s \in DOMAIN entry /\ entry'[s] = entry[s] /\ entry'[s] \in DOMAIN actors'
  BY DEF Delivers, EntryKept, EntryOK, ActorIds
<1>2. CASE <<a, id>> \in producer
  <2>1. a \in ActorIds
    BY <1>2, Parts DEF RestOK
  <2>2. ~Unborn(id)
    BY <1>2, <2>1 DEF Unborn, Marked
  <2>3. Holds(entry[s], id)
    BY <1>1, <2>2, HolderCases
  <2> QED
    BY <1>1, <1>2, <2>1, <2>3 DEF ValInv, RoutesCurrent
<1>3. CASE <<a, id>> \in Routes /\ UNCHANGED <<entry, actors>>
  <2>1. id \in DOMAIN owner /\ owner[id] \in DOMAIN entry /\ a = entry[owner[id]]
    BY <1>3 DEF Routes
  <2>2. Holds(entry[s], id) /\ entry[s] \in ActorIds
    BY <1>1, <1>3 DEF Holds, ActorIds
  <2>3. owner[id] = actors[entry[s]].session
    BY <2>1, <2>2 DEF ValInv, OwnerHolds
  <2>4. owner[id] = s
    BY <1>1, <2>3, Parts DEF Registry, EntriesOwn
  <2> QED
    BY <1>1, <2>1, <2>4
<1> QED
  BY <1>2, <1>3 DEF Delivers, RoutesKept

LEMMA ItemOrClosedStep ==
    ASSUME IInv, BirthInv, ValInv, Orderly, Delivers, \A id \in SubIds : ~InTransfer(id)
    PROVE  ItemOrClosed'
<1> SUFFICES ASSUME NEW id \in SubIds, NEW a \in DOMAIN actors', id \in DOMAIN actors'[a].subs, Marked(id)'
             PROVE  actors'[a].subs[id].item \/ actors'[a].subs[id].closed
  BY DEF ItemOrClosed, Holds, ActorIds
<1>1. Marked(id) \/ \E b \in ActorIds : Holds(b, id) /\ (id \in DOMAIN actors'[b].subs => actors'[b].subs[id].item)
  BY DEF Delivers, ItemsMarked
<1>2. ~Unborn(id)
  BY <1>1 DEF Unborn
<1>3. a \in ActorIds /\ Holds(a, id)
  BY <1>2, HolderCases
<1>4. CASE Marked(id)
  <2>1. actors[a].subs[id].item \/ actors[a].subs[id].closed
    BY <1>3, <1>4 DEF ValInv, ItemOrClosed
  <2>2. SubKept(actors'[a], actors[a], id)
    BY <1>3 DEF Delivers, SubsKept, ActorKept, Holds, ActorIds
  <2> QED
    BY <2>1, <2>2 DEF SubKept
<1>5. ASSUME NEW b \in ActorIds, Holds(b, id), id \in DOMAIN actors'[b].subs => actors'[b].subs[id].item
      PROVE  actors'[a].subs[id].item
  <2>1. a = b
    BY <1>3, <1>5 DEF ValInv, OneHolder
  <2> QED
    BY <1>5, <2>1
<1> QED
  BY <1>1, <1>4, <1>5

LEMMA ArrivesStep ==
    ASSUME IInv, BirthInv, ValInv, Orderly, Delivers, \A id \in SubIds : ~InTransfer(id), EntryOK', ActorsOK'
    PROVE  Arrives'
<1> SUFFICES ASSUME NEW s \in DOMAIN entry', NEW id \in DOMAIN actors'[entry'[s]].subs,
                    ~actors'[entry'[s]].subs[id].closed, NEW v \in routed'[id] \ dropped'[id]
             PROVE  v \in actors'[entry'[s]].subs[id].received \cup Ringed(actors'[entry'[s]], id)
  BY DEF Arrives
<1>1. s \in DOMAIN entry /\ entry'[s] = entry[s] /\ entry'[s] \in DOMAIN actors'
  BY DEF Delivers, EntryKept, EntryOK, ActorIds
<1>2. PICK b : b = entry[s]
  OBVIOUS
<1>3. id \in SubIds
  <2>1. actors'[b] \in ActorState
    BY <1>1, <1>2, SeqFacts DEF ActorsOK
  <2>2. actors'[b].subs \in Subscriptions
    BY <2>1 DEF ActorState
  <2> QED
    BY <1>1, <1>2, <2>2, SubsFacts
<1>4. v \in routed[id] \ dropped[id] \/ \E a \in ActorIds : <<a, id>> \in producer /\ v \in Ringed(actors'[a], id)
  BY <1>3 DEF Delivers, ArrivalsKept
<1>5. Marked(id)
  BY <1>4 DEF Marked
<1>6. b \in ActorIds /\ Holds(b, id)
  BY <1>1, <1>2, <1>3, <1>5, HolderCases DEF Unborn
<1>7. SubKept(actors'[b], actors[b], id)
  BY <1>1, <1>2, <1>6 DEF Delivers, SubsKept, ActorKept, Holds, ActorIds
<1>8. ~actors[b].subs[id].closed /\ actors[b].subs[id].item
  BY <1>1, <1>2, <1>3, <1>5, <1>6, <1>7 DEF SubKept, ValInv, ItemOrClosed
<1>9. CASE v \in routed[id] \ dropped[id]
  <2>1. v \in actors[b].subs[id].received \cup Ringed(actors[b], id)
    BY <1>1, <1>2, <1>6, <1>8, <1>9 DEF ValInv, Arrives, Holds
  <2> QED
    BY <1>1, <1>2, <1>7, <1>8, <2>1 DEF SubKept
<1>10. ASSUME NEW a \in ActorIds, <<a, id>> \in producer, v \in Ringed(actors'[a], id)
       PROVE  v \in Ringed(actors'[b], id)
  <2>1. a = b
    BY <1>1, <1>2, <1>3, <1>6, <1>10 DEF ValInv, RoutesCurrent
  <2> QED
    BY <1>10, <2>1
<1> QED
  BY <1>1, <1>2, <1>4, <1>9, <1>10

LEMMA NoTransfers ==
    ASSUME IInv, BirthInv, "Transfer" \notin CallKinds
    PROVE  /\ \A c \in DOMAIN calls : calls[c].op \notin TransferOps
           /\ \A id \in SubIds : ~InTransfer(id)
<1>1. ASSUME NEW c \in DOMAIN calls
      PROVE  calls[c].op \notin TransferOps
  <2>1. PICK call : call = calls[c]
    OBVIOUS
  <2>2. call \in Call
    BY <2>1, CallFacts
  <2>3. call.kind \in CallKinds
    BY <2>2 DEF Call
  <2> QED
    BY <2>1, <2>3 DEF BirthInv, OfTransfer
<1> QED
  BY <1>1 DEF InTransfer, PastLookup

LEMMA ValInit == Init => ValInv
<1> SUFFICES ASSUME Init
             PROVE  ValInv
  OBVIOUS
<1>1. DOMAIN calls = {} /\ DOMAIN owner = {} /\ producer = {} /\ DOMAIN entry = {}
  BY DEF Init
<1>2. DOMAIN actors = {}
  BY DEF Init
<1> QED
  BY <1>1, <1>2 DEF ValInv, CreatesHere, OneHolder, OwnerHolds, RoutesCurrent, ItemOrClosed, Arrives, ActorIds

LEMMA ValStep ==
    ASSUME IInv, IInv', BirthInv, BirthInv', ValInv, [Next]_vars, "Transfer" \notin CallKinds
    PROVE  ValInv'
<1>1. (\A c \in DOMAIN calls : calls[c].op \notin TransferOps) /\ \A id \in SubIds : ~InTransfer(id)
  BY NoTransfers
<1>2. Orderly /\ Delivers
  BY <1>1, StepOrderly, StepDelivers
<1>3. EntryOK' /\ IndexOK' /\ ActorsOK'
  BY DEF IInv, Shape, TypeOK, EntryOK, IndexOK, ActorsOK
<1> QED
  BY <1>1, <1>2, <1>3, CreatesHereStep, OneHolderStep, OwnerHoldsStep, RoutesCurrentStep,
     ItemOrClosedStep, ArrivesStep DEF ValInv

\* Values pushed for a subscription reach its item or are counted as dropped (notify_for,
\* push_notification, drain_ring), in a server whose subscriptions are not transferred: a
\* transfer carries the values the source has received, and leaves those in its ring behind.
THEOREM ValuesAlwaysDelivered ==
    ASSUME "Transfer" \notin CallKinds
    PROVE  Spec => []ValuesDelivered
<1>1. Init => IInv /\ BirthInv /\ ValInv
  BY InitHolds, BirthInit, ValInit
<1>2. IInv /\ BirthInv /\ ValInv /\ [Next]_vars => IInv' /\ BirthInv' /\ ValInv'
  BY NextPreserves, StepOrderly, BirthStep, ValStep
<1>3. IInv /\ ValInv => ValuesDelivered
  <2> SUFFICES ASSUME IInv, ValInv, Quiet, NEW s \in DOMAIN entry, NEW id \in LiveSubs(s)
               PROVE  routed[id] \ dropped[id] \subseteq actors[entry[s]].subs[id].received
    BY DEF ValuesDelivered
  <2>1. id \in DOMAIN actors[entry[s]].subs /\ ~actors[entry[s]].subs[id].closed
    BY DEF LiveSubs
  <2>2. actors[entry[s]].ring = <<>>
    BY Parts DEF Quiet, Registry, EntriesAlive, EntryOK
  <2>3. Ringed(actors[entry[s]], id) = {}
    BY <2>2 DEF Ringed
  <2> QED
    BY <2>1, <2>3 DEF ValInv, Arrives
<1> QED
  BY <1>1, <1>2, <1>3, PTL DEF Spec

-----------------------------------------------------------------------------
(***************************************************************************)
(* Without transfers, a live subscription keeps its route.                 *)
(***************************************************************************)

\* The creation of subscription id has been answered.
Settled(id) ==
    /\ id \in SubIds /\ id <= created
    /\ \A c \in DOMAIN calls : Creating(c) /\ calls[c].sub = id => calls[c].pc = "replied"

\* No actor in the cache has subscription id live, nor will one.
Forgettable(id) == Settled(id) /\ \A s \in DOMAIN entry : id \notin LiveSubs(s)

\* What a deletion or a teardown is about to take out of the index.
AnswersForgettable ==
    \A c \in DOMAIN calls : \A id \in SubIds :
        /\ calls[c].op \in {"Delete", "GetData"}
        /\ calls[c].pc = "replied" /\ id \in calls[c].reply.ids
        => Forgettable(id)

\* What the cleanup task is about to take out of it.
MessagesForgettable == \A i \in DOMAIN cleanup : \A id \in cleanup[i].ids : Forgettable(id)

RouteInv == AnswersForgettable /\ MessagesForgettable /\ RoutedOnceRecorded

NoneTransferred == \A c \in DOMAIN calls : calls[c].op \notin TransferOps

LEMMA HeldSettled ==
    ASSUME IInv, BirthInv, NEW a \in ActorIds, NEW id \in SubIds, Holds(a, id)
    PROVE  Settled(id)
<1>1. ~Unborn(id)
  BY DEF Unborn
<1>2. id <= created
  <2>1. ~(id > created)
    BY <1>1 DEF BirthInv, FutureUnborn
  <2>2. created \in 0..MaxSubs
    BY Parts DEF RestOK
  <2> QED
    BY <2>1, <2>2, LimitFacts DEF SubIds
<1>3. \A c \in DOMAIN calls : Creating(c) /\ calls[c].sub = id => calls[c].pc = "replied"
  BY <1>1, LimitFacts DEF BirthInv, CreatesOwn
<1> QED
  BY <1>2, <1>3 DEF Settled

LEMMA SettledKept ==
    ASSUME IInv, Orderly, NEW id, Settled(id)
    PROVE  Settled(id)'
<1>1. CallsKept /\ CallsBegin /\ created \in 0..MaxSubs /\ id \in 1..MaxSubs /\ id <= created /\ MaxSubs \in Nat
  BY Parts, LimitFacts DEF Orderly, RestOK, Settled, SubIds
<1>2. id <= created'
  BY <1>1 DEF CallsBegin
<1>3. ASSUME NEW c \in DOMAIN calls', Creating(c)', calls'[c].sub = id
      PROVE  calls'[c].pc = "replied"
  <2>1. CASE c \in DOMAIN calls
    BY <1>1, <1>3, <2>1 DEF CallsKept, Settled
  <2>2. CASE c \notin DOMAIN calls
    BY <1>1, <1>3, <2>2 DEF CallsBegin
  <2> QED
    BY <2>1, <2>2
<1> QED
  BY <1>2, <1>3 DEF Settled, SubIds

\* A subscription that is live and does not begin here was live before.
LEMMA LiveWas ==
    ASSUME SubsKept, EntryKept, NEW s \in DOMAIN entry', NEW id \in LiveSubs(s)',
           entry'[s] \in DOMAIN actors /\ Holds(entry'[s], id)
    PROVE  s \in DOMAIN entry /\ id \in LiveSubs(s)
<1>1. PICK a : a = entry'[s]
  OBVIOUS
<1>2. id \in DOMAIN actors'[a].subs /\ ~actors'[a].subs[id].closed
  BY <1>1 DEF LiveSubs
<1>3. s \in DOMAIN entry /\ entry[s] = a
  BY <1>1, <1>2 DEF EntryKept
<1>4. a \in DOMAIN actors /\ id \in DOMAIN actors[a].subs
  BY <1>1 DEF Holds
<1>5. ~actors[a].subs[id].closed
  BY <1>2, <1>4 DEF SubsKept, ActorKept, SubKept
<1> QED
  BY <1>3, <1>4, <1>5 DEF LiveSubs

LEMMA ForgettableKept ==
    ASSUME IInv, BirthInv, Orderly, SubsKept, EntryKept, EntryOK', NEW id, ~InTransfer(id), Forgettable(id)
    PROVE  Forgettable(id)'
<1>1. id \in SubIds /\ Settled(id)' /\ Settled(id)
  BY SettledKept DEF Forgettable, Settled
<1>2. ASSUME NEW s \in DOMAIN entry', id \in LiveSubs(s)'
      PROVE  FALSE
  <2>1. PICK a : a = entry'[s] /\ a \in DOMAIN actors' /\ id \in DOMAIN actors'[a].subs
    BY <1>2 DEF LiveSubs, EntryOK, ActorIds
  <2>2. a \in ActorIds /\ Holds(a, id)
    <3>1. CASE Unborn(id) /\ \E c \in DOMAIN calls : At(c, "Create", "sent") /\ calls[c].sub = id
      BY <1>1, <3>1 DEF Settled, At, Creating
    <3> QED
      BY <1>1, <2>1, <3>1, HolderCases
  <2> QED
    BY <1>2, <2>1, <2>2, LiveWas DEF Forgettable, ActorIds
<1> QED
  BY <1>1, <1>2 DEF Forgettable

\* The answer a call may get in a step of its own: the actor has ended.
LEMMA StepReply ==
    ASSUME IInv, NEW c \in DOMAIN calls, Step(c), c \in DOMAIN calls', calls[c].op \notin TransferOps
    PROVE  calls'[c].pc = "replied" => calls'[c].reply.ids = {}
<1>1. PICK old : old = calls[c]
  OBVIOUS
<1>2. old \in Call /\ Shaped(old, Len(actors)) /\ ActorIds = 1..Len(actors) /\ Len(actors) \in Nat
  BY <1>1, CallFacts
<1>3. ~EndCall(c)
  BY DEF EndCall, Drop
<1>4. CASE Send(c)
  <2>1. old.pc = "send" /\ SendCommand(c, old)
    BY <1>1, <1>4 DEF Send
  <2>2. old.actor \in ActorIds
    BY <1>2, <2>1 DEF Shaped
  <2>3. PICK new \in Call : /\ calls'[c] = new
                            /\ \/ new = [old EXCEPT !.pc = "sent"]
                               \/ new = [old EXCEPT !.pc = "replied", !.reply = Failed]
    BY <1>2, <2>1, <2>2, CommandPosted
  <2>4. Failed.ids = {}
    BY DEF Failed
  <2> QED
    BY <1>2, <2>3, <2>4 DEF Call
<1>5. CASE LookupCreate(c) \/ LookupCreateItem(c) \/ LookupIds(c) \/ LookupTeardown(c)
  <2>1. PICK e : e = IF LookupCreate(c) THEN entry'[calls[c].session] ELSE entry[calls[c].session]
    OBVIOUS
  <2>2. PICK sends, asks : sends = [old EXCEPT !.actor = e, !.pc = "send"] /\ asks = [old EXCEPT !.op = "GetData"]
    OBVIOUS
  <2>3. CASE LookupCreate(c)
    BY <1>1, <2>1, <2>2, <2>3, <1>2 DEF LookupCreate, Call
  <2>4. CASE LookupCreateItem(c) /\ ~LookupCreate(c)
    BY <1>1, <1>2, <1>3, <2>1, <2>2, <2>4 DEF LookupCreateItem, LookupHandle, Call
  <2>5. CASE LookupIds(c) /\ ~LookupCreate(c)
    BY <1>1, <1>2, <2>1, <2>2, <2>5 DEF LookupIds, At, Call
  <2>6. CASE LookupTeardown(c) /\ ~LookupCreate(c)
    BY <1>1, <1>2, <1>3, <2>1, <2>2, <2>6 DEF LookupTeardown, Call
  <2> QED
    BY <1>5, <2>3, <2>4, <2>5, <2>6
<1>6. CASE FinishIds(c) \/ FinishDelete(c)
  <2>1. CASE FinishIds(c)
    BY <1>1, <1>2, <2>1 DEF FinishIds, Call
  <2>2. CASE FinishDelete(c)
    BY <1>1, <1>2, <1>3, <2>2 DEF FinishDelete, Call
  <2> QED
    BY <1>6, <2>1, <2>2
<1>7. CASE LookupDelete(c)
  <2>1. CASE calls[c].session \in DOMAIN entry
    <3>1. PICK e, i : e = entry[old.session] /\ i = IF old.kind = "Delete" THEN {old.sub} ELSE old.ids
      OBVIOUS
    <3>2. calls'[c] = [old EXCEPT !.actor = e, !.pc = "send", !.ids = IF old.kind = "Delete" THEN {old.sub} ELSE @]
      BY <1>1, <1>7, <2>1, <3>1 DEF LookupDelete
    <3> QED
      BY <1>2, <3>2 DEF Call
  <2>2. CASE calls[c].session \notin DOMAIN entry
    BY <1>1, <1>2, <1>3, <1>7, <2>2 DEF LookupDelete, At, Call
  <2> QED
    BY <2>1, <2>2
<1>8. CASE FinishCreate(c) \/ FinishCreateItem(c) \/ FinishTeardown(c)
  BY <1>3, <1>8 DEF FinishCreate, FinishCreateItem, FinishTeardown
<1>9. CASE LookupSource(c) \/ TransferCloned(c) \/ TransferInserted(c) \/ TransferMarked(c) \/ TransferCompleted(c)
  BY <1>9 DEF LookupSource, TransferCloned, TransferInserted, TransferMarked, TransferCompleted, At, TransferOps
<1> QED
  BY <1>4, <1>5, <1>6, <1>7, <1>8, <1>9 DEF Step

LEMMA AnswersStep ==
    ASSUME IInv, IInv', BirthInv, ValInv, RouteInv, [Next]_vars, Orderly, Delivers,
           NoneTransferred, \A id \in SubIds : ~InTransfer(id)
    PROVE  AnswersForgettable'
<1> SUFFICES ASSUME NEW c \in DOMAIN calls', NEW id \in SubIds, calls'[c].op \in {"Delete", "GetData"},
                    calls'[c].pc = "replied", id \in calls'[c].reply.ids
             PROVE  Forgettable(id)'
  BY DEF AnswersForgettable
<1>1. EntryOK' /\ SubsKept /\ EntryKept
  BY PartsOfNext DEF Delivers
<1>2. CASE c \in DOMAIN calls /\ calls'[c] = calls[c]
  BY <1>1, <1>2, ForgettableKept DEF RouteInv, AnswersForgettable
<1>3. ASSUME NEW e, Begun(e)
      PROVE  Forgettable(id)'
  <2>1. c # e
    BY <1>3 DEF Begun
  <2> QED
    BY <1>2, <1>3, <2>1 DEF Begun, OnlyCall
<1>4. ASSUME NEW e \in DOMAIN calls, Step(e), Effects(e)
      PROVE  Forgettable(id)'
  <2>1. c # e
    BY <1>4, StepReply DEF NoneTransferred
  <2> QED
    BY <1>2, <1>4, <2>1 DEF Effects, OnlyCall
<1>5. ASSUME NEW a \in ActorIds, NEW e, NEW d, AnswersCall(a, e, d)
      PROVE  Forgettable(id)'
  <2>1. CASE c # e
    BY <1>2, <1>5, <2>1 DEF AnswersCall, OnlyCall
  <2>2. CASE c = e
    <3>1. /\ c \in DOMAIN calls /\ calls[c].pc = "sent" /\ calls[c].actor = a /\ calls[c].op = calls'[c].op
          /\ d.reply = calls'[c].reply /\ actors'[a].subs = d.act.subs /\ UNCHANGED entry
          /\ Handled(d, Drained(actors[a]), calls[c])
      BY <1>5, <2>2 DEF AnswersCall
    <3>2. DOMAIN Drained(actors[a]).subs = DOMAIN actors[a].subs
      BY Parts, ActorFacts, DrainedSubs
    <3>3. Holds(a, id)
      BY <3>1, <3>2 DEF Handled, Holds
    <3>4. Settled(id)'
      BY <3>3, HeldSettled, SettledKept
    <3>5. ASSUME NEW s \in DOMAIN entry', id \in LiveSubs(s)'
          PROVE  FALSE
      <4>1. PICK b : b = entry'[s] /\ b \in DOMAIN actors' /\ id \in DOMAIN actors'[b].subs
        BY <1>1, <3>5 DEF LiveSubs, EntryOK, ActorIds
      <4>2. b \in DOMAIN actors /\ Holds(b, id)
        BY <1>5, <2>2, <3>1, <4>1, AnsweredHolders
      <4>3. b = a
        BY <3>3, <4>2 DEF ValInv, OneHolder, ActorIds
      <4>4. CASE calls[c].op = "Delete"
        BY <3>1, <4>1, <4>3, <4>4 DEF Handled
      <4>5. CASE calls[c].op = "GetData"
        BY <3>1, <4>1, <4>3, <4>5, Parts DEF Registry, TeardownHolds, TearsDown
      <4> QED
        BY <3>1, <4>4, <4>5
    <3> QED
      BY <3>4, <3>5 DEF Forgettable
  <2> QED
    BY <2>1, <2>2
<1>6. ASSUME NEW a \in ActorIds, StoppedAt(a)
      PROVE  Forgettable(id)'
  BY <1>2, <1>6 DEF StoppedAt, FailedAs
<1>7. ASSUME Losing
      PROVE  Forgettable(id)'
  BY <1>2, <1>7 DEF Losing
<1> QED
  BY <1>3, <1>4, <1>5, <1>6, <1>7, Kinds

\* A subscription named to the cleanup task has just been closed where it is.
ClosedNow(id) ==
    \E a \in ActorIds :
        Holds(a, id) /\ a \in DOMAIN actors' /\ id \in DOMAIN actors'[a].subs /\ actors'[a].subs[id].closed

LEMMA ExpiredNow ==
    ASSUME IInv, NEW a \in ActorIds, TimerExpires(a), NEW i \in DOMAIN cleanup', NEW id \in cleanup'[i].ids
    PROVE  (\E j \in DOMAIN cleanup : id \in cleanup[j].ids) \/ ClosedNow(id)
<1>1. PICK act : act = Drained(actors[a])
  OBVIOUS
<1>2. Fits(act) /\ DOMAIN act.subs = DOMAIN actors[a].subs
  <2>1. Fits(actors[a])
    BY Parts, ActorFacts
  <2> QED
    BY <1>1, <2>1, DrainedFacts
<1>3. PICK gone \in SUBSET DOMAIN act.subs :
        /\ actors' = [actors EXCEPT ![a] =
             [act EXCEPT !.subs = [x \in DOMAIN act.subs |->
                IF x \in gone THEN [act.subs[x] EXCEPT !.closed = TRUE, !.item = FALSE]
                ELSE act.subs[x]]]]
        /\ cleanup' = Append(cleanup, [session |-> act.session, ids |-> gone,
                                       items |-> gone \cap Items(act.subs), ready |-> FALSE])
  BY <1>1 DEF TimerExpires
<1>4. PICK msg : msg = [session |-> act.session, ids |-> gone, items |-> gone \cap Items(act.subs), ready |-> FALSE]
  OBVIOUS
<1>5. cleanup \in Seq(CleanupMessage) /\ cleanup' = Append(cleanup, msg) /\ msg.ids = gone
  BY <1>3, <1>4, Parts DEF RestOK
<1>6. cleanup'[i] = msg \/ (i \in DOMAIN cleanup /\ cleanup'[i] = cleanup[i])
  BY <1>5
<1>7. ASSUME id \in gone
      PROVE  ClosedNow(id)
  <2>1. PICK subs, old : /\ subs = [x \in DOMAIN act.subs |->
                              IF x \in gone THEN [act.subs[x] EXCEPT !.closed = TRUE, !.item = FALSE]
                              ELSE act.subs[x]]
                         /\ old = act.subs[id]
    OBVIOUS
  <2>2. act \in ActorState /\ act.subs \in Subscriptions /\ id \in DOMAIN act.subs
    BY <1>2, <1>7 DEF Fits, ActorState
  <2>3. old \in Sub
    BY <2>1, <2>2, SubsFacts
  <2>4. subs[id] = [old EXCEPT !.closed = TRUE, !.item = FALSE] /\ id \in DOMAIN subs
    BY <1>7, <2>1, <2>2
  <2>5. subs[id].closed
    BY <2>3, <2>4 DEF Sub
  <2>6. a \in DOMAIN actors' /\ actors'[a] = [act EXCEPT !.subs = subs]
    BY <1>3, <2>1 DEF ActorIds
  <2>7. actors'[a].subs = subs
    BY <2>2, <2>6 DEF ActorState
  <2> QED
    BY <1>2, <2>2, <2>4, <2>5, <2>6, <2>7 DEF ClosedNow, Holds
<1> QED
  BY <1>5, <1>6, <1>7

LEMMA MessagesMoved ==
    ASSUME IInv, [Next]_vars, NEW i \in DOMAIN cleanup', NEW id \in cleanup'[i].ids
    PROVE  (\E j \in DOMAIN cleanup : id \in cleanup[j].ids) \/ ClosedNow(id)
<1>1. cleanup \in Seq(CleanupMessage)
  BY Parts DEF RestOK
<1>2. CASE UNCHANGED cleanup
  BY <1>2
<1>3. CASE BeginCall
  <2>1. UNCHANGED cleanup
    BY <1>3 DEF BeginCall, BeginCreate, BeginClose, BeginCreateItem, BeginDelete, BeginTransfer, Begin
  <2> QED
    BY <1>2, <2>1
<1>4. ASSUME NEW c \in DOMAIN calls, Step(c)
      PROVE  UNCHANGED cleanup
  BY <1>4 DEF Step, Send, LookupCreate, FinishCreate, LookupCreateItem, LookupHandle, FinishCreateItem, LookupIds,
     FinishIds, LookupDelete, FinishDelete, LookupTeardown, FinishTeardown, LookupSource, TransferCloned,
     TransferInserted, TransferMarked, TransferCompleted, Proceed
<1>5. ASSUME NEW a \in ActorIds, Serve(a) \/ RemoveReady(a)
      PROVE  UNCHANGED cleanup
  BY <1>5 DEF Serve, HandleCommand, HandleStop, Wake, RemoveReady
<1>6. ASSUME NEW a \in ActorIds, TimerRetires(a)
      PROVE  \E j \in DOMAIN cleanup : id \in cleanup[j].ids
  <2>1. PICK msg : msg = [session |-> actors[a].session, ids |-> {}, items |-> {}, ready |-> TRUE]
    OBVIOUS
  <2>2. cleanup' = Append(cleanup, msg) /\ msg.ids = {}
    BY <1>6, <2>1 DEF TimerRetires
  <2>3. cleanup'[i] = msg \/ (i \in DOMAIN cleanup /\ cleanup'[i] = cleanup[i])
    BY <1>1, <2>2
  <2> QED
    BY <2>2, <2>3
<1>7. CASE RunCleanup
  <2>1. cleanup # <<>> /\ cleanup' = Tail(cleanup)
    BY <1>7 DEF RunCleanup
  <2>2. i + 1 \in DOMAIN cleanup /\ cleanup'[i] = cleanup[i + 1]
    BY <1>1, <2>1, TailDomain
  <2> QED
    BY <2>2
<1>8. CASE Snapshot \/ Push \/ UNCHANGED vars
  BY <1>2, <1>8 DEF Snapshot, Push, vars
<1> QED
  BY <1>2, <1>3, <1>4, <1>5, <1>6, <1>7, <1>8, ExpiredNow DEF Next

LEMMA MessagesStep ==
    ASSUME IInv, IInv', BirthInv, ValInv, ValInv', RouteInv, [Next]_vars, Orderly, Delivers,
           \A id \in SubIds : ~InTransfer(id)
    PROVE  MessagesForgettable'
<1> SUFFICES ASSUME NEW i \in DOMAIN cleanup', NEW id \in cleanup'[i].ids
             PROVE  Forgettable(id)'
  BY DEF MessagesForgettable
<1>1. EntryOK' /\ SubsKept /\ EntryKept
  BY PartsOfNext DEF Delivers
<1>2. ASSUME NEW j \in DOMAIN cleanup, id \in cleanup[j].ids
      PROVE  Forgettable(id)'
  <2>1. Forgettable(id)
    BY <1>2 DEF RouteInv, MessagesForgettable
  <2>2. ~InTransfer(id)
    BY <2>1 DEF Forgettable, Settled
  <2> QED
    BY <1>1, <2>1, <2>2, ForgettableKept
<1>3. ASSUME ClosedNow(id)
      PROVE  Forgettable(id)'
  <2>1. PICK a \in ActorIds : /\ Holds(a, id) /\ a \in DOMAIN actors'
                              /\ id \in DOMAIN actors'[a].subs /\ actors'[a].subs[id].closed
    BY <1>3 DEF ClosedNow
  <2>2. id \in SubIds
    <3>1. actors[a].subs \in Subscriptions
      BY Parts, ActorFacts DEF Fits, ActorState
    <3> QED
      BY <2>1, <3>1, SubsFacts DEF Holds
  <2>3. Settled(id)'
    BY <2>1, <2>2, HeldSettled, SettledKept
  <2>4. ASSUME NEW s \in DOMAIN entry', id \in LiveSubs(s)'
        PROVE  FALSE
    <3>1. PICK b : b = entry'[s] /\ b \in DOMAIN actors'
      BY <1>1 DEF EntryOK, ActorIds
    <3>2. id \in DOMAIN actors'[b].subs /\ ~actors'[b].subs[id].closed
      BY <2>4, <3>1 DEF LiveSubs
    <3>3. b = a
      BY <2>1, <2>2, <3>1, <3>2 DEF ValInv, OneHolder, ActorIds, Holds
    <3> QED
      BY <2>1, <3>2, <3>3
  <2> QED
    BY <2>3, <2>4 DEF Forgettable
<1> QED
  BY <1>2, <1>3, MessagesMoved

\* An id leaves the index only when it may be forgotten.
LEMMA OwnerDropped ==
    ASSUME IInv, RouteInv, [Next]_vars, NoneTransferred, NEW id \in DOMAIN owner, id \notin DOMAIN owner'
    PROVE  Forgettable(id)
<1>1. id \in SubIds
  BY Parts DEF IndexOK
<1>2. ASSUME NEW c \in DOMAIN calls, FinishDelete(c) \/ FinishTeardown(c)
      PROVE  Forgettable(id)
  <2>1. /\ calls[c].op \in {"Delete", "GetData"} /\ calls[c].pc = "replied"
        /\ owner' = Drop(owner, calls[c].reply.ids)
    BY <1>2 DEF FinishDelete, FinishTeardown, Deregister, At
  <2> QED
    BY <1>1, <2>1 DEF RouteInv, AnswersForgettable, Drop
<1>3. ASSUME RunCleanup
      PROVE  Forgettable(id)
  <2>1. cleanup \in Seq(CleanupMessage) /\ cleanup # <<>> /\ owner' = Drop(owner, Head(cleanup).ids)
    BY <1>3, Parts DEF RunCleanup, Deregister, RestOK
  <2>2. Head(cleanup) = cleanup[1] /\ 1 \in DOMAIN cleanup
    BY <2>1, TailFacts
  <2> QED
    BY <2>1, <2>2 DEF RouteInv, MessagesForgettable, Drop
<1>4. ASSUME NEW c \in DOMAIN calls, FinishCreate(c)
      PROVE  FALSE
  BY <1>4 DEF FinishCreate, Put
<1>5. ASSUME NEW c \in DOMAIN calls, Step(c), ~FinishCreate(c), ~FinishDelete(c), ~FinishTeardown(c)
      PROVE  UNCHANGED owner
  BY <1>5 DEF Step, Send, LookupCreate, LookupCreateItem, LookupHandle, FinishCreateItem, LookupIds, FinishIds,
     LookupDelete, LookupTeardown, LookupSource, TransferCloned, TransferInserted, TransferMarked,
     TransferCompleted, NoneTransferred, TransferOps, At, cache
<1>6. CASE BeginCall
  BY <1>6, CallBegun DEF Begun
<1>7. ASSUME NEW a \in ActorIds, Serve(a) \/ TimerExpires(a) \/ TimerRetires(a) \/ RemoveReady(a)
      PROVE  UNCHANGED owner
  BY <1>7 DEF Serve, HandleCommand, HandleStop, Wake, TimerExpires, TimerRetires, RemoveReady, cache
<1>8. CASE Snapshot \/ Push \/ UNCHANGED vars
  BY <1>8 DEF Snapshot, Push, vars, cache
<1> QED
  BY <1>2, <1>3, <1>4, <1>5, <1>6, <1>7, <1>8 DEF Next

\* A creation that has been answered waits until it is recorded.
LEMMA CreationRecorded ==
    ASSUME IInv, [Next]_vars, NEW c \in DOMAIN calls, At(c, "Create", "replied"), calls[c].reply.ok
    PROVE  (c \in DOMAIN calls' /\ calls'[c] = calls[c]) \/ calls[c].sub \in DOMAIN owner'
<1>1. ASSUME NEW e, Begun(e)
      PROVE  c \in DOMAIN calls' /\ calls'[c] = calls[c]
  BY <1>1 DEF Begun, OnlyCall
<1>2. ASSUME NEW e \in DOMAIN calls, Step(e), Effects(e)
      PROVE  (c \in DOMAIN calls' /\ calls'[c] = calls[c]) \/ calls[c].sub \in DOMAIN owner'
  <2>1. CASE c # e
    BY <1>2, <2>1 DEF Effects, OnlyCall
  <2>2. CASE c = e
    <3>1. FinishCreate(c)
      BY <1>2, <2>2 DEF Step, Send, LookupCreate, LookupCreateItem, FinishCreateItem, LookupIds,
         FinishIds, LookupDelete, FinishDelete, LookupTeardown, FinishTeardown, LookupSource, TransferCloned,
         TransferInserted, TransferMarked, TransferCompleted, At
    <3> QED
      BY <3>1 DEF FinishCreate, Put
  <2> QED
    BY <2>1, <2>2
<1>3. ASSUME NEW a \in ActorIds, NEW e, NEW d, AnswersCall(a, e, d)
      PROVE  c \in DOMAIN calls' /\ calls'[c] = calls[c]
  BY <1>3 DEF AnswersCall, OnlyCall, At
<1>4. ASSUME NEW a \in ActorIds, StoppedAt(a)
      PROVE  c \in DOMAIN calls' /\ calls'[c] = calls[c]
  BY <1>4 DEF StoppedAt, At
<1>5. ASSUME Losing
      PROVE  c \in DOMAIN calls' /\ calls'[c] = calls[c]
  BY <1>5 DEF Losing
<1> QED
  BY <1>1, <1>2, <1>3, <1>4, <1>5, Kinds

\* A live subscription was live before the step, or has been created by it.
LEMMA LiveBefore ==
    ASSUME IInv, IInv', [Next]_vars, Delivers, NoneTransferred, NEW s \in DOMAIN entry', NEW id \in LiveSubs(s)'
    PROVE  \/ s \in DOMAIN entry /\ id \in LiveSubs(s)
           \/ \E c \in DOMAIN calls' : At(c, "Create", "replied")' /\ calls'[c].reply.ok /\ calls'[c].sub = id
<1>1. EntryOK' /\ SubsKept /\ EntryKept
  BY PartsOfNext DEF Delivers
<1>2. PICK b : b = entry'[s] /\ b \in DOMAIN actors' /\ id \in DOMAIN actors'[b].subs
  BY <1>1 DEF LiveSubs, EntryOK, ActorIds
<1>3. CASE b \in DOMAIN actors /\ Holds(b, id)
  BY <1>1, <1>2, <1>3, LiveWas
<1>4. ASSUME NEW a \in ActorIds, NEW e, NEW d, AnswersCall(a, e, d), ~(b \in DOMAIN actors /\ Holds(b, id))
      PROVE  e \in DOMAIN calls' /\ At(e, "Create", "replied")' /\ calls'[e].reply.ok /\ calls'[e].sub = id
  <2>1. b \in DOMAIN actors /\ id = calls[e].sub /\ d.reply.ok /\ calls[e].op \in {"Create", "Insert"}
    BY <1>2, <1>4, AnsweredHolders
  <2> QED
    BY <1>4, <2>1 DEF AnswersCall, At, NoneTransferred, TransferOps
<1>5. CASE ActorsSame
  BY <1>2, <1>3, <1>5 DEF ActorsSame, Holds
<1>6. CASE Losing
  <2>1. actors'[b].subs \in Subscriptions
    <3>1. actors' \in Seq(ActorState)
      BY PartsOfNext DEF ActorsOK
    <3>2. actors'[b] \in ActorState
      BY <1>2, <3>1, SeqFacts
    <3>3. PICK act : act = actors'[b]
      OBVIOUS
    <3> QED
      BY <3>2, <3>3 DEF ActorState
  <2>2. id \in SubIds
    BY <1>2, <2>1, SubsFacts
  <2> QED
    BY <1>2, <1>3, <1>6, <2>2 DEF Losing, HoldersKept
<1> QED
  BY <1>3, <1>4, <1>5, <1>6, Kinds DEF Begun, Effects, StoppedAt

LEMMA RoutedStep ==
    ASSUME IInv, IInv', BirthInv, ValInv, ValInv', RouteInv, [Next]_vars, Delivers, NoneTransferred
    PROVE  RoutedOnceRecorded'
<1> SUFFICES ASSUME NEW s \in DOMAIN entry', NEW id \in LiveSubs(s)'
             PROVE  \/ id \in DOMAIN owner' /\ owner'[id] = s
                    \/ \E c \in DOMAIN calls' : At(c, "Create", "replied")' /\ calls'[c].reply.ok /\ calls'[c].sub = id
  BY DEF RoutedOnceRecorded
<1>1. ASSUME id \in DOMAIN owner'
      PROVE  owner'[id] = s
  <2>1. PICK a : a = entry'[s] /\ a \in DOMAIN actors' /\ id \in DOMAIN actors'[a].subs
    BY PartsOfNext DEF LiveSubs, EntryOK, ActorIds
  <2>2. actors'[a].session = s
    BY <2>1, PartsOfNext DEF EntriesOwn
  <2> QED
    BY <1>1, <2>1, <2>2 DEF ValInv, OwnerHolds, Holds, ActorIds
<1>2. CASE s \in DOMAIN entry /\ id \in LiveSubs(s)
  <2>1. \/ id \in DOMAIN owner /\ owner[id] = s
        \/ \E c \in DOMAIN calls : At(c, "Create", "replied") /\ calls[c].reply.ok /\ calls[c].sub = id
    BY <1>2 DEF RouteInv, RoutedOnceRecorded
  <2>2. CASE id \in DOMAIN owner
    <3>1. ~Forgettable(id)
      BY <1>2 DEF Forgettable
    <3> QED
      BY <1>1, <2>2, <3>1, OwnerDropped
  <2>3. ASSUME NEW c \in DOMAIN calls, At(c, "Create", "replied"), calls[c].reply.ok, calls[c].sub = id
        PROVE  \/ id \in DOMAIN owner'
               \/ c \in DOMAIN calls' /\ At(c, "Create", "replied")' /\ calls'[c].reply.ok /\ calls'[c].sub = id
    BY <2>3, CreationRecorded DEF At
  <2> QED
    BY <1>1, <2>1, <2>2, <2>3
<1> QED
  BY <1>2, LiveBefore

LEMMA RouteInit == Init => RouteInv
<1> SUFFICES ASSUME Init
             PROVE  RouteInv
  OBVIOUS
<1>1. DOMAIN calls = {} /\ DOMAIN cleanup = {} /\ DOMAIN entry = {}
  BY DEF Init
<1> QED
  BY <1>1 DEF RouteInv, AnswersForgettable, MessagesForgettable, RoutedOnceRecorded

LEMMA RouteStep ==
    ASSUME IInv, IInv', BirthInv, ValInv, ValInv', RouteInv, [Next]_vars, "Transfer" \notin CallKinds
    PROVE  RouteInv'
<1>1. NoneTransferred /\ \A id \in SubIds : ~InTransfer(id)
  BY NoTransfers DEF NoneTransferred
<1>2. Orderly /\ Delivers
  BY <1>1, StepOrderly, StepDelivers DEF NoneTransferred
<1> QED
  BY <1>1, <1>2, AnswersStep, MessagesStep, RoutedStep DEF RouteInv

\* The session of a live subscription has its route from the moment its creation is
\* recorded (create_subscription), and no late update of a deletion, a teardown or the
\* cleanup task takes it away (delete_subscriptions, teardown_session, run_cleanup), for
\* any number of calls between whose awaits the others, expiry and retirement run.  In a
\* transfer the source is live until it has been told to let go.
THEOREM LiveAlwaysRouted ==
    ASSUME "Transfer" \notin CallKinds
    PROVE  Spec => []RoutedOnceRecorded
<1>1. Init => IInv /\ BirthInv /\ ValInv /\ RouteInv
  BY InitHolds, BirthInit, ValInit, RouteInit
<1>2. IInv /\ BirthInv /\ ValInv /\ RouteInv /\ [Next]_vars => IInv' /\ BirthInv' /\ ValInv' /\ RouteInv'
  BY NextPreserves, StepOrderly, BirthStep, ValStep, RouteStep
<1>3. RouteInv => RoutedOnceRecorded
  BY DEF RouteInv
<1> QED
  BY <1>1, <1>2, <1>3, PTL DEF Spec

-----------------------------------------------------------------------------
(***************************************************************************)
(* Only a transfer puts a subscription into two sessions.                  *)
(***************************************************************************)

\* No subscription is transferred twice at the same time.
OneTransferPerSub ==
    \A c, d \in DOMAIN calls :
        calls[c].kind = "Transfer" /\ calls[d].kind = "Transfer" /\ calls[c].sub = calls[d].sub => c = d

\* A transfer that may have put its subscription into the destination.
Carrying(c) == calls[c].op \in {"Insert", "Mark", "Complete"}

TransferShape ==
    \A c \in DOMAIN calls :
        /\ PastLookup(c) => calls[c].actor = IF calls[c].op = "Insert" THEN calls[c].dest ELSE calls[c].source
        /\ Carrying(c) => calls[c].pc \in {"sent", "replied"}

\* The actor in the cache, a, may hold the subscription of transfer c at its stage: the
\* source until it has been told to let go, the destination once it has inserted a copy.
MayHold(c, a) ==
    /\ /\ calls[c].op = "Clone"
       /\ IF calls[c].pc = "replied" THEN calls[c].reply.ok
          ELSE calls[c].sub \in DOMAIN actors[calls[c].source].subs
       => a = calls[c].source
    /\ calls[c].op = "Insert" =>
         a = calls[c].source \/ (a = calls[c].dest /\ calls[c].pc = "replied" /\ calls[c].reply.ok)
    /\ calls[c].op = "Mark" =>
         a = calls[c].dest \/ (a = calls[c].source /\ (calls[c].pc = "replied" => calls[c].reply.ok))
    /\ calls[c].op = "Complete" =>
         a = calls[c].dest \/ (a = calls[c].source /\ calls[c].pc # "replied")

Confined ==
    \A c \in DOMAIN calls, s \in DOMAIN entry, id \in SubIds, a \in ActorIds :
        PastLookup(c) /\ calls[c].sub = id /\ entry[s] = a /\ Holds(a, id) => MayHold(c, a)

OneSession(id) == \A s, t \in DOMAIN entry : Holds(entry[s], id) /\ Holds(entry[t], id) => s = t

Alone == \A id \in SubIds : (\E c \in DOMAIN calls : Carrying(c) /\ calls[c].sub = id) \/ OneSession(id)

AdvInv == TransferShape /\ Confined /\ Alone

\* The holders in the cache have been there before.
Shrinks ==
    \A s \in DOMAIN entry', id \in SubIds :
        id \in DOMAIN actors'[entry'[s]].subs =>
            s \in DOMAIN entry /\ entry'[s] = entry[s] /\ entry[s] \in ActorIds /\ Holds(entry[s], id)

LEMMA HoldersShrink ==
    ASSUME IInv, EntryOK', EntryKept, \A id \in SubIds : HoldersKept(id)
    PROVE  Shrinks
<1> SUFFICES ASSUME NEW s \in DOMAIN entry', NEW id \in SubIds, id \in DOMAIN actors'[entry'[s]].subs
             PROVE  s \in DOMAIN entry /\ entry'[s] = entry[s] /\ entry[s] \in ActorIds /\ Holds(entry[s], id)
  BY DEF Shrinks
<1>1. s \in DOMAIN entry /\ entry'[s] = entry[s]
  BY DEF EntryKept
<1>2. entry'[s] \in DOMAIN actors'
  BY DEF EntryOK, ActorIds
<1> QED
  BY <1>1, <1>2 DEF HoldersKept, ActorIds

\* Two sessions that have the same actor are one.
LEMMA OneEntry ==
    ASSUME IInv, NEW s \in DOMAIN entry, NEW t \in DOMAIN entry, entry[s] = entry[t]
    PROVE  s = t
  BY Parts DEF Registry, EntriesOwn

LEMMA StaysAlone ==
    ASSUME NEW id \in SubIds, Shrinks, OneSession(id)
    PROVE  OneSession(id)'
  BY DEF OneSession, Shrinks, Holds

\* A call that a step leaves alone.
LEMMA ConfinedOther ==
    ASSUME IInv, AdvInv, Shrinks, \A id \in SubIds : HoldersKept(id), DOMAIN actors \subseteq DOMAIN actors',
           NEW c \in DOMAIN calls, c \in DOMAIN calls', calls'[c] = calls[c], PastLookup(c)',
           NEW id \in SubIds, calls'[c].sub = id,
           NEW s \in DOMAIN entry', NEW a, entry'[s] = a, id \in DOMAIN actors'[a].subs
    PROVE  MayHold(c, a)'
<1>1. s \in DOMAIN entry /\ entry[s] = a /\ a \in ActorIds /\ Holds(a, id)
  BY DEF Shrinks
<1>2. PastLookup(c) /\ calls[c].sub = id
  BY DEF PastLookup, At
<1>3. MayHold(c, a)
  BY <1>1, <1>2 DEF AdvInv, Confined
<1>4. calls[c].source \in ActorIds
  <2>1. Shaped(calls[c], Len(actors)) /\ ActorIds = 1..Len(actors) /\ Len(actors) \in Nat
    BY CallFacts
  <2> QED
    BY <1>2, <2>1 DEF Shaped, PastLookup, TransferOps, At, AdvInv, TransferShape, Carrying
<1>5. id \in DOMAIN actors'[calls[c].source].subs => id \in DOMAIN actors[calls[c].source].subs
  BY <1>4 DEF HoldersKept, Holds, ActorIds
<1> QED
  BY <1>2, <1>3, <1>5 DEF MayHold

LEMMA LosingAlone ==
    ASSUME IInv, IInv', AdvInv, Losing
    PROVE  AdvInv'
<1>1. EntryOK'
  BY DEF IInv, Shape, TypeOK, EntryOK
<1>2. Shrinks /\ DOMAIN actors \subseteq DOMAIN actors' /\ UNCHANGED calls /\ \A id \in SubIds : HoldersKept(id)
  BY <1>1, HoldersShrink DEF Losing, SubsKept
<1>3. TransferShape'
  BY <1>2 DEF AdvInv, TransferShape, PastLookup, Carrying, At
<1>4. Confined'
  BY <1>2, ConfinedOther DEF Confined, Holds
<1>5. Alone'
  <2> SUFFICES ASSUME NEW id \in SubIds, ~\E c \in DOMAIN calls' : Carrying(c)' /\ calls'[c].sub = id
               PROVE  OneSession(id)'
    BY DEF Alone
  <2>1. OneSession(id)
    BY <1>2 DEF AdvInv, Alone, Carrying
  <2> QED
    BY <1>2, <2>1, StaysAlone
<1> QED
  BY <1>3, <1>4, <1>5 DEF AdvInv

LEMMA BegunAlone ==
    ASSUME IInv, IInv', AdvInv, NEW c, Begun(c)
    PROVE  AdvInv'
<1>1. EntryOK'
  BY DEF IInv, Shape, TypeOK, EntryOK
<1>2. /\ DOMAIN actors \subseteq DOMAIN actors' /\ \A id \in SubIds : HoldersKept(id)
      /\ \A d \in DOMAIN calls : d \in DOMAIN calls' /\ calls'[d] = calls[d]
      /\ \A d \in DOMAIN calls' : d # c => d \in DOMAIN calls
      /\ ~PastLookup(c)' /\ ~Carrying(c)'
  BY SameHolders DEF Begun, OnlyCall, ActorsSame, PastLookup, Carrying, TransferOps, At
<1>3. Shrinks
  BY <1>1, <1>2, HoldersShrink DEF Begun
<1>4. TransferShape'
  BY <1>2 DEF AdvInv, TransferShape, PastLookup, Carrying, At
<1>5. Confined'
  BY <1>2, <1>3, ConfinedOther DEF Confined, Holds
<1>6. Alone'
  <2> SUFFICES ASSUME NEW id \in SubIds, ~\E d \in DOMAIN calls' : Carrying(d)' /\ calls'[d].sub = id
               PROVE  OneSession(id)'
    BY DEF Alone
  <2>1. OneSession(id)
    BY <1>2 DEF AdvInv, Alone, Carrying
  <2> QED
    BY <1>3, <2>1, StaysAlone
<1> QED
  BY <1>4, <1>5, <1>6 DEF AdvInv

LEMMA StoppedAlone ==
    ASSUME IInv, IInv', AdvInv, NEW a \in ActorIds, StoppedAt(a)
    PROVE  AdvInv'
<1>1. EntryOK'
  BY DEF IInv, Shape, TypeOK, EntryOK
<1>2. /\ DOMAIN actors \subseteq DOMAIN actors' /\ (\A id \in SubIds : HoldersKept(id)) /\ DOMAIN calls' = DOMAIN calls
      /\ \A c \in DOMAIN calls :
           calls'[c] = calls[c] \/ (calls[c].pc = "sent" /\ calls[c].actor = a /\ FailedAs(calls'[c], calls[c]))
      /\ UNCHANGED entry /\ Stopping(a)
  BY SameHolders DEF StoppedAt, ActorsSame
<1>3. Shrinks
  BY <1>1, <1>2, SameEntry, HoldersShrink
<1>4. \A s \in DOMAIN entry : entry[s] # a
  BY <1>2, Parts DEF Registry, EntriesAlive
<1>5. TransferShape'
  BY <1>2 DEF AdvInv, TransferShape, PastLookup, Carrying, At, FailedAs
<1>6. Confined'
  <2> SUFFICES ASSUME NEW c \in DOMAIN calls', NEW s \in DOMAIN entry', NEW id \in SubIds, NEW b,
                      PastLookup(c)', calls'[c].sub = id, entry'[s] = b, id \in DOMAIN actors'[b].subs
               PROVE  MayHold(c, b)'
    BY DEF Confined, Holds
  <2>1. CASE calls'[c] = calls[c]
    BY <1>2, <1>3, <2>1, ConfinedOther
  <2>2. CASE calls[c].pc = "sent" /\ calls[c].actor = a /\ FailedAs(calls'[c], calls[c])
    <3>1. PastLookup(c) /\ calls[c].sub = id
      BY <2>2 DEF PastLookup, At, FailedAs
    <3>2. s \in DOMAIN entry /\ entry[s] = b /\ b \in ActorIds /\ Holds(b, id)
      BY <1>3 DEF Shrinks
    <3>3. MayHold(c, b) /\ b # a
      BY <1>2, <1>4, <3>1, <3>2 DEF AdvInv, Confined
    <3>4. a = IF calls[c].op = "Insert" THEN calls[c].dest ELSE calls[c].source
      BY <1>2, <2>2, <3>1 DEF AdvInv, TransferShape
    <3> QED
      BY <2>2, <3>3, <3>4 DEF MayHold, FailedAs
  <2> QED
    BY <1>2, <2>1, <2>2
<1>7. Alone'
  <2> SUFFICES ASSUME NEW id \in SubIds, ~\E c \in DOMAIN calls' : Carrying(c)' /\ calls'[c].sub = id
               PROVE  OneSession(id)'
    BY DEF Alone
  <2>1. OneSession(id)
    BY <1>2 DEF AdvInv, Alone, Carrying, FailedAs
  <2> QED
    BY <1>3, <2>1, StaysAlone
<1> QED
  BY <1>5, <1>6, <1>7 DEF AdvInv

LEMMA AnsweredAlone ==
    ASSUME IInv, IInv', BirthInv, AdvInv, OneTransferPerSub, NEW a \in ActorIds, NEW c, NEW d, AnswersCall(a, c, d)
    PROVE  AdvInv'
<1>1. PICK call : call = calls[c]
  OBVIOUS
<1>2. /\ c \in DOMAIN calls /\ call.pc = "sent" /\ call.actor = a /\ Handled(d, Drained(actors[a]), call)
      /\ actors'[a].subs = d.act.subs
      /\ DOMAIN actors' = DOMAIN actors /\ \A b \in DOMAIN actors : b # a => actors'[b] = actors[b]
      /\ DOMAIN calls' = DOMAIN calls /\ (\A e \in DOMAIN calls : e # c => calls'[e] = calls[e])
      /\ calls'[c].reply = d.reply /\ calls'[c].op = call.op /\ calls'[c].sub = call.sub
      /\ calls'[c].actor = call.actor /\ calls'[c].source = call.source /\ calls'[c].dest = call.dest
      /\ calls'[c].pc = "replied" /\ UNCHANGED entry
  BY <1>1 DEF AnswersCall, OnlyCall
<1>3. \A s \in DOMAIN entry : entry[s] \in DOMAIN actors /\ entry[s] \in ActorIds
  BY Parts DEF EntryOK, ActorIds
<1>4. DOMAIN Drained(actors[a]).subs = DOMAIN actors[a].subs
  BY Parts, ActorFacts, DrainedSubs
<1>5. TransferShape'
  BY <1>1, <1>2 DEF AdvInv, TransferShape, PastLookup, Carrying, At
<1>6. ASSUME NEW e \in DOMAIN calls, e # c, PastLookup(e), NEW id \in SubIds, calls[e].sub = id,
             NEW b \in DOMAIN actors, id \in DOMAIN actors'[b].subs
      PROVE  Holds(b, id)
  <2> SUFFICES ASSUME b = a, id = call.sub, call.op \in {"Create", "Insert"}
               PROVE  FALSE
    BY <1>1, <1>2, <1>6, AnsweredHolders
  <2>1. CASE call.op = "Create"
    <3>1. Unborn(id)
      BY <1>1, <1>2, <2>1, LimitFacts DEF BirthInv, CreatesOwn, Creating
    <3> QED
      BY <1>6, <3>1 DEF Unborn
  <2>2. CASE call.op = "Insert"
    <3>1. calls[c].kind = "Transfer" /\ calls[e].kind = "Transfer"
      BY <1>1, <1>2, <1>6, <2>2 DEF BirthInv, OfTransfer, TransferOps, PastLookup
    <3> QED
      BY <1>1, <1>2, <1>6, <3>1 DEF OneTransferPerSub
  <2> QED
    BY <2>1, <2>2
<1>7. Confined'
  <2> SUFFICES ASSUME NEW e \in DOMAIN calls', NEW s \in DOMAIN entry', NEW id \in SubIds, NEW b,
                      PastLookup(e)', calls'[e].sub = id, entry'[s] = b, id \in DOMAIN actors'[b].subs
               PROVE  MayHold(e, b)'
    BY DEF Confined, Holds
  <2>1. s \in DOMAIN entry /\ entry[s] = b /\ b \in DOMAIN actors /\ b \in ActorIds
    BY <1>2, <1>3
  <2>2. CASE e # c
    <3>1. e \in DOMAIN calls /\ calls'[e] = calls[e] /\ PastLookup(e) /\ calls[e].sub = id
      BY <1>2, <2>2 DEF PastLookup, At
    <3>2. Holds(b, id)
      BY <1>6, <2>1, <2>2, <3>1
    <3>3. MayHold(e, b)
      BY <2>1, <3>1, <3>2 DEF AdvInv, Confined
    <3>4. calls[e].source \in DOMAIN actors
      <4>1. Shaped(calls[e], Len(actors)) /\ ActorIds = 1..Len(actors) /\ Len(actors) \in Nat
        BY <3>1, CallFacts
      <4> QED
        BY <3>1, <4>1 DEF Shaped, PastLookup, TransferOps, At, AdvInv, TransferShape, Carrying, ActorIds
    <3>5. id \in DOMAIN actors'[calls[e].source].subs => id \in DOMAIN actors[calls[e].source].subs
      BY <1>6, <2>2, <3>1, <3>4 DEF Holds
    <3> QED
      BY <3>1, <3>3, <3>5 DEF MayHold
  <2>3. CASE e = c
    <3>1. PastLookup(c) /\ call.sub = id /\ call.op \in TransferOps
      BY <1>1, <1>2, <2>3 DEF PastLookup, At
    <3>2. a = IF call.op = "Insert" THEN call.dest ELSE call.source
      BY <1>1, <1>2, <3>1 DEF AdvInv, TransferShape
    <3>3. Holds(b, id) => MayHold(c, b)
      BY <1>1, <1>2, <2>1, <3>1 DEF AdvInv, Confined
    <3>4. Holds(b, id) \/ (b = a /\ d.reply.ok /\ call.op = "Insert")
      BY <1>1, <1>2, <2>1, <3>1, AnsweredHolders DEF TransferOps
    <3>5. CASE call.op = "Clone"
      <4>1. d.reply.ok => id \in DOMAIN actors[a].subs
        BY <1>2, <1>4, <3>1, <3>5 DEF Handled
      <4> QED
        BY <1>1, <1>2, <2>3, <3>1, <3>2, <3>3, <3>4, <3>5, <4>1 DEF MayHold
    <3>6. CASE call.op = "Insert"
      BY <1>1, <1>2, <2>3, <3>2, <3>3, <3>4, <3>6 DEF MayHold
    <3>7. CASE call.op \in {"Mark", "Complete"}
      <4>1. b = a => call.op = "Mark" /\ d.reply.ok
        BY <1>2, <3>1, <3>7 DEF Handled
      <4> QED
        BY <1>1, <1>2, <2>3, <3>2, <3>3, <3>4, <3>7, <4>1 DEF MayHold
    <3> QED
      BY <3>1, <3>5, <3>6, <3>7 DEF TransferOps
  <2> QED
    BY <2>2, <2>3
<1>8. Alone'
  <2> SUFFICES ASSUME NEW id \in SubIds, ~\E e \in DOMAIN calls' : Carrying(e)' /\ calls'[e].sub = id
               PROVE  OneSession(id)'
    BY DEF Alone
  <2>1. ~\E e \in DOMAIN calls : Carrying(e) /\ calls[e].sub = id
    BY <1>1, <1>2 DEF Carrying
  <2>2. OneSession(id)
    BY <2>1 DEF AdvInv, Alone
  <2>3. ASSUME NEW b \in DOMAIN actors, id \in DOMAIN actors'[b].subs
        PROVE  Holds(b, id) \/ (b = a /\ \A x \in ActorIds : ~Holds(x, id))
    <3> SUFFICES ASSUME b = a, id = call.sub, call.op \in {"Create", "Insert"}
                 PROVE  \A x \in ActorIds : ~Holds(x, id)
      BY <1>1, <1>2, <2>3, AnsweredHolders
    <3>1. call.op = "Create"
      BY <1>1, <1>2, <2>1 DEF Carrying
    <3>2. Unborn(id)
      BY <1>1, <1>2, <3>1, LimitFacts DEF BirthInv, CreatesOwn, Creating
    <3> QED
      BY <3>2 DEF Unborn
  <2> SUFFICES ASSUME NEW s \in DOMAIN entry, NEW t \in DOMAIN entry,
                      id \in DOMAIN actors'[entry[s]].subs, id \in DOMAIN actors'[entry[t]].subs
               PROVE  s = t
    BY <1>2 DEF OneSession, Holds
  <2>4. CASE \A x \in ActorIds : ~Holds(x, id)
    <3>1. entry[s] = a /\ entry[t] = a
      BY <1>3, <2>3, <2>4
    <3> QED
      BY <3>1, OneEntry
  <2>5. CASE ~\A x \in ActorIds : ~Holds(x, id)
    <3>1. Holds(entry[s], id) /\ Holds(entry[t], id)
      BY <1>3, <2>3, <2>5
    <3> QED
      BY <2>2, <3>1 DEF OneSession
  <2> QED
    BY <2>4, <2>5
<1> QED
  BY <1>5, <1>7, <1>8 DEF AdvInv

\* A transfer has asked its source for a copy.
Asked(c) ==
    /\ calls[c].op = "Clone" /\ calls[c].pc = "send" /\ calls'[c].op = "Clone"
    /\ calls'[c].sub = calls[c].sub /\ calls'[c].actor = calls[c].actor
    /\ calls'[c].source = calls[c].source /\ calls'[c].dest = calls[c].dest
    /\ calls'[c].pc = "replied" => ~calls'[c].reply.ok

LEMMA SendAsks ==
    ASSUME IInv, NEW c \in DOMAIN calls, Send(c), calls[c].op = "Clone"
    PROVE  Asked(c)
<1>1. PICK old : old = calls[c]
  OBVIOUS
<1>2. old \in Call /\ Shaped(old, Len(actors)) /\ ActorIds = 1..Len(actors) /\ Len(actors) \in Nat
  BY <1>1, CallFacts
<1>3. old.pc = "send" /\ SendCommand(c, old)
  BY <1>1 DEF Send
<1>4. old.actor \in ActorIds
  BY <1>2, <1>3 DEF Shaped
<1>5. /\ ActorsSame /\ OnlyCall(c) /\ DOMAIN calls' = DOMAIN calls
      /\ \E new \in Call :
           /\ calls'[c] = new
           /\ \/ new = [old EXCEPT !.pc = "sent"]
              \/ new = [old EXCEPT !.pc = "replied", !.reply = Failed]
  BY <1>2, <1>3, <1>4, CommandPosted
<1>6. PICK new \in Call : /\ calls'[c] = new
                          /\ \/ new = [old EXCEPT !.pc = "sent"]
                             \/ new = [old EXCEPT !.pc = "replied", !.reply = Failed]
  BY <1>5
<1>7. ~Failed.ok
  BY DEF Failed
<1>8. /\ new.op = old.op /\ new.sub = old.sub /\ new.actor = old.actor /\ new.source = old.source
      /\ new.dest = old.dest /\ (new.pc = "replied" => ~new.reply.ok)
  BY <1>2, <1>6, <1>7 DEF Call
<1> QED
  BY <1>1, <1>3, <1>6, <1>8 DEF Asked

\* The stages of a transfer.
LEMMA TransferStages ==
    ASSUME IInv, TransferShape, NEW c \in DOMAIN calls, Step(c), calls[c].op \in TransferOps
    PROVE  /\ c \in DOMAIN calls' =>
                \/ Asked(c)
                \/ calls[c].op = "Clone" /\ SourceKnown(c)
                \/ calls[c].pc = "replied" /\ calls[c].op = "Clone" /\ Commanded(c, "Insert", calls[c].dest)
                \/ calls[c].pc = "replied" /\ calls[c].op = "Insert" /\ Commanded(c, "Mark", calls[c].source)
                \/ calls[c].pc = "replied" /\ calls[c].op = "Mark" /\ Commanded(c, "Complete", calls[c].source)
           /\ c \notin DOMAIN calls' /\ Carrying(c) =>
                calls[c].pc = "replied" /\ (~calls[c].reply.ok \/ calls[c].op = "Complete")
<1>1. CASE Send(c)
  <2>1. calls[c].pc = "send" /\ DOMAIN calls' = DOMAIN calls
    BY <1>1 DEF Send, SendCommand
  <2>2. calls[c].op = "Clone"
    BY <2>1 DEF TransferShape, Carrying, TransferOps
  <2> QED
    BY <1>1, <2>1, <2>2, SendAsks
<1>2. CASE LookupSource(c)
  BY <1>2, LookupSourceEffects DEF LookupSource, At, Carrying
<1>3. CASE TransferCloned(c) \/ TransferInserted(c) \/ TransferMarked(c) \/ TransferCompleted(c)
  BY <1>3, TransferEffects
<1> QED
  BY <1>1, <1>2, <1>3 DEF Step, LookupCreate, FinishCreate, LookupCreateItem, FinishCreateItem, LookupIds, FinishIds,
       LookupDelete, FinishDelete, LookupTeardown, FinishTeardown, At, TransferOps

\* A transfer that has failed, or is complete, leaves its subscription to one session.
LEMMA EndsAlone ==
    ASSUME IInv, AdvInv, NEW c \in DOMAIN calls, Carrying(c), calls[c].pc = "replied",
           ~calls[c].reply.ok \/ calls[c].op = "Complete", NEW id \in SubIds, calls[c].sub = id
    PROVE  OneSession(id)
<1>1. PastLookup(c)
  BY DEF PastLookup, Carrying, TransferOps, At
<1>2. \A s \in DOMAIN entry : entry[s] \in ActorIds
  BY Parts DEF EntryOK
<1>3. \A s \in DOMAIN entry : Holds(entry[s], id) => MayHold(c, entry[s])
  BY <1>1, <1>2 DEF AdvInv, Confined
<1>4. \A s \in DOMAIN entry : Holds(entry[s], id) =>
        entry[s] = IF calls[c].op = "Insert" THEN calls[c].source ELSE calls[c].dest
  BY <1>3 DEF MayHold, Carrying
<1> QED
  BY <1>4, OneEntry DEF OneSession

LEMMA EffectsAlone ==
    ASSUME IInv, IInv', BirthInv, AdvInv, OneTransferPerSub, NEW c \in DOMAIN calls, Step(c), Effects(c)
    PROVE  AdvInv'
<1>1. EntryOK'
  BY DEF IInv, Shape, TypeOK, EntryOK
<1>2. /\ DOMAIN actors \subseteq DOMAIN actors' /\ (\A id \in SubIds : HoldersKept(id))
      /\ \A d \in DOMAIN calls : d # c => d \in DOMAIN calls' /\ calls'[d] = calls[d]
      /\ \A d \in DOMAIN calls' : d \in DOMAIN calls
      /\ c \in DOMAIN calls' => calls'[c].sub = calls[c].sub
                                /\ (calls'[c].op \in TransferOps => calls[c].op \in TransferOps)
  BY SameHolders DEF Effects, OnlyCall, ActorsSame, Moved
<1>3. Shrinks
  BY <1>1, <1>2, HoldersShrink DEF Effects
<1>4. c \in DOMAIN calls' /\ calls[c].op \in TransferOps =>
        \/ Asked(c)
        \/ calls[c].op = "Clone" /\ SourceKnown(c)
        \/ calls[c].pc = "replied" /\ calls[c].op = "Clone" /\ Commanded(c, "Insert", calls[c].dest)
        \/ calls[c].pc = "replied" /\ calls[c].op = "Insert" /\ Commanded(c, "Mark", calls[c].source)
        \/ calls[c].pc = "replied" /\ calls[c].op = "Mark" /\ Commanded(c, "Complete", calls[c].source)
  BY TransferStages DEF AdvInv
<1>5. TransferShape'
  <2> SUFFICES ASSUME NEW d \in DOMAIN calls'
               PROVE  /\ PastLookup(d)' => calls'[d].actor = IF calls'[d].op = "Insert" THEN calls'[d].dest ELSE calls'[d].source
                      /\ Carrying(d)' => calls'[d].pc \in {"sent", "replied"}
    BY DEF TransferShape
  <2>1. CASE d # c
    BY <1>2, <2>1 DEF AdvInv, TransferShape, PastLookup, Carrying, At
  <2>2. CASE d = c
    <3>1. CASE calls'[c].op \notin TransferOps
      BY <2>2, <3>1 DEF PastLookup, Carrying, TransferOps
    <3>2. CASE Asked(c)
      BY <2>2, <3>2 DEF AdvInv, TransferShape, Asked, PastLookup, Carrying, At
    <3>3. CASE SourceKnown(c)
      BY <2>2, <3>3 DEF SourceKnown, Carrying
    <3>4. CASE \/ Commanded(c, "Insert", calls[c].dest)
               \/ Commanded(c, "Mark", calls[c].source) \/ Commanded(c, "Complete", calls[c].source)
      BY <2>2, <3>4 DEF Commanded
    <3> QED
      BY <1>2, <1>4, <2>2, <3>1, <3>2, <3>3, <3>4
  <2> QED
    BY <2>1, <2>2
<1>6. Confined'
  <2> SUFFICES ASSUME NEW d \in DOMAIN calls', NEW s \in DOMAIN entry', NEW id \in SubIds, NEW b,
                      PastLookup(d)', calls'[d].sub = id, entry'[s] = b, id \in DOMAIN actors'[b].subs
               PROVE  MayHold(d, b)'
    BY DEF Confined, Holds
  <2>1. CASE d # c
    BY <1>2, <1>3, <2>1, ConfinedOther
  <2>2. CASE d = c
    <3>1. s \in DOMAIN entry /\ entry[s] = b /\ b \in ActorIds /\ Holds(b, id)
      BY <1>3 DEF Shrinks
    <3>2. calls[c].sub = id /\ calls[c].op \in TransferOps
      BY <1>2, <2>2 DEF PastLookup
    <3>3. PastLookup(c) => MayHold(c, b)
      BY <3>1, <3>2 DEF AdvInv, Confined
    <3>4. actors[b].alive
      BY <3>1, Parts DEF Registry, EntriesAlive
    <3>5. CASE Asked(c)
      <4>1. MayHold(c, b)
        BY <3>2, <3>3, <3>5 DEF Asked, PastLookup, At
      <4>2. calls[c].source \in ActorIds
        <5>1. Shaped(calls[c], Len(actors)) /\ ActorIds = 1..Len(actors) /\ Len(actors) \in Nat
          BY CallFacts
        <5> QED
          BY <3>5, <5>1 DEF Shaped, Asked
      <4>3. id \in DOMAIN actors'[calls[c].source].subs => id \in DOMAIN actors[calls[c].source].subs
        BY <1>2, <4>2 DEF HoldersKept, Holds, ActorIds
      <4> QED
        BY <2>2, <3>2, <3>5, <4>1, <4>3 DEF MayHold, Asked
    <3>6. CASE calls[c].op = "Clone" /\ SourceKnown(c)
      <4>1. PICK t, a : t = owner[id] /\ a = entry[t]
        OBVIOUS
      <4>2. t \in DOMAIN entry /\ calls'[c].source = a /\ calls'[c].op = "Clone" /\ calls'[c].pc # "replied"
        BY <3>2, <3>6, <4>1 DEF SourceKnown
      <4>3. ASSUME id \in DOMAIN actors'[a].subs
            PROVE  b = a
        <5>1. a \in DOMAIN actors'
          BY <1>2, <4>1, <4>2, Parts DEF EntryOK, ActorIds
        <5>2. Holds(a, id)
          BY <1>2, <4>3, <5>1 DEF HoldersKept
        <5>3. ~\E e \in DOMAIN calls : Carrying(e) /\ calls[e].sub = id
          <6> SUFFICES ASSUME NEW e \in DOMAIN calls, Carrying(e), calls[e].sub = id
                       PROVE  FALSE
            OBVIOUS
          <6>1. calls[e].kind = "Transfer" /\ calls[c].kind = "Transfer"
            BY <3>2 DEF BirthInv, OfTransfer, Carrying, TransferOps
          <6>2. e = c
            BY <3>2, <6>1 DEF OneTransferPerSub
          <6> QED
            BY <3>6, <6>2 DEF Carrying
        <5>4. OneSession(id)
          BY <5>3 DEF AdvInv, Alone
        <5> QED
          BY <3>1, <4>1, <4>2, <5>2, <5>4 DEF OneSession
      <4> QED
        BY <2>2, <4>2, <4>3 DEF MayHold
    <3>7. CASE calls[c].pc = "replied" /\ calls[c].op = "Clone" /\ Commanded(c, "Insert", calls[c].dest)
      <4>1. b = calls[c].source
        BY <3>2, <3>3, <3>7 DEF PastLookup, At, MayHold, Commanded
      <4> QED
        BY <2>2, <3>7, <4>1 DEF MayHold, Commanded
    <3>8. CASE calls[c].pc = "replied" /\ calls[c].op = "Insert" /\ Commanded(c, "Mark", calls[c].source)
      <4>1. b = calls[c].source \/ b = calls[c].dest
        BY <3>2, <3>3, <3>8 DEF PastLookup, At, MayHold
      <4> QED
        BY <2>2, <3>4, <3>8, <4>1 DEF MayHold, Commanded
    <3>9. CASE calls[c].pc = "replied" /\ calls[c].op = "Mark" /\ Commanded(c, "Complete", calls[c].source)
      <4>1. b = calls[c].source \/ b = calls[c].dest
        BY <3>2, <3>3, <3>9 DEF PastLookup, At, MayHold
      <4> QED
        BY <2>2, <3>4, <3>9, <4>1 DEF MayHold, Commanded
    <3> QED
      BY <1>4, <2>2, <3>2, <3>5, <3>6, <3>7, <3>8, <3>9
  <2> QED
    BY <2>1, <2>2
<1>7. Alone'
  <2> SUFFICES ASSUME NEW id \in SubIds, ~\E d \in DOMAIN calls' : Carrying(d)' /\ calls'[d].sub = id
               PROVE  OneSession(id)
    BY <1>3, StaysAlone DEF Alone
  <2>1. \A d \in DOMAIN calls : Carrying(d) /\ calls[d].sub = id => d = c
    BY <1>2 DEF Carrying
  <2>2. CASE Carrying(c) /\ calls[c].sub = id
    <3>1. calls[c].op \in TransferOps /\ calls[c].op # "Clone"
      BY <2>2 DEF Carrying, TransferOps
    <3>2. c \notin DOMAIN calls'
      BY <1>2, <1>4, <2>2, <3>1 DEF Carrying, Asked, Commanded
    <3>3. calls[c].pc = "replied" /\ (~calls[c].reply.ok \/ calls[c].op = "Complete")
      BY <2>2, <3>1, <3>2, TransferStages DEF AdvInv
    <3> QED
      BY <2>2, <3>3, EndsAlone
  <2>3. CASE ~(Carrying(c) /\ calls[c].sub = id)
    BY <2>1, <2>3 DEF AdvInv, Alone
  <2> QED
    BY <2>2, <2>3
<1> QED
  BY <1>5, <1>6, <1>7 DEF AdvInv

LEMMA AdvInit == Init => AdvInv
<1> SUFFICES ASSUME Init
             PROVE  AdvInv
  OBVIOUS
<1>1. DOMAIN calls = {} /\ DOMAIN entry = {}
  BY DEF Init
<1> QED
  BY <1>1 DEF AdvInv, TransferShape, Confined, Alone, OneSession

LEMMA AdvStep ==
    ASSUME IInv, IInv', BirthInv, AdvInv, OneTransferPerSub, [Next]_vars
    PROVE  AdvInv'
  BY Kinds, BegunAlone, EffectsAlone, AnsweredAlone, StoppedAlone, LosingAlone

\* Two sessions hold, and advance, the same subscription only while it is being transferred
\* (transfer, handle_transfer_insert, handle_transfer_complete), provided that nobody
\* transfers it a second time meanwhile.
THEOREM AlwaysAdvancedOnce == Spec /\ []OneTransferPerSub => []AdvancedOnce
<1>1. Init => IInv /\ BirthInv /\ AdvInv
  BY InitHolds, BirthInit, AdvInit
<1>2. IInv /\ BirthInv /\ AdvInv /\ OneTransferPerSub /\ [Next]_vars => IInv' /\ BirthInv' /\ AdvInv'
  BY NextPreserves, StepOrderly, BirthStep, AdvStep
<1>3. BirthInv /\ AdvInv => AdvancedOnce
  <2> SUFFICES ASSUME BirthInv, AdvInv, NEW s \in DOMAIN entry, NEW t \in DOMAIN entry, NEW id \in SubIds,
                      s # t, Holds(entry[s], id), Holds(entry[t], id)
               PROVE  \E c \in DOMAIN calls : calls[c].kind = "Transfer" /\ calls[c].sub = id
    BY DEF AdvancedOnce, Holds
  <2>1. PICK c \in DOMAIN calls : Carrying(c) /\ calls[c].sub = id
    BY DEF AdvInv, Alone, OneSession
  <2> QED
    BY <2>1 DEF BirthInv, OfTransfer, Carrying, TransferOps
<1> QED
  BY <1>1, <1>2, <1>3, PTL DEF Spec

=============================================================================
