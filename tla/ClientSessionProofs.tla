------------------------ MODULE ClientSessionProofs -------------------------
(***************************************************************************)
(* Proofs about ClientSession for every bound: no acknowledgement is       *)
(* forgotten on a connection, and the client keeps the subscriptions its   *)
(* users want.  The first needs of the second what a user may call.        *)
(***************************************************************************)
EXTENDS ClientSession, SequenceTheorems, TLAPS

-----------------------------------------------------------------------------
(***************************************************************************)
(* The inductive invariant of the acknowledgements.                        *)
(***************************************************************************)

\* A notification: subscription and sequence number.
Notes == Nat \X Nat

PublishRequest ==
    [at : {"new", "sent", "done"}, acks : SUBSET Notes,
     result : {"none", "ok", "dead", "noSubscription", "tooMany", "failed"},
     sub : Nat, seq : Nat, more : BOOLEAN]

AcksTyped == inflight \in Seq(PublishRequest) /\ acks \in SUBSET Notes

ServerTyped ==
    /\ served \subseteq SubIds /\ orphans \subseteq SubIds /\ sent \in [SubIds -> Nat]
    /\ created \in 0..MaxSubs

\* Only a request that was sent and has no good answer carries acknowledgements.
Light(r) == r.at = "new" \/ (r.at = "done" /\ r.result = "ok") => r.acks = {}
LoadsKnown == \A i \in DOMAIN inflight : Light(inflight[i])

\* The response being processed is a good one, of a request still in the list.
DeliveryKnown ==
    delivering # NoDelivery =>
        /\ loop = "connected" /\ delivering.at \in DOMAIN inflight
        /\ inflight[delivering.at].at = "done" /\ inflight[delivering.at].result = "ok"

\* A connection begins with nothing received.
BeginsEmpty == loop \notin {"connected", "ended"} => received = {}

AcksInv == AcksTyped /\ ServerTyped /\ LoadsKnown /\ DeliveryKnown /\ BeginsEmpty /\ AcksKept

-----------------------------------------------------------------------------
(***************************************************************************)
(* The inductive invariant of the subscriptions.                           *)
(***************************************************************************)

SubState == [on : BOOLEAN, placeholder : BOOLEAN]

UserCall == [op : {"none", "create", "delete", "mode", "disconnect"}, sub : 0..created,
             heir : 0..created, on : BOOLEAN, at : {"none", "sent", "good", "bad"}]

SubsTyped ==
    /\ created \in 0..MaxSubs
    /\ DOMAIN subs \subseteq 1..created /\ \A s \in DOMAIN subs : subs[s] \in SubState
    /\ wanted \subseteq 1..created
    /\ mode \in [SubIds -> BOOLEAN]
    /\ moving \in [id : 0..created, on : BOOLEAN]
    /\ call \in UserCall /\ (call.op = "none" => call.at = "none")

\* The subscription being recreated is out of the table, in the mode its users set
\* unless they set it meanwhile.
MovingOut ==
    moving # NoMove =>
        /\ moving.id # 0 /\ moving.id \notin DOMAIN subs
        /\ moving.on = mode[moving.id] \/ moving.id \in missed

\* A subscription that has a new id is no longer anywhere under the one a call names.
HeirKnown ==
    call.heir # call.sub =>
        call.sub # 0 /\ call.sub \notin DOMAIN subs /\ call.sub # moving.id

\* The subscription a user's call has just created is nowhere yet.
CreatedFresh ==
    call.op = "create" /\ call.at = "good" =>
        /\ call.sub # 0 /\ call.sub \notin DOMAIN subs /\ call.sub # moving.id
        /\ mode[call.sub] = TRUE

\* Nobody has set the mode of a subscription that does not exist.
ModeFresh == \A i \in SubIds : i > created => mode[i] = TRUE

SubsInv == SubsTyped /\ MovingOut /\ HeirKnown /\ CreatedFresh /\ ModeFresh /\ SubscriptionsKept

-----------------------------------------------------------------------------
(***************************************************************************)
(* The subscriptions.                                                      *)
(***************************************************************************)

table == <<created, subs, wanted, mode, moving, lost, revived, missed>>

LEMMA LimitFacts ==
    /\ MaxSubs \in Nat /\ MaxNotes \in Nat /\ SubIds \subseteq Nat /\ ~(0 \in SubIds)
    /\ \A n \in 0..MaxSubs : n \in Nat /\ 1..n \subseteq SubIds
  BY ClientConstants DEF SubIds

LEMMA SubsFacts ==
    ASSUME SubsInv
    PROVE  SubsTyped /\ MovingOut /\ HeirKnown /\ CreatedFresh /\ ModeFresh /\ SubscriptionsKept
  BY DEF SubsInv

LEMMA SubsNext ==
    ASSUME SubsTyped', MovingOut', HeirKnown', CreatedFresh', ModeFresh', SubscriptionsKept'
    PROVE  SubsInv'
  BY DEF SubsInv

LEMMA SubsFrame ==
    ASSUME SubsInv, UNCHANGED <<table, call>>
    PROVE  SubsInv'
  BY DEF SubsInv, SubsTyped, UserCall, MovingOut, HeirKnown, CreatedFresh, ModeFresh, SubscriptionsKept, table

LEMMA NoCallTyped ==
    ASSUME SubsTyped
    PROVE  NoCall \in UserCall /\ ~(NoCall.op = "create") /\ NoCall.at = "none" /\ NoCall.heir = NoCall.sub
<1>1. 0 \in 0..created
  BY LimitFacts DEF SubsTyped
<1> QED
  BY <1>1 DEF NoCall, UserCall

\* Only the user's call goes on, and it has not created a subscription.
LEMMA CallGoesOn ==
    ASSUME SubsInv, UNCHANGED table, call' \in UserCall, call'.op = "none" => call'.at = "none",
           ~(call'.op = "create" /\ call'.at = "good"), HeirKnown'
    PROVE  SubsInv'
<1>1. SubsTyped /\ MovingOut /\ HeirKnown /\ CreatedFresh /\ ModeFresh /\ SubscriptionsKept
  BY SubsFacts
<1>2. UNCHANGED created
  BY DEF table
<1>3. SubsTyped'
  BY <1>1, <1>2 DEF SubsTyped, UserCall, table
<1>4. MovingOut' /\ ModeFresh' /\ SubscriptionsKept'
  BY <1>1 DEF MovingOut, ModeFresh, SubscriptionsKept, table
<1>5. CreatedFresh'
  BY DEF CreatedFresh
<1> QED
  BY <1>3, <1>4, <1>5, SubsNext

LEMMA CallBeginKeeps ==
    ASSUME SubsInv, CallBegin
    PROVE  SubsInv'
<1>1. SubsTyped
  BY SubsFacts
<1>2. PICK op \in {"create", "delete", "mode", "disconnect"} :
        \E s \in wanted \cup {0}, on \in BOOLEAN :
          call' = [op |-> op, sub |-> s, heir |-> s, on |-> on, at |-> "sent"]
  BY DEF CallBegin
<1>3. PICK s \in wanted \cup {0}, on \in BOOLEAN :
        call' = [op |-> op, sub |-> s, heir |-> s, on |-> on, at |-> "sent"]
  BY <1>2
<1>4. s \in 0..created
  BY <1>1, <1>3, LimitFacts DEF SubsTyped
<1>5. call' \in UserCall /\ call'.at = "sent" /\ call'.op # "none" /\ call'.heir = call'.sub
  BY <1>3, <1>4 DEF UserCall
<1>6. UNCHANGED table
  BY DEF CallBegin, table, connecting, state, history
<1>7. HeirKnown'
  BY <1>5 DEF HeirKnown
<1> QED
  BY <1>5, <1>6, <1>7, CallGoesOn

LEMMA CallFailsKeeps ==
    ASSUME SubsInv, CallFails \/ FinishDisconnect
    PROVE  SubsInv'
<1>1. SubsTyped
  BY SubsFacts
<1>2. call' = NoCall /\ UNCHANGED table
  BY DEF CallFails, FinishDisconnect, table, connecting, state, counts, history
<1>3. HeirKnown'
  BY <1>1, <1>2, NoCallTyped DEF HeirKnown
<1> QED
  BY <1>1, <1>2, <1>3, NoCallTyped, CallGoesOn

LEMMA CallServedKeeps ==
    ASSUME SubsInv, CallServed
    PROVE  SubsInv'
<1>1. SubsTyped /\ MovingOut /\ HeirKnown /\ CreatedFresh /\ ModeFresh /\ SubscriptionsKept
  BY SubsFacts
<1>2. call \in UserCall /\ (call.op = "none" => call.at = "none")
  BY <1>1 DEF SubsTyped
<1>3. UNCHANGED <<subs, wanted, mode, moving, lost, revived, missed>> /\ call.at = "sent"
  BY DEF CallServed, connecting, state, history
<1>4. CASE call.op = "create"
  <2>1. /\ created < MaxSubs /\ created' = created + 1
        /\ call' = [call EXCEPT !.at = "good", !.sub = created + 1, !.heir = created + 1]
    BY <1>4 DEF CallServed
  <2>2. /\ created \in Nat /\ created' \in 0..MaxSubs /\ 1..created \subseteq 1..created'
        /\ 0..created \subseteq 0..created' /\ created + 1 \in 0..created' /\ created + 1 \in SubIds
        /\ ~(created + 1 \in 1..created) /\ ~(created + 1 \in 0..created) /\ created + 1 # 0
        /\ created + 1 > created /\ \A i \in SubIds : i > created' => i > created
    BY <1>1, <2>1, LimitFacts DEF SubsTyped, SubIds
  <2>3. PICK id : id = created + 1
    OBVIOUS
  <2>4. call' = [call EXCEPT !.at = "good", !.sub = id, !.heir = id] /\ id \in 0..created'
    BY <2>1, <2>2, <2>3
  <2>5. call' \in UserCall' /\ call'.sub = id /\ call'.heir = id /\ call'.op = "create"
    BY <1>2, <1>4, <2>2, <2>4 DEF UserCall
  <2>6. SubsTyped'
    BY <1>1, <1>3, <2>2, <2>5 DEF SubsTyped
  <2>7. MovingOut' /\ SubscriptionsKept' /\ HeirKnown'
    BY <1>1, <1>3, <2>5 DEF MovingOut, SubscriptionsKept, HeirKnown
  <2>8. ModeFresh'
    BY <1>1, <1>3, <2>2 DEF ModeFresh
  <2>9. CreatedFresh'
    <3>1. id # 0 /\ id \in SubIds /\ id > created /\ ~(id \in DOMAIN subs) /\ id # moving.id
      BY <1>1, <2>2, <2>3 DEF SubsTyped
    <3> QED
      BY <1>1, <1>3, <2>5, <3>1 DEF CreatedFresh, ModeFresh
  <2> QED
    BY <2>6, <2>7, <2>8, <2>9, SubsNext
<1>5. CASE call.op # "create"
  <2>1. call.op \in {"delete", "mode", "disconnect"} => \E x \in {"good", "bad"} :
          call' = [call EXCEPT !.at = x] /\ UNCHANGED created
    BY <1>5 DEF CallServed
  <2>2. CASE call.op \in {"delete", "mode", "disconnect"}
    <3>1. PICK x \in {"good", "bad"} : call' = [call EXCEPT !.at = x] /\ UNCHANGED created
      BY <2>1, <2>2
    <3>2. /\ call' \in UserCall /\ call'.op = call.op
          /\ call'.sub = call.sub /\ call'.heir = call.heir
      BY <1>2, <3>1 DEF UserCall
    <3>3. UNCHANGED table
      BY <1>3, <3>1 DEF table
    <3>4. HeirKnown'
      BY <1>1, <1>3, <3>2 DEF HeirKnown
    <3> QED
      BY <1>5, <2>2, <3>2, <3>3, <3>4, CallGoesOn
  <2>3. CASE ~(call.op \in {"delete", "mode", "disconnect"})
    BY <1>2, <1>3, <1>5, <2>3 DEF UserCall
  <2> QED
    BY <2>2, <2>3
<1> QED
  BY <1>4, <1>5

LEMMA FinishCreateKeeps ==
    ASSUME SubsInv, FinishCreate
    PROVE  SubsInv'
<1>1. SubsTyped /\ MovingOut /\ HeirKnown /\ CreatedFresh /\ ModeFresh /\ SubscriptionsKept
  BY SubsFacts
<1>2. PICK id, new : id = call.sub /\ new = NewSub(TRUE)
  OBVIOUS
<1>3. /\ call.op = "create" /\ call.at = "good" /\ subs' = Put(subs, id, new)
      /\ wanted' = wanted \cup {id} /\ call' = NoCall
      /\ UNCHANGED <<created, mode, moving, lost, revived, missed>>
  BY <1>2 DEF FinishCreate, connecting, counts
<1>4. /\ id \in 0..created /\ id # 0 /\ ~(id \in DOMAIN subs) /\ id # moving.id /\ mode[id] = TRUE
      /\ created \in Nat
  BY <1>1, <1>2, <1>3, LimitFacts DEF SubsTyped, UserCall, CreatedFresh
<1>5. id \in 1..created
  BY <1>4
<1>6. new \in SubState /\ new.on = TRUE
  BY <1>2 DEF NewSub, SubState
<1>7. /\ DOMAIN subs' = DOMAIN subs \cup {id} /\ subs'[id] = new
      /\ \A s \in DOMAIN subs : subs'[s] = subs[s]
  BY <1>3, <1>4 DEF Put
<1>8. SubsTyped'
  <2>1. NoCall \in UserCall /\ NoCall.at = "none"
    BY <1>1, NoCallTyped
  <2> QED
    BY <1>1, <1>3, <1>5, <1>6, <1>7, <2>1 DEF SubsTyped, UserCall
<1>9. MovingOut'
  BY <1>1, <1>3, <1>4, <1>7 DEF MovingOut
<1>10. CreatedFresh' /\ HeirKnown'
  BY <1>1, <1>3, NoCallTyped DEF CreatedFresh, HeirKnown
<1>11. ModeFresh'
  BY <1>1, <1>3 DEF ModeFresh
<1>12. SubscriptionsKept'
  BY <1>1, <1>3, <1>4, <1>6, <1>7 DEF SubscriptionsKept
<1> QED
  BY <1>8, <1>9, <1>10, <1>11, <1>12, SubsNext

LEMMA FinishDeleteKeeps ==
    ASSUME SubsInv, FinishDelete
    PROVE  SubsInv'
<1>1. SubsTyped /\ MovingOut /\ HeirKnown /\ CreatedFresh /\ ModeFresh /\ SubscriptionsKept
  BY SubsFacts
<1>2. PICK id, heir : id = call.sub /\ heir = call.heir
  OBVIOUS
<1>3. /\ subs' = Drop(subs, id) /\ wanted' = wanted \ {heir} /\ call' = NoCall
      /\ revived' = revived \cup ({heir} \cap DOMAIN subs')
      /\ UNCHANGED <<created, mode, moving, lost, missed>>
  BY <1>2 DEF FinishDelete, connecting, counts
<1>4. DOMAIN subs' = DOMAIN subs \ {id} /\ \A s \in DOMAIN subs' : subs'[s] = subs[s]
  BY <1>3 DEF Drop
<1>5. SubsTyped'
  <2>1. NoCall \in UserCall /\ NoCall.at = "none"
    BY <1>1, NoCallTyped
  <2> QED
    BY <1>1, <1>3, <1>4, <2>1 DEF SubsTyped, UserCall
<1>6. MovingOut'
  BY <1>1, <1>3, <1>4 DEF MovingOut
<1>7. CreatedFresh' /\ HeirKnown'
  BY <1>1, <1>3, NoCallTyped DEF CreatedFresh, HeirKnown
<1>8. ModeFresh'
  BY <1>1, <1>3 DEF ModeFresh
<1>9. SubscriptionsKept'
  <2>1. id \in DOMAIN subs => heir = id
    BY <1>1, <1>2 DEF HeirKnown
  <2>2. wanted' \subseteq DOMAIN subs' \cup {moving'.id} \cup lost'
    BY <1>1, <1>3, <1>4, <2>1 DEF SubscriptionsKept
  <2>3. DOMAIN subs' \subseteq wanted' \cup revived'
    BY <1>1, <1>3, <1>4 DEF SubscriptionsKept
  <2>4. \A s \in DOMAIN subs' : subs'[s].on = mode'[s] \/ s \in missed'
    BY <1>1, <1>3, <1>4 DEF SubscriptionsKept
  <2> QED
    BY <2>2, <2>3, <2>4 DEF SubscriptionsKept
<1> QED
  BY <1>5, <1>6, <1>7, <1>8, <1>9, SubsNext

LEMMA FinishModeKeeps ==
    ASSUME SubsInv, FinishMode
    PROVE  SubsInv'
<1>1. SubsTyped /\ MovingOut /\ HeirKnown /\ CreatedFresh /\ ModeFresh /\ SubscriptionsKept
  BY SubsFacts
<1>2. PICK id, heir, on : id = call.sub /\ heir = call.heir /\ on = call.on
  OBVIOUS
<1>3. on \in BOOLEAN /\ heir \in 0..created
  BY <1>1, <1>2 DEF SubsTyped, UserCall
<1>4. call' = NoCall /\ UNCHANGED <<created, wanted, moving, lost, revived>>
  BY DEF FinishMode, connecting, counts
<1>5. NoCall \in UserCall /\ NoCall.at = "none" /\ ~(NoCall.op = "create") /\ NoCall.heir = NoCall.sub
  BY <1>1, NoCallTyped
<1>6. HeirKnown'
  BY <1>4, <1>5 DEF HeirKnown
<1>7. CASE call.at # "good"
  <2>1. UNCHANGED table
    BY <1>4, <1>7 DEF FinishMode, table
  <2> QED
    BY <1>4, <1>5, <1>6, <2>1, CallGoesOn
<1>8. CASE call.at = "good"
  <2>1. /\ mode' = [mode EXCEPT ![heir] = on]
        /\ id \in DOMAIN subs => subs' = [subs EXCEPT ![id].on = on] /\ missed' = missed \ {id}
        /\ id \notin DOMAIN subs => subs' = subs /\ missed' = missed \cup {heir}
    BY <1>2, <1>8 DEF FinishMode
  <2>2. created \in 0..MaxSubs /\ \A i \in 1..created : i \in SubIds /\ i # 0
    BY <1>1, LimitFacts DEF SubsTyped
  <2>3. /\ mode' \in [SubIds -> BOOLEAN] /\ \A i \in SubIds : i # heir => mode'[i] = mode[i]
        /\ heir \in SubIds => mode'[heir] = on
    BY <1>1, <1>3, <2>1 DEF SubsTyped
  <2>4. id \in DOMAIN subs => heir = id
    BY <1>1, <1>2 DEF HeirKnown
  <2>5. /\ DOMAIN subs' = DOMAIN subs /\ \A s \in DOMAIN subs : subs'[s] \in SubState
        /\ \A s \in DOMAIN subs : s # id => subs'[s] = subs[s]
        /\ id \in DOMAIN subs => subs'[id].on = on
    <3>1. CASE id \in DOMAIN subs
      <4>1. PICK old, new : old = subs[id] /\ new = [old EXCEPT !.on = on]
        OBVIOUS
      <4>2. old \in SubState
        BY <1>1, <3>1, <4>1 DEF SubsTyped
      <4>3. new \in SubState /\ new.on = on
        BY <1>3, <4>1, <4>2 DEF SubState
      <4>4. /\ DOMAIN subs' = DOMAIN subs /\ subs'[id] = new
            /\ \A s \in DOMAIN subs : s # id => subs'[s] = subs[s]
        BY <2>1, <3>1, <4>1
      <4> QED
        BY <1>1, <4>3, <4>4 DEF SubsTyped
    <3>2. CASE id \notin DOMAIN subs
      BY <1>1, <2>1, <3>2 DEF SubsTyped
    <3> QED
      BY <3>1, <3>2
  <2>6. SubsTyped'
    BY <1>1, <1>4, <1>5, <2>3, <2>5 DEF SubsTyped, UserCall
  <2>7. MovingOut'
    <3>1. SUFFICES ASSUME moving # NoMove
                   PROVE  /\ moving.id # 0 /\ moving.id \notin DOMAIN subs'
                          /\ moving.on = mode'[moving.id] \/ moving.id \in missed'
      BY <1>4 DEF MovingOut
    <3>2. PICK m : m = moving.id
      OBVIOUS
    <3>3. /\ m # 0 /\ m \notin DOMAIN subs /\ m \in 0..created
          /\ moving.on = mode[m] \/ m \in missed
      BY <1>1, <3>1, <3>2 DEF MovingOut, SubsTyped
    <3>4. m \in SubIds
      BY <2>2, <3>3, LimitFacts DEF SubIds
    <3>5. m \in missed => m \in missed'
      BY <2>1, <3>3
    <3>6. m = heir => m \in missed'
      BY <2>1, <2>4, <3>3
    <3>7. m # heir => mode'[m] = mode[m]
      BY <2>3, <3>4
    <3> QED
      BY <2>5, <3>2, <3>3, <3>5, <3>6, <3>7
  <2>8. CreatedFresh'
    BY <1>4, <1>5 DEF CreatedFresh
  <2>9. ModeFresh'
    <3>1. \A i \in SubIds : i > created => i # heir
      BY <1>3, <2>2, LimitFacts DEF SubIds
    <3> QED
      BY <1>1, <1>4, <2>3, <3>1 DEF ModeFresh
  <2>10. SubscriptionsKept'
    <3>1. SUFFICES ASSUME NEW s \in DOMAIN subs
                   PROVE  subs'[s].on = mode'[s] \/ s \in missed'
      BY <1>1, <1>4, <2>5 DEF SubscriptionsKept
    <3>2. s \in SubIds /\ (subs[s].on = mode[s] \/ s \in missed)
      BY <1>1, <2>2 DEF SubsTyped, SubscriptionsKept
    <3>3. CASE id \in DOMAIN subs /\ s = id
      BY <2>3, <2>4, <2>5, <3>2, <3>3
    <3>4. CASE id \in DOMAIN subs /\ s # id
      BY <2>1, <2>3, <2>4, <2>5, <3>2, <3>4
    <3>5. CASE id \notin DOMAIN subs
      BY <2>1, <2>3, <3>2, <3>5
    <3> QED
      BY <3>3, <3>4, <3>5
  <2> QED
    BY <1>6, <2>6, <2>7, <2>8, <2>9, <2>10, SubsNext
<1> QED
  BY <1>7, <1>8

\* A callback is taken out of a subscription or put back.
LEMMA Restaged ==
    ASSUME SubsInv, UNCHANGED <<created, wanted, mode, moving, lost, revived, missed, call>>,
           NEW id \in DOMAIN subs, NEW held \in BOOLEAN, subs' = [subs EXCEPT ![id].placeholder = held]
    PROVE  SubsInv'
<1>1. SubsTyped /\ MovingOut /\ HeirKnown /\ CreatedFresh /\ ModeFresh /\ SubscriptionsKept
  BY SubsFacts
<1>2. PICK old, new : old = subs[id] /\ new = [old EXCEPT !.placeholder = held]
  OBVIOUS
<1>3. old \in SubState
  BY <1>1, <1>2 DEF SubsTyped
<1>4. new \in SubState /\ new.on = old.on
  BY <1>2, <1>3 DEF SubState
<1>5. /\ DOMAIN subs' = DOMAIN subs /\ subs'[id] = new
      /\ \A s \in DOMAIN subs : s # id => subs'[s] = subs[s]
  BY <1>2
<1>6. SubsTyped'
  BY <1>1, <1>4, <1>5 DEF SubsTyped, UserCall
<1>7. MovingOut' /\ HeirKnown' /\ CreatedFresh' /\ ModeFresh'
  BY <1>1, <1>5 DEF MovingOut, HeirKnown, CreatedFresh, ModeFresh
<1>8. SubscriptionsKept'
  <2>1. \A s \in DOMAIN subs' : subs'[s].on = mode[s] \/ s \in missed
    BY <1>1, <1>2, <1>4, <1>5 DEF SubscriptionsKept
  <2> QED
    BY <1>1, <1>5, <2>1 DEF SubscriptionsKept
<1> QED
  BY <1>6, <1>7, <1>8, SubsNext

LEMMA DeliveryKeeps ==
    ASSUME SubsInv, TakeResponse \/ FinishDelivery
    PROVE  SubsInv'
<1>1. UNCHANGED <<created, wanted, mode, moving, lost, revived, missed, call>>
  BY DEF TakeResponse, FinishDelivery, connecting, counts, history
<1>2. \/ UNCHANGED subs
      \/ \E id \in DOMAIN subs, held \in BOOLEAN : subs' = [subs EXCEPT ![id].placeholder = held]
  BY DEF TakeResponse, FinishDelivery, Restored
<1>3. CASE UNCHANGED subs
  BY <1>1, <1>3, SubsFrame DEF table
<1>4. CASE \E id \in DOMAIN subs, held \in BOOLEAN : subs' = [subs EXCEPT ![id].placeholder = held]
  BY <1>1, <1>4, Restaged
<1> QED
  BY <1>2, <1>3, <1>4

LEMMA RecreateBeginKeeps ==
    ASSUME SubsInv, RecreateBegin
    PROVE  SubsInv'
<1>1. SubsTyped /\ MovingOut /\ HeirKnown /\ CreatedFresh /\ ModeFresh /\ SubscriptionsKept
  BY SubsFacts
<1>2. moving = NoMove /\ UNCHANGED <<created, wanted, mode, lost, revived, missed, call>>
  BY DEF RecreateBegin, counts, history
<1>3. \/ UNCHANGED <<moving, subs>>
      \/ \E s \in DOMAIN subs : moving' = [id |-> s, on |-> subs[s].on] /\ subs' = Drop(subs, s)
  BY DEF RecreateBegin
<1>4. CASE UNCHANGED <<moving, subs>>
  BY <1>2, <1>4, SubsFrame DEF table
<1>5. CASE \E s \in DOMAIN subs : moving' = [id |-> s, on |-> subs[s].on] /\ subs' = Drop(subs, s)
  <2>1. PICK id \in DOMAIN subs : moving' = [id |-> id, on |-> subs[id].on] /\ subs' = Drop(subs, id)
    BY <1>5
  <2>2. created \in Nat /\ created \in 0..MaxSubs /\ subs[id] \in SubState /\ id \in 1..created
    BY <1>1, LimitFacts DEF SubsTyped
  <2>3. id # 0 /\ id \in 0..created /\ subs[id].on \in BOOLEAN
    <3>1. PICK old : old = subs[id]
      OBVIOUS
    <3>2. old.on \in BOOLEAN
      BY <2>2, <3>1 DEF SubState
    <3> QED
      BY <2>2, <3>1, <3>2
  <2>4. DOMAIN subs' = DOMAIN subs \ {id} /\ \A s \in DOMAIN subs' : subs'[s] = subs[s]
    BY <2>1 DEF Drop
  <2>5. moving'.id = id /\ moving'.on = subs[id].on /\ moving' \in [id : 0..created, on : BOOLEAN]
    BY <2>1, <2>3
  <2>6. SubsTyped'
    BY <1>1, <1>2, <2>4, <2>5 DEF SubsTyped, UserCall
  <2>7. MovingOut'
    BY <1>1, <1>2, <2>3, <2>4, <2>5 DEF MovingOut, SubscriptionsKept
  <2>8. CreatedFresh' /\ HeirKnown'
    BY <1>1, <1>2, <2>4, <2>5 DEF CreatedFresh, HeirKnown
  <2>9. ModeFresh'
    BY <1>1, <1>2 DEF ModeFresh
  <2>10. SubscriptionsKept'
    <3>1. moving.id = 0 /\ ~(0 \in wanted)
      BY <1>1, <1>2, <2>2 DEF NoMove, SubsTyped
    <3>2. wanted \subseteq DOMAIN subs' \cup {moving'.id} \cup lost
      BY <1>1, <2>4, <2>5, <3>1 DEF SubscriptionsKept
    <3> QED
      BY <1>1, <1>2, <2>4, <3>2 DEF SubscriptionsKept
  <2> QED
    BY <2>6, <2>7, <2>8, <2>9, <2>10, SubsNext
<1> QED
  BY <1>3, <1>4, <1>5

\* A recreation is given up.
LEMMA GivenUp ==
    ASSUME SubsInv, UNCHANGED <<created, subs, wanted, mode, revived, missed, call>>, moving' = NoMove,
           lost \subseteq lost', moving # NoMove => moving.id \in lost'
    PROVE  SubsInv'
<1>1. SubsTyped /\ MovingOut /\ HeirKnown /\ CreatedFresh /\ ModeFresh /\ SubscriptionsKept
  BY SubsFacts
<1>2. created \in Nat /\ NoMove \in [id : 0..created, on : BOOLEAN] /\ NoMove.id = 0
  BY <1>1, LimitFacts DEF SubsTyped, NoMove
<1>3. SubsTyped'
  BY <1>1, <1>2 DEF SubsTyped, UserCall
<1>4. MovingOut' /\ ModeFresh'
  BY <1>1 DEF MovingOut, ModeFresh
<1>5. CreatedFresh' /\ HeirKnown'
  BY <1>1, <1>2 DEF CreatedFresh, HeirKnown
<1>6. SubscriptionsKept'
  <2>1. CASE moving = NoMove
    BY <1>1, <2>1 DEF SubscriptionsKept
  <2>2. CASE moving # NoMove
    BY <1>1, <2>2 DEF SubscriptionsKept
  <2> QED
    BY <2>1, <2>2
<1> QED
  BY <1>3, <1>4, <1>5, <1>6, SubsNext

LEMMA RecreateEndsKeeps ==
    ASSUME SubsInv, RecreateFails \/ ActivationCut
    PROVE  SubsInv'
<1>1. /\ UNCHANGED <<created, subs, wanted, mode, revived, missed, call>> /\ moving' = NoMove
      /\ lost \subseteq lost' /\ (moving # NoMove => moving.id \in lost')
  BY DEF RecreateFails, ActivationCut, state
<1> QED
  BY <1>1, GivenUp

LEMMA RecreateOkKeeps ==
    ASSUME SubsInv, RecreateOk
    PROVE  SubsInv'
<1>1. SubsTyped /\ MovingOut /\ HeirKnown /\ CreatedFresh /\ ModeFresh /\ SubscriptionsKept
  BY SubsFacts
<1>2. PICK id, was, new : id = created + 1 /\ was = moving.id /\ new = NewSub(moving.on)
  OBVIOUS
<1>3. /\ moving # NoMove /\ created < MaxSubs /\ created' = created + 1 /\ subs' = Put(subs, id, new)
      /\ IF was \in wanted THEN wanted' = (wanted \ {was}) \cup {id} /\ UNCHANGED revived
         ELSE revived' = revived \cup {id} /\ UNCHANGED wanted
      /\ mode' = [mode EXCEPT ![id] = mode[was]] /\ moving' = NoMove /\ UNCHANGED lost
      /\ missed' = IF was \in missed THEN missed \cup {id} ELSE missed
      /\ call' = IF call.heir = was THEN [call EXCEPT !.heir = id] ELSE call
  BY <1>2 DEF RecreateOk
<1>4. /\ created \in Nat /\ created' \in 0..MaxSubs /\ 1..created \subseteq 1..created'
      /\ 0..created \subseteq 0..created' /\ id \in 1..created' /\ id \in SubIds /\ 0 \in 0..created'
      /\ ~(id \in 0..created) /\ ~(id \in 1..created) /\ \A i \in SubIds : i > created' => i > created /\ i # id
  BY <1>1, <1>2, <1>3, LimitFacts DEF SubsTyped, SubIds
<1>5. /\ was \in SubIds /\ was # id /\ was # 0 /\ ~(was \in DOMAIN subs) /\ moving.on \in BOOLEAN
      /\ moving.on = mode[was] \/ was \in missed
  <2>1. was \in 0..created /\ was # 0 /\ created \in 0..MaxSubs /\ moving.on \in BOOLEAN
    BY <1>1, <1>2, <1>3 DEF SubsTyped, MovingOut
  <2>2. was \in SubIds /\ was # id
    BY <1>2, <2>1, LimitFacts DEF SubIds
  <2> QED
    BY <1>1, <1>2, <1>3, <2>1, <2>2 DEF MovingOut
<1>6. new \in SubState /\ new.on = moving.on
  BY <1>2, <1>5 DEF NewSub, SubState
<1>7. ~(id \in DOMAIN subs)
  BY <1>1, <1>4 DEF SubsTyped
<1>8. /\ DOMAIN subs' = DOMAIN subs \cup {id} /\ subs'[id] = new
      /\ \A s \in DOMAIN subs : subs'[s] = subs[s]
  BY <1>3, <1>7 DEF Put
<1>9. /\ mode' \in [SubIds -> BOOLEAN] /\ mode'[id] = mode[was]
      /\ \A i \in SubIds : i # id => mode'[i] = mode[i]
  BY <1>1, <1>3, <1>4, <1>5 DEF SubsTyped
<1>10. NoMove \in [id : 0..created', on : BOOLEAN] /\ NoMove.id = 0
  BY <1>4 DEF NoMove
<1>11. call'.op = call.op /\ call'.at = call.at /\ call'.sub = call.sub
       /\ (call'.heir = call.heir \/ (call.heir = was /\ call'.heir = id))
  BY <1>1, <1>3 DEF SubsTyped, UserCall
<1>12. HeirKnown'
  <2> SUFFICES ASSUME call'.heir # call.sub
               PROVE  call.sub # 0 /\ call.sub \notin DOMAIN subs' /\ call.sub # NoMove.id
    BY <1>3, <1>11 DEF HeirKnown
  <2>1. call.sub \in 0..created
    BY <1>1 DEF SubsTyped, UserCall
  <2>2. call.sub # 0 /\ ~(call.sub \in DOMAIN subs)
    BY <1>1, <1>5, <1>11 DEF HeirKnown
  <2> QED
    BY <1>4, <1>8, <1>10, <2>1, <2>2
<1>13. SubsTyped'
  <2>1. wanted' \subseteq 1..created'
    BY <1>1, <1>3, <1>4 DEF SubsTyped
  <2>2. call' \in UserCall' /\ (call'.op = "none" => call'.at = "none")
    <3>1. call \in UserCall /\ (call.op = "none" => call.at = "none")
      BY <1>1 DEF SubsTyped
    <3>2. id \in 0..created'
      BY <1>4
    <3>3. call' \in UserCall'
      BY <1>3, <1>4, <3>1, <3>2 DEF UserCall
    <3> QED
      BY <1>11, <3>1, <3>3
  <2>3. DOMAIN subs' \subseteq 1..created' /\ \A s \in DOMAIN subs' : subs'[s] \in SubState
    BY <1>1, <1>4, <1>6, <1>8 DEF SubsTyped
  <2> QED
    BY <1>3, <1>4, <1>9, <1>10, <2>1, <2>2, <2>3 DEF SubsTyped
<1>14. MovingOut'
  BY <1>3 DEF MovingOut
<1>15. CreatedFresh'
  <2> SUFFICES ASSUME call.op = "create", call.at = "good"
               PROVE  /\ call.sub # 0 /\ call.sub \notin DOMAIN subs' /\ call.sub # NoMove.id
                      /\ mode'[call.sub] = TRUE
    BY <1>3, <1>11 DEF CreatedFresh
  <2>1. PICK x : x = call.sub
    OBVIOUS
  <2>2. x # 0 /\ ~(x \in DOMAIN subs) /\ mode[x] = TRUE /\ x \in 0..created
    BY <1>1, <2>1 DEF CreatedFresh, SubsTyped, UserCall
  <2>3. x # id /\ x \in SubIds
    BY <1>1, <1>4, <2>2, LimitFacts DEF SubsTyped, SubIds
  <2> QED
    BY <1>8, <1>9, <1>10, <2>1, <2>2, <2>3
<1>16. ModeFresh'
  BY <1>1, <1>4, <1>9 DEF ModeFresh
<1>17. SubscriptionsKept'
  <2>1. wanted' \subseteq DOMAIN subs' \cup {moving'.id} \cup lost'
    BY <1>1, <1>2, <1>3, <1>8 DEF SubscriptionsKept
  <2>2. DOMAIN subs' \subseteq wanted' \cup revived'
    BY <1>1, <1>3, <1>5, <1>8 DEF SubscriptionsKept
  <2>3. \A s \in DOMAIN subs : s \in SubIds /\ s # id
    BY <1>1, <1>7, LimitFacts DEF SubsTyped
  <2>4. \A s \in DOMAIN subs : subs'[s].on = mode'[s] \/ s \in missed'
    BY <1>1, <1>3, <1>8, <1>9, <2>3 DEF SubscriptionsKept
  <2>5. subs'[id].on = mode'[id] \/ id \in missed'
    BY <1>3, <1>5, <1>6, <1>8, <1>9
  <2> QED
    BY <1>8, <2>1, <2>2, <2>4, <2>5 DEF SubscriptionsKept
<1> QED
  BY <1>13, <1>14, <1>15, <1>16, <1>17, <1>12, SubsNext

\* The other steps leave the table and the user's call alone.
LEMMA OthersKeep ==
    ASSUME SubsInv,
           \/ TriggerArm \/ TriggerSkipped \/ TickArm \/ SendPublish \/ TakeError \/ Server \/ Connection
           \/ BeginConnect \/ Connect \/ ConnectFails \/ Activate \/ Transfer \/ Connected
           \/ GuardDropped \/ Ended \/ UNCHANGED vars
    PROVE  SubsInv'
<1>1. CASE TriggerArm \/ TriggerSkipped \/ TickArm \/ SendPublish \/ TakeError
  BY <1>1, SubsFrame DEF TriggerArm, TriggerSkipped, TickArm, SendPublish, TakeError, table, connecting,
     state, counts, history
<1>2. CASE Server
  BY <1>2, SubsFrame DEF Server, Answer, TimeOut, Produce, ServerForgets, table, connecting, state,
     counts, history
<1>3. CASE Connection
  BY <1>3, SubsFrame DEF Connection, KeepAlive, KeepAliveLost, KeepAliveFailed, Disconnecting,
     TransportClosed, LoopStops, table, connecting, state, counts, history
<1>4. CASE BeginConnect \/ Connect \/ ConnectFails \/ Activate \/ Transfer \/ Connected
  BY <1>4, SubsFrame DEF BeginConnect, Connect, ConnectFails, Activate, Transfer, Connected, table,
     connecting, state, counts, history
<1>5. CASE GuardDropped \/ Ended \/ UNCHANGED vars
  BY <1>5, SubsFrame DEF GuardDropped, Ended, vars, table, connecting, state, counts, history
<1> QED
  BY <1>1, <1>2, <1>3, <1>4, <1>5

LEMMA SubsInitial ==
    ASSUME Init
    PROVE  SubsInv
<1>1. /\ created = 0 /\ subs = <<>> /\ wanted = {} /\ mode = [i \in SubIds |-> TRUE]
      /\ moving = NoMove /\ call = NoCall
  BY DEF Init
<1>2. DOMAIN subs = {}
  BY <1>1
<1>3. created \in 0..MaxSubs /\ 0 \in 0..created
  BY <1>1, LimitFacts
<1>4. moving \in [id : 0..created, on : BOOLEAN] /\ call \in UserCall
  BY <1>1, <1>3 DEF NoMove, NoCall, UserCall
<1>5. SubsTyped
  BY <1>1, <1>2, <1>3, <1>4 DEF SubsTyped, NoCall
<1>6. MovingOut /\ HeirKnown /\ CreatedFresh /\ ModeFresh
  BY <1>1 DEF MovingOut, HeirKnown, CreatedFresh, ModeFresh, NoCall
<1>7. SubscriptionsKept
  BY <1>1, <1>2 DEF SubscriptionsKept
<1> QED
  BY <1>5, <1>6, <1>7 DEF SubsInv

LEMMA SubsInductive ==
    ASSUME SubsInv, [Next]_vars
    PROVE  SubsInv'
<1>1. \/ PublishLoop \/ Server \/ Connection \/ Connecting \/ User \/ Ended \/ UNCHANGED vars
  BY DEF Next
<1>2. CASE PublishLoop
  BY <1>2, DeliveryKeeps, OthersKeep DEF PublishLoop
<1>3. CASE Connecting
  BY <1>3, RecreateBeginKeeps, RecreateOkKeeps, RecreateEndsKeeps, OthersKeep DEF Connecting
<1>4. CASE User
  BY <1>4, CallBeginKeeps, CallServedKeeps, CallFailsKeeps, FinishCreateKeeps, FinishDeleteKeeps,
     FinishModeKeeps, OthersKeep DEF User
<1>5. CASE Server \/ Connection \/ Ended \/ UNCHANGED vars
  BY <1>5, OthersKeep
<1> QED
  BY <1>1, <1>2, <1>3, <1>4, <1>5

\* The client keeps exactly the subscriptions its users want, in the mode they
\* set, through deliveries, calls and reconnects in parallel, except those that
\* a failed recreation gave up or that were deleted, or their mode set, while they
\* were being recreated.
THEOREM SubscriptionsAlwaysKept == Spec => []SubscriptionsKept
<1>1. Init => SubsInv
  BY SubsInitial
<1>2. SubsInv /\ [Next]_vars => SubsInv'
  BY SubsInductive
<1>3. SubsInv => SubscriptionsKept
  BY SubsFacts
<1> QED
  BY <1>1, <1>2, <1>3, PTL DEF Spec

-----------------------------------------------------------------------------
(***************************************************************************)
(* The acknowledgements.                                                   *)
(***************************************************************************)

\* The server's subscriptions are ones that were created.
LEMMA ServerStaysTyped ==
    ASSUME SubsTyped, ServerTyped, [Next]_vars
    PROVE  ServerTyped'
<1>1. CASE UNCHANGED <<served, orphans, sent, created>>
  BY <1>1 DEF ServerTyped
<1>2. CASE Answer
  <2>1. UNCHANGED <<served, orphans, created>>
    BY <1>2 DEF Answer, counts
  <2>2. UNCHANGED sent \/ \E s \in served : sent' = [sent EXCEPT ![s] = @ + 1]
    BY <1>2 DEF Answer, Unsent
  <2> QED
    BY <2>1, <2>2 DEF ServerTyped
<1>3. CASE ServerForgets \/ Disconnecting
  <2>1. UNCHANGED <<sent, created>>
    BY <1>3 DEF ServerForgets, Disconnecting, counts
  <2>2. /\ served' = served \/ served' = {}
        /\ orphans' = orphans \/ orphans' = {} \/ orphans' = orphans \cup served
    BY <1>3 DEF ServerForgets, Disconnecting
  <2> QED
    BY <2>1, <2>2 DEF ServerTyped
<1>4. CASE Transfer
  <2>1. UNCHANGED <<sent, created>>
    BY <1>4 DEF Transfer, counts
  <2>2. served' \subseteq served \cup orphans /\ orphans' \subseteq orphans
    BY <1>4 DEF Transfer
  <2> QED
    BY <2>1, <2>2 DEF ServerTyped
<1>5. CASE RecreateOk
  <2>1. UNCHANGED <<sent, orphans>> /\ created < MaxSubs /\ created' = created + 1
        /\ served' = served \cup {created + 1}
    BY <1>5 DEF RecreateOk
  <2>2. created' \in 0..MaxSubs /\ created + 1 \in SubIds
    BY <2>1, LimitFacts DEF ServerTyped, SubIds
  <2> QED
    BY <2>1, <2>2 DEF ServerTyped
<1>6. CASE CallServed
  <2>1. UNCHANGED <<sent, orphans>>
    BY <1>6 DEF CallServed
  <2>2. CASE call.op = "create"
    <3>1. created < MaxSubs /\ created' = created + 1 /\ served' = served \cup {created + 1}
      BY <1>6, <2>2 DEF CallServed
    <3>2. created' \in 0..MaxSubs /\ created + 1 \in SubIds
      BY <3>1, LimitFacts DEF ServerTyped, SubIds
    <3> QED
      BY <2>1, <3>1, <3>2 DEF ServerTyped
  <2>3. CASE call.op \in {"delete", "mode", "disconnect"}
    <3>1. UNCHANGED created /\ served' \subseteq served
      BY <1>6, <2>3 DEF CallServed
    <3> QED
      BY <2>1, <3>1 DEF ServerTyped
  <2>4. call.op \in {"create", "delete", "mode", "disconnect"}
    BY <1>6 DEF CallServed, SubsTyped, UserCall
  <2> QED
    BY <2>2, <2>3, <2>4
<1>7. CASE PublishLoop
  BY <1>1, <1>7 DEF PublishLoop, TriggerArm, TriggerSkipped, TickArm, SendPublish, TakeResponse,
     FinishDelivery, TakeError, counts, server
<1>8. CASE TimeOut \/ Produce \/ KeepAlive \/ KeepAliveLost \/ TransportClosed \/ LoopStops
  BY <1>1, <1>8 DEF TimeOut, Produce, KeepAlive, KeepAliveLost, KeepAliveFailed, TransportClosed,
     LoopStops, counts, server
<1>9. CASE \/ BeginConnect \/ Connect \/ ConnectFails \/ Activate \/ RecreateBegin \/ RecreateFails
           \/ ActivationCut \/ Connected
  BY <1>1, <1>9 DEF BeginConnect, Connect, ConnectFails, Activate, RecreateBegin, RecreateFails,
     ActivationCut, Connected, counts, server
<1>10. CASE \/ CallBegin \/ CallFails \/ FinishCreate \/ FinishDelete \/ FinishMode \/ FinishDisconnect
            \/ GuardDropped \/ Ended \/ UNCHANGED vars
  BY <1>1, <1>10 DEF CallBegin, CallFails, FinishCreate, FinishDelete, FinishMode, FinishDisconnect,
     GuardDropped, Ended, vars, counts, server
<1> QED
  BY <1>2, <1>3, <1>4, <1>5, <1>6, <1>7, <1>8, <1>9, <1>10
     DEF Next, Server, Connection, Connecting, User

\* Where an acknowledgement may be.
Carried(x) ==
    x \in acks \/ x \in acked \/ \E i \in DOMAIN inflight : x \in inflight[i].acks

LEMMA KeptMeans == AcksKept <=> (loop = "connected" => \A x \in received : Carried(x))
  BY DEF AcksKept, Carried

LEMMA KeptMeansNext == AcksKept' <=> (loop' = "connected" => \A x \in received' : Carried(x)')
  BY DEF AcksKept, Carried

LEMMA RequestTyped == Request \in PublishRequest /\ Light(Request) /\ Request.acks = {}
  BY DEF Request, PublishRequest, Light

\* Another request at the end of the list.
LEMMA Appended ==
    ASSUME NEW q \in Seq(PublishRequest), NEW t, t = Append(q, Request)
    PROVE  /\ t \in Seq(PublishRequest)
           /\ \A i \in DOMAIN q : i \in DOMAIN t /\ t[i] = q[i]
           /\ \A i \in DOMAIN t : i \in DOMAIN q \/ t[i] = Request
<1>1. t \in Seq(PublishRequest) /\ Len(t) = Len(q) + 1 /\ Len(q) \in Nat
  BY RequestTyped
<1>2. DOMAIN t = 1..Len(q) + 1 /\ DOMAIN q = 1..Len(q)
  BY <1>1
<1>3. \A i \in 1..Len(q) : i \in 1..Len(q) + 1 /\ t[i] = q[i]
  BY <1>1
<1>4. t[Len(q) + 1] = Request
  BY <1>1
<1>5. \A i \in 1..Len(q) + 1 : i \in 1..Len(q) \/ i = Len(q) + 1
  BY <1>1
<1> QED
  BY <1>1, <1>2, <1>3, <1>4, <1>5

LEMMA SecondPart ==
    ASSUME NEW S, NEW a \in Seq(S), NEW b \in Seq(S), NEW k \in Nat,
           Len(a) < k, k <= Len(a) + Len(b)
    PROVE  (a \o b)[k] = b[k - Len(a)]
<1>1. Len(a) \in Nat /\ Len(b) \in Nat
  OBVIOUS
<1>2. k \in 1..Len(a) + Len(b) /\ ~(k <= Len(a))
  BY <1>1
<1> QED
  BY <1>2, ConcatProperties

\* One request leaves the list.
LEMMA Removed ==
    ASSUME NEW q \in Seq(PublishRequest), NEW i \in DOMAIN q, NEW t, t = RemoveAt(q, i)
    PROVE  /\ t \in Seq(PublishRequest)
           /\ \A j \in DOMAIN t : \E k \in DOMAIN q : t[j] = q[k]
           /\ \A k \in DOMAIN q : k # i => \E j \in DOMAIN t : t[j] = q[k]
<1>1. Len(q) \in Nat /\ DOMAIN q = 1..Len(q) /\ i \in 1..Len(q) /\ i \in Nat
  OBVIOUS
<1>2. PICK a : a = SubSeq(q, 1, i - 1)
  OBVIOUS
<1>3. PICK b : b = SubSeq(q, i + 1, Len(q))
  OBVIOUS
<1>4. /\ a \in Seq(PublishRequest) /\ Len(a) = i - 1
      /\ \A k \in 1..i - 1 : a[k] = q[k]
  BY <1>1, <1>2
<1>5. /\ b \in Seq(PublishRequest) /\ Len(b) = Len(q) - i
      /\ \A k \in 1..Len(q) - i : b[k] = q[i + k]
  BY <1>1, <1>3
<1>6. t = a \o b
  BY <1>2, <1>3 DEF RemoveAt
<1>7. t \in Seq(PublishRequest) /\ Len(t) = Len(q) - 1
  <2>1. t \in Seq(PublishRequest) /\ Len(t) = Len(a) + Len(b)
    BY <1>4, <1>5, <1>6, ConcatProperties
  <2> QED
    BY <1>1, <1>4, <1>5, <2>1
<1>8. \A k \in 1..i - 1 : t[k] = q[k]
  BY <1>1, <1>4, <1>5, <1>6
<1>9. \A k \in i..Len(q) - 1 : t[k] = q[k + 1]
  <2>1. SUFFICES ASSUME NEW k \in i..Len(q) - 1
                 PROVE  t[k] = q[k + 1]
    OBVIOUS
  <2>2. k \in Nat /\ i <= k /\ k <= Len(q) - 1
    BY <1>1
  <2>3. Len(a) < k /\ k <= Len(a) + Len(b)
    BY <1>1, <1>4, <1>5, <2>2
  <2>4. t[k] = b[k - Len(a)]
    <3>1. (a \o b)[k] = b[k - Len(a)]
      BY <1>4, <1>5, <2>2, <2>3, SecondPart, Zenon
    <3> QED
      BY <1>6, <3>1
  <2>5. k - Len(a) = k - i + 1 /\ k - i + 1 \in 1..Len(q) - i /\ i + (k - i + 1) = k + 1
    BY <1>1, <1>4, <2>2
  <2> QED
    BY <1>5, <2>4, <2>5
<1>10. DOMAIN t = 1..Len(q) - 1
  BY <1>1, <1>7
<1>11. \A j \in 1..Len(q) - 1 : \E k \in 1..Len(q) : t[j] = q[k]
  <2>1. TAKE j \in 1..Len(q) - 1
  <2>2. CASE j < i
    BY <1>1, <1>7, <1>8, <1>9, <2>2
  <2>3. CASE ~(j < i)
    BY <1>1, <1>7, <1>8, <1>9, <2>3
  <2> QED
    BY <2>2, <2>3
<1>12. \A k \in 1..Len(q) : k # i => \E j \in 1..Len(q) - 1 : t[j] = q[k]
  <2>1. SUFFICES ASSUME NEW k \in 1..Len(q), k # i
                 PROVE  \E j \in 1..Len(q) - 1 : t[j] = q[k]
    OBVIOUS
  <2>2. CASE k < i
    BY <1>1, <1>7, <1>8, <1>9, <2>1, <2>2
  <2>3. CASE k > i
    <3>1. k - 1 \in i..Len(q) - 1 /\ k - 1 \in 1..Len(q) - 1 /\ (k - 1) + 1 = k
      BY <1>1, <2>3
    <3> QED
      BY <1>7, <1>8, <1>9, <3>1
  <2> QED
    BY <1>1, <2>1, <2>2, <2>3
<1> QED
  BY <1>1, <1>7, <1>10, <1>11, <1>12, ZenonT(60)

LEMMA AcksFacts ==
    ASSUME AcksInv
    PROVE  /\ inflight \in Seq(PublishRequest) /\ acks \in SUBSET Notes /\ ServerTyped
           /\ LoadsKnown /\ DeliveryKnown /\ BeginsEmpty /\ AcksKept
  BY DEF AcksInv, AcksTyped

\* A step on the same connection that takes nothing and loses nothing.
LEMMA AcksStep ==
    ASSUME AcksInv, ServerTyped', UNCHANGED <<loop, received>>,
           inflight' \in Seq(PublishRequest), acks' \in SUBSET Notes, LoadsKnown', DeliveryKnown',
           \A x \in received : Carried(x) => Carried(x)'
    PROVE  AcksInv'
<1>1. BeginsEmpty /\ AcksKept
  BY AcksFacts
<1>2. BeginsEmpty'
  BY <1>1 DEF BeginsEmpty
<1>3. AcksKept'
  BY <1>1, KeptMeans, KeptMeansNext
<1> QED
  BY <1>2, <1>3 DEF AcksInv, AcksTyped

LEMMA AcksFrame ==
    ASSUME AcksInv, ServerTyped', UNCHANGED <<loop, inflight, delivering, acks, acked, received>>
    PROVE  AcksInv'
<1>1. LoadsKnown /\ DeliveryKnown /\ inflight \in Seq(PublishRequest) /\ acks \in SUBSET Notes
  BY AcksFacts
<1>2. LoadsKnown' /\ DeliveryKnown'
  BY <1>1 DEF LoadsKnown, DeliveryKnown
<1>3. \A x \in received : Carried(x) => Carried(x)'
  BY DEF Carried
<1> QED
  BY <1>1, <1>2, <1>3, AcksStep

LEMMA ArmsKeepAcks ==
    ASSUME AcksInv, ServerTyped', TriggerArm \/ TickArm
    PROVE  AcksInv'
<1>1. LoadsKnown /\ inflight \in Seq(PublishRequest) /\ acks \in SUBSET Notes
  BY AcksFacts
<1>2. /\ inflight' = Append(inflight, Request) /\ delivering = NoDelivery
      /\ UNCHANGED <<loop, received, acks, acked, delivering>>
  BY DEF TriggerArm, TickArm, Running, state, server, history
<1>3. /\ inflight' \in Seq(PublishRequest)
      /\ \A i \in DOMAIN inflight : i \in DOMAIN inflight' /\ inflight'[i] = inflight[i]
      /\ \A i \in DOMAIN inflight' : i \in DOMAIN inflight \/ inflight'[i] = Request
  BY <1>1, <1>2, Appended
<1>4. LoadsKnown'
  BY <1>1, <1>3, RequestTyped DEF LoadsKnown
<1>5. DeliveryKnown'
  BY <1>2 DEF DeliveryKnown
<1>6. \A x \in received : Carried(x) => Carried(x)'
  BY <1>2, <1>3 DEF Carried
<1> QED
  BY <1>1, <1>2, <1>3, <1>4, <1>5, <1>6, AcksStep

\* The queued acknowledgements move into the request.
LEMMA SendKeepsAcks ==
    ASSUME AcksInv, ServerTyped', SendPublish
    PROVE  AcksInv'
<1>1. LoadsKnown /\ inflight \in Seq(PublishRequest) /\ acks \in SUBSET Notes
  BY AcksFacts
<1>2. /\ acks' = {} /\ delivering = NoDelivery
      /\ UNCHANGED <<loop, received, acked, delivering>>
  BY DEF SendPublish, Running, server, history
<1>3. PICK i \in DOMAIN inflight :
        /\ inflight[i].at = "new"
        /\ inflight' = [inflight EXCEPT ![i].at = "sent", ![i].acks = acks]
  BY DEF SendPublish
<1>4. PICK r : r = [inflight[i] EXCEPT !.at = "sent", !.acks = acks]
  OBVIOUS
<1>5. inflight[i] \in PublishRequest /\ inflight[i].acks = {}
  BY <1>1, <1>3 DEF LoadsKnown, Light
<1>6. r \in PublishRequest /\ r.at = "sent" /\ r.acks = acks
  BY <1>1, <1>4, <1>5 DEF PublishRequest
<1>7. inflight' = [inflight EXCEPT ![i] = r]
  BY <1>1, <1>3, <1>4, <1>5 DEF PublishRequest
<1>8. /\ inflight' \in Seq(PublishRequest) /\ DOMAIN inflight' = DOMAIN inflight
      /\ inflight'[i] = r /\ \A j \in DOMAIN inflight : j # i => inflight'[j] = inflight[j]
  BY <1>1, <1>6, <1>7
<1>9. LoadsKnown'
  BY <1>1, <1>6, <1>8 DEF LoadsKnown, Light
<1>10. DeliveryKnown'
  BY <1>2 DEF DeliveryKnown
<1>11. \A x \in received : Carried(x) => Carried(x)'
  <2>1. SUFFICES ASSUME NEW x, Carried(x)
                 PROVE  Carried(x)'
    OBVIOUS
  <2>2. CASE x \in acks
    BY <1>3, <1>6, <1>8, <2>2 DEF Carried
  <2>3. CASE x \in acked
    BY <1>2, <2>3 DEF Carried
  <2>4. CASE \E j \in DOMAIN inflight : x \in inflight[j].acks
    BY <1>5, <1>8, <2>4 DEF Carried
  <2> QED
    BY <2>1, <2>2, <2>3, <2>4 DEF Carried
<1> QED
  BY <1>2, <1>8, <1>9, <1>10, <1>11, AcksStep

\* What is taken is queued for acknowledgement.
LEMMA TakeKeepsAcks ==
    ASSUME AcksInv, ServerTyped', TakeResponse
    PROVE  AcksInv'
<1>1. /\ inflight \in Seq(PublishRequest) /\ acks \in SUBSET Notes
      /\ LoadsKnown /\ BeginsEmpty /\ AcksKept
  BY AcksFacts
<1>2. /\ loop = "connected" /\ UNCHANGED <<loop, inflight, acked>>
  BY DEF TakeResponse, Running, server
<1>3. PICK i \in DOMAIN inflight :
        LET r == inflight[i]
            data == IF r.seq = 0 THEN {} ELSE {<<r.sub, r.seq>>}
        IN  /\ r.at = "done" /\ r.result = "ok"
            /\ acks' = acks \cup data /\ received' = received \cup data
            /\ delivering' = [at |-> i, sub |-> IF r.sub \in DOMAIN subs THEN r.sub ELSE 0]
  BY Zenon DEF TakeResponse
<1>4. PICK data : data = IF inflight[i].seq = 0 THEN {} ELSE {<<inflight[i].sub, inflight[i].seq>>}
  OBVIOUS
<1>5. acks' = acks \cup data /\ received' = received \cup data
  BY <1>3, <1>4
<1>6. inflight[i].sub \in Nat /\ inflight[i].seq \in Nat
  <2>1. inflight[i] \in PublishRequest
    BY <1>1
  <2> QED
    BY <2>1 DEF PublishRequest
<1>7. data \subseteq Notes
  BY <1>4, <1>6 DEF Notes
<1>8. acks' \in SUBSET Notes
  BY <1>1, <1>5, <1>7
<1>9. LoadsKnown'
  BY <1>1, <1>2 DEF LoadsKnown
<1>10. DeliveryKnown'
  BY <1>2, <1>3 DEF DeliveryKnown
<1>11. BeginsEmpty'
  BY <1>2 DEF BeginsEmpty
<1>12. AcksKept'
  <2>1. \A x \in received : Carried(x)
    BY <1>1, <1>2, KeptMeans
  <2>2. \A x \in received : Carried(x)'
    BY <1>2, <1>5, <2>1 DEF Carried
  <2>3. \A x \in data : Carried(x)'
    BY <1>5 DEF Carried
  <2> QED
    BY <1>5, <2>2, <2>3, KeptMeansNext
<1> QED
  BY <1>1, <1>2, <1>8, <1>9, <1>10, <1>11, <1>12 DEF AcksInv, AcksTyped

\* A request leaves the list; it carries nothing, or what it carries is queued again.
LEMMA RemovalKeeps ==
    ASSUME AcksInv, NEW i \in DOMAIN inflight, NEW rest, rest = RemoveAt(inflight, i),
           inflight' = rest \/ inflight' = Append(rest, Request),
           acks \subseteq acks', UNCHANGED acked, inflight[i].acks \subseteq acks'
    PROVE  /\ inflight' \in Seq(PublishRequest) /\ LoadsKnown'
           /\ \A x \in received : Carried(x) => Carried(x)'
<1>1. LoadsKnown /\ inflight \in Seq(PublishRequest)
  BY AcksFacts
<1>2. /\ rest \in Seq(PublishRequest)
      /\ \A j \in DOMAIN rest : \E k \in DOMAIN inflight : rest[j] = inflight[k]
      /\ \A k \in DOMAIN inflight : k # i => \E j \in DOMAIN rest : rest[j] = inflight[k]
  BY <1>1, Removed
<1>3. /\ inflight' \in Seq(PublishRequest)
      /\ \A j \in DOMAIN rest : j \in DOMAIN inflight' /\ inflight'[j] = rest[j]
      /\ \A j \in DOMAIN inflight' :
           (j \in DOMAIN rest /\ inflight'[j] = rest[j]) \/ inflight'[j] = Request
  <2>1. CASE inflight' = rest
    BY <1>2, <2>1
  <2>2. CASE inflight' = Append(rest, Request)
    BY <1>2, <2>2, Appended
  <2> QED
    BY <2>1, <2>2
<1>4. LoadsKnown'
  <2>1. SUFFICES ASSUME NEW j \in DOMAIN inflight'
                 PROVE  Light(inflight'[j])
    BY DEF LoadsKnown
  <2>2. CASE inflight'[j] = Request
    BY <2>2, RequestTyped
  <2>3. CASE j \in DOMAIN rest /\ inflight'[j] = rest[j]
    BY <1>1, <1>2, <2>3 DEF LoadsKnown
  <2> QED
    BY <1>3, <2>2, <2>3
<1>5. \A x \in received : Carried(x) => Carried(x)'
  <2>1. SUFFICES ASSUME NEW x, Carried(x)
                 PROVE  Carried(x)'
    OBVIOUS
  <2>2. CASE x \in acks \/ x \in acked
    BY <2>2 DEF Carried
  <2>3. CASE \E k \in DOMAIN inflight : x \in inflight[k].acks
    <3>1. PICK k \in DOMAIN inflight : x \in inflight[k].acks
      BY <2>3
    <3>2. CASE k = i
      BY <3>1, <3>2 DEF Carried
    <3>3. CASE k # i
      BY <1>2, <1>3, <3>1, <3>3 DEF Carried
    <3> QED
      BY <3>2, <3>3
  <2> QED
    BY <2>1, <2>2, <2>3 DEF Carried
<1> QED
  BY <1>3, <1>4, <1>5

LEMMA FinishKeepsAcks ==
    ASSUME AcksInv, ServerTyped', FinishDelivery
    PROVE  AcksInv'
<1>1. acks \in SUBSET Notes /\ LoadsKnown /\ DeliveryKnown
  BY AcksFacts
<1>2. /\ delivering # NoDelivery /\ delivering' = NoDelivery
      /\ UNCHANGED <<loop, received, acks, acked>>
  BY DEF FinishDelivery, server, history
<1>3. PICK i : i = delivering.at
  OBVIOUS
<1>4. PICK rest : rest = RemoveAt(inflight, i)
  OBVIOUS
<1>5. inflight' = rest \/ inflight' = Append(rest, Request)
  BY <1>3, <1>4 DEF FinishDelivery
<1>6. i \in DOMAIN inflight /\ inflight[i].acks = {}
  BY <1>1, <1>2, <1>3 DEF DeliveryKnown, LoadsKnown, Light
<1>7. /\ inflight' \in Seq(PublishRequest) /\ LoadsKnown'
      /\ \A x \in received : Carried(x) => Carried(x)'
  BY <1>2, <1>4, <1>5, <1>6, RemovalKeeps
<1>8. DeliveryKnown'
  BY <1>2 DEF DeliveryKnown
<1> QED
  BY <1>1, <1>2, <1>7, <1>8, AcksStep

LEMMA ErrorKeepsAcks ==
    ASSUME AcksInv, ServerTyped', TakeError
    PROVE  AcksInv'
<1>1. acks \in SUBSET Notes /\ inflight \in Seq(PublishRequest)
  BY AcksFacts
<1>2. delivering = NoDelivery /\ UNCHANGED <<loop, received, acked, delivering>>
  BY DEF TakeError, Running, server, history
<1>3. PICK i \in DOMAIN inflight : acks' = acks \cup inflight[i].acks /\ inflight' = RemoveAt(inflight, i)
  BY DEF TakeError, Requeued
<1>4. PICK rest : rest = RemoveAt(inflight, i)
  OBVIOUS
<1>5. inflight[i].acks \in SUBSET Notes
  <2>1. inflight[i] \in PublishRequest
    BY <1>1
  <2> QED
    BY <2>1 DEF PublishRequest
<1>6. acks' \in SUBSET Notes /\ acks \subseteq acks' /\ inflight[i].acks \subseteq acks'
  BY <1>1, <1>3, <1>5
<1>7. /\ inflight' \in Seq(PublishRequest) /\ LoadsKnown'
      /\ \A x \in received : Carried(x) => Carried(x)'
  BY <1>2, <1>3, <1>4, <1>6, RemovalKeeps
<1>8. DeliveryKnown'
  BY <1>2 DEF DeliveryKnown
<1> QED
  BY <1>2, <1>6, <1>7, <1>8, AcksStep

\* A request gets its answer; a good one means that its acknowledgements arrived.
LEMMA AnsweredKeeps ==
    ASSUME AcksInv, ServerTyped', NEW i \in Held,
           NEW result \in {"ok", "dead", "noSubscription", "tooMany", "failed"},
           NEW sub \in Nat, NEW seq \in Nat, NEW more \in BOOLEAN,
           Done(i, result, sub, seq, more), UNCHANGED <<loop, received, acks, delivering>>,
           acked \subseteq acked', result = "ok" => inflight[i].acks \subseteq acked'
    PROVE  AcksInv'
<1>1. LoadsKnown /\ DeliveryKnown /\ inflight \in Seq(PublishRequest) /\ acks \in SUBSET Notes
  BY AcksFacts
<1>2. i \in DOMAIN inflight /\ inflight[i].at = "sent"
  BY DEF Held
<1>3. PICK r : r = [at |-> "done", acks |-> IF result = "ok" THEN {} ELSE inflight[i].acks,
                    result |-> result, sub |-> sub, seq |-> seq, more |-> more]
  OBVIOUS
<1>4. inflight' = [inflight EXCEPT ![i] = r]
  BY <1>3 DEF Done
<1>5. inflight[i] \in PublishRequest
  BY <1>1, <1>2
<1>6. r \in PublishRequest /\ Light(r)
  BY <1>3, <1>5 DEF PublishRequest, Light
<1>7. /\ inflight' \in Seq(PublishRequest) /\ DOMAIN inflight' = DOMAIN inflight
      /\ inflight'[i] = r /\ \A j \in DOMAIN inflight : j # i => inflight'[j] = inflight[j]
  BY <1>1, <1>2, <1>4, <1>6
<1>8. LoadsKnown'
  BY <1>1, <1>6, <1>7 DEF LoadsKnown
<1>9. DeliveryKnown'
  BY <1>1, <1>2, <1>7 DEF DeliveryKnown
<1>10. \A x \in received : Carried(x) => Carried(x)'
  <2>1. SUFFICES ASSUME NEW x, Carried(x)
                 PROVE  Carried(x)'
    OBVIOUS
  <2>2. CASE x \in acks \/ x \in acked
    BY <2>2 DEF Carried
  <2>3. CASE \E k \in DOMAIN inflight : x \in inflight[k].acks
    <3>1. PICK k \in DOMAIN inflight : x \in inflight[k].acks
      BY <2>3
    <3>2. CASE k # i
      BY <1>7, <3>1, <3>2 DEF Carried
    <3>3. CASE k = i /\ result = "ok"
      BY <3>1, <3>3 DEF Carried
    <3>4. CASE k = i /\ result # "ok"
      <4>1. x \in r.acks
        BY <1>3, <3>1, <3>4
      <4> QED
        BY <1>2, <1>7, <4>1 DEF Carried
    <3> QED
      BY <3>2, <3>3, <3>4
  <2> QED
    BY <2>1, <2>2, <2>3 DEF Carried
<1> QED
  BY <1>1, <1>7, <1>8, <1>9, <1>10, AcksStep

LEMMA AnswerKeepsAcks ==
    ASSUME AcksInv, ServerTyped', Answer
    PROVE  AcksInv'
<1>1. ServerTyped
  BY AcksFacts
<1>2. UNCHANGED <<loop, received, acks, delivering>>
  BY DEF Answer, state, history
<1>3. PICK i \in Held :
        \/ Done(i, "dead", 0, 0, FALSE) /\ UNCHANGED acked
        \/ Done(i, "noSubscription", 0, 0, FALSE) /\ acked' = acked \cup inflight[i].acks
        \/ Done(i, "tooMany", 0, 0, FALSE) /\ acked' = acked \cup inflight[i].acks
        \/ /\ \E s \in Unsent : Done(i, "ok", s, sent[s] + 1, Unsent # {s} \/ sent[s] + 1 < produced[s])
           /\ acked' = acked \cup inflight[i].acks
        \/ (\E s \in served : Done(i, "ok", s, 0, FALSE)) /\ acked' = acked \cup inflight[i].acks
  BY Zenon DEF Answer
<1>4. acked \subseteq acked'
  BY <1>3
<1>5. CASE Done(i, "dead", 0, 0, FALSE)
  BY <1>2, <1>4, <1>5, AnsweredKeeps
<1>6. CASE Done(i, "noSubscription", 0, 0, FALSE)
  BY <1>2, <1>4, <1>6, AnsweredKeeps
<1>7. CASE Done(i, "tooMany", 0, 0, FALSE)
  BY <1>2, <1>4, <1>7, AnsweredKeeps
<1>8. ASSUME NEW s \in Unsent, acked' = acked \cup inflight[i].acks,
             Done(i, "ok", s, sent[s] + 1, Unsent # {s} \/ sent[s] + 1 < produced[s])
      PROVE  AcksInv'
  <2>1. PICK more \in BOOLEAN : more <=> (Unsent # {s} \/ sent[s] + 1 < produced[s])
    OBVIOUS
  <2>2. PICK seq : seq = sent[s] + 1
    OBVIOUS
  <2>3. s \in SubIds /\ sent \in [SubIds -> Nat]
    BY <1>1 DEF Unsent, ServerTyped
  <2>4. s \in Nat /\ seq \in Nat
    BY <2>2, <2>3, LimitFacts
  <2>5. inflight[i].acks \subseteq acked'
    BY <1>8
  <2>6. Done(i, "ok", s, seq, more)
    BY <1>8, <2>1, <2>2
  <2> QED
    BY <1>2, <1>4, <2>4, <2>5, <2>6, AnsweredKeeps
<1>9. ASSUME NEW s \in served, Done(i, "ok", s, 0, FALSE), acked' = acked \cup inflight[i].acks
      PROVE  AcksInv'
  <2>1. s \in Nat
    BY <1>1, LimitFacts DEF ServerTyped
  <2>2. inflight[i].acks \subseteq acked'
    BY <1>9
  <2> QED
    BY <1>2, <1>4, <1>9, <2>1, <2>2, AnsweredKeeps
<1> QED
  BY <1>3, <1>5, <1>6, <1>7, <1>8, <1>9

LEMMA TimeOutKeepsAcks ==
    ASSUME AcksInv, ServerTyped', TimeOut
    PROVE  AcksInv'
<1>1. UNCHANGED <<loop, received, acks, delivering>>
  BY DEF TimeOut, state, history
<1>2. PICK i \in Held : Done(i, "failed", 0, 0, FALSE) /\ acked \subseteq acked'
  BY DEF TimeOut
<1> QED
  BY <1>1, <1>2, AnsweredKeeps

\* The futures of the publish loop end with the connection.
LEMMA EndKeepsAcks ==
    ASSUME AcksInv, ServerTyped', TransportClosed \/ LoopStops
    PROVE  AcksInv'
<1>1. acks \in SUBSET Notes
  BY AcksFacts
<1>2. /\ inflight' = <<>> /\ delivering' = NoDelivery /\ UNCHANGED acks
      /\ loop' # "connected" /\ (received' = {} \/ loop' = "ended")
  BY DEF TransportClosed, LoopStops, Running, state
<1>3. inflight' \in Seq(PublishRequest) /\ DOMAIN inflight' = {}
  BY <1>2
<1>4. LoadsKnown' /\ DeliveryKnown'
  BY <1>2, <1>3 DEF LoadsKnown, DeliveryKnown
<1>5. BeginsEmpty' /\ AcksKept'
  BY <1>2 DEF BeginsEmpty, AcksKept
<1> QED
  BY <1>1, <1>2, <1>3, <1>4, <1>5 DEF AcksInv, AcksTyped

\* A connection begins: nothing has been taken on it.
LEMMA ConnectingKeepsAcks ==
    ASSUME AcksInv, ServerTyped', Connecting
    PROVE  AcksInv'
<1>1. /\ acks \in SUBSET Notes /\ inflight \in Seq(PublishRequest) /\ LoadsKnown /\ DeliveryKnown
      /\ BeginsEmpty
  BY AcksFacts
<1>2. loop \in {"disconnected", "connecting", "activating"}
  BY DEF Connecting, BeginConnect, Connect, ConnectFails, Activate, Transfer, RecreateBegin, RecreateOk,
     RecreateFails, ActivationCut, Connected
<1>3. UNCHANGED <<inflight, delivering, received>> /\ (acks' = acks \/ acks' = {})
  BY DEF Connecting, BeginConnect, Connect, ConnectFails, Activate, Transfer, RecreateBegin, RecreateOk,
     RecreateFails, ActivationCut, Connected, publishing, state, history
<1>4. delivering = NoDelivery /\ received = {}
  BY <1>1, <1>2 DEF DeliveryKnown, BeginsEmpty
<1>5. LoadsKnown' /\ DeliveryKnown' /\ BeginsEmpty' /\ AcksKept'
  BY <1>1, <1>3, <1>4 DEF LoadsKnown, DeliveryKnown, BeginsEmpty, AcksKept
<1> QED
  BY <1>1, <1>3, <1>5 DEF AcksInv, AcksTyped

\* The other steps leave the requests and the acknowledgements alone.
LEMMA OthersKeepAcks ==
    ASSUME AcksInv, ServerTyped',
           \/ TriggerSkipped \/ Produce \/ ServerForgets \/ KeepAlive \/ KeepAliveLost \/ Disconnecting
           \/ User \/ Ended \/ UNCHANGED vars
    PROVE  AcksInv'
<1>1. CASE TriggerSkipped \/ Produce \/ ServerForgets \/ Disconnecting
  BY <1>1, AcksFrame DEF TriggerSkipped, Produce, ServerForgets, Disconnecting, publishing, state,
     server, history
<1>2. CASE KeepAlive \/ KeepAliveLost
  BY <1>2, AcksFrame DEF KeepAlive, KeepAliveLost, KeepAliveFailed, publishing, state, server, history
<1>3. CASE User
  BY <1>3, AcksFrame DEF User, CallBegin, CallServed, CallFails, FinishCreate, FinishDelete, FinishMode,
     FinishDisconnect, GuardDropped, publishing, state, server, history
<1>4. CASE Ended \/ UNCHANGED vars
  BY <1>4, AcksFrame DEF Ended, vars, publishing, state, server, history
<1> QED
  BY <1>1, <1>2, <1>3, <1>4

LEMMA AcksInitial ==
    ASSUME Init
    PROVE  AcksInv
<1>1. /\ loop = "disconnected" /\ inflight = <<>> /\ delivering = NoDelivery /\ acks = {}
      /\ created = 0 /\ served = {} /\ orphans = {} /\ sent = [i \in SubIds |-> 0] /\ received = {}
  BY DEF Init
<1>2. AcksTyped /\ LoadsKnown
  BY <1>1 DEF AcksTyped, LoadsKnown
<1>3. ServerTyped
  BY <1>1, LimitFacts DEF ServerTyped
<1>4. DeliveryKnown /\ BeginsEmpty /\ AcksKept
  BY <1>1 DEF DeliveryKnown, BeginsEmpty, AcksKept
<1> QED
  BY <1>2, <1>3, <1>4 DEF AcksInv

LEMMA AcksInductive ==
    ASSUME SubsInv, AcksInv, [Next]_vars
    PROVE  AcksInv'
<1>1. ServerTyped'
  BY SubsFacts, AcksFacts, ServerStaysTyped
<1>2. CASE PublishLoop
  BY <1>1, <1>2, ArmsKeepAcks, SendKeepsAcks, TakeKeepsAcks, FinishKeepsAcks, ErrorKeepsAcks,
     OthersKeepAcks DEF PublishLoop
<1>3. CASE Server
  BY <1>1, <1>3, AnswerKeepsAcks, TimeOutKeepsAcks, OthersKeepAcks DEF Server
<1>4. CASE Connection
  BY <1>1, <1>4, EndKeepsAcks, OthersKeepAcks DEF Connection
<1>5. CASE Connecting
  BY <1>1, <1>5, ConnectingKeepsAcks
<1>6. CASE User \/ Ended \/ UNCHANGED vars
  BY <1>1, <1>6, OthersKeepAcks
<1> QED
  BY <1>2, <1>3, <1>4, <1>5, <1>6 DEF Next

\* No acknowledgement is forgotten while a connection lasts: whatever the client
\* has taken is acknowledged, queued, or carried by a publish request in flight,
\* also after a request that carried it failed or timed out.
THEOREM AcksAlwaysKept == Spec => []AcksKept
<1>1. Init => SubsInv /\ AcksInv
  BY SubsInitial, AcksInitial
<1>2. SubsInv /\ AcksInv /\ [Next]_vars => SubsInv' /\ AcksInv'
  BY SubsInductive, AcksInductive
<1>3. AcksInv => AcksKept
  BY AcksFacts
<1> QED
  BY <1>1, <1>2, <1>3, PTL DEF Spec
=============================================================================
