---------------------------- MODULE Bridge_proofs ----------------------------
(***************************************************************************)
(* The safety of Bridge for any peers, any number of goroutines that call  *)
(* HandleAPI, any buffer and any bounds. BridgeInv is inductive because an  *)
(* entry, once made, may be replaced by that of another message with the    *)
(* same seq, but is never taken away, and messages only come into being.   *)
(* What was told or looked up before therefore still resolves, and exists,  *)
(* after every other step. The order of the events is an invariant of its  *)
(* own.                                                                    *)
(***************************************************************************)
EXTENDS Bridge, TLAPS

(* A step keeps the names that resolve, the flags as they are, and the     *)
(* messages there are.                                                     *)
Keeps ==
  /\ \A id \in Ids : items[id] # None => items'[id] # None
  /\ \A f \in Flags : requests[f] # None => requests'[f] = requests[f]
  /\ posted \subseteq posted'

-----------------------------------------------------------------------------
(* The ref of a message leads back to it. *)
LEMMA RefIsExact ==
  ASSUME NEW m \in Messages
  PROVE  /\ RefTo(m) \in Refs
         /\ RefTo(m) # None
         /\ RefTo(m).seq = m[2]
         /\ Target(RefTo(m)) = m
         /\ m[2] \in Ids
<1>1. m[1] \in Peers /\ m[2] \in Ids /\ m = <<m[1], m[2]>>
  BY DEF Messages
<1>2. RefTo(m) \in Refs
  BY <1>1 DEF RefTo, Refs
<1> QED BY <1>1, <1>2, NoneAssumption DEF RefTo, Target

(* What was told stays true, if entries stay and nothing is told. *)
LEMMA ToldStays ==
  ASSUME BridgeInv, Keeps, UNCHANGED toldVars
  PROVE  ToldExact'
<1>1. UNCHANGED <<toldIds, recallIds, toldFlags>>
  BY DEF toldVars
<1>2. ASSUME NEW t \in toldIds PROVE items'[t[1]] # None
  <2>1. t[1] \in Ids /\ items[t[1]] # None
    BY DEF BridgeInv, TypeOK, ToldExact
  <2> QED BY <2>1 DEF Keeps
<1>3. ASSUME NEW t \in toldIds \union recallIds
      PROVE  t[2] \in posted' /\ t[1] = t[2][2]
  BY DEF BridgeInv, ToldExact, Keeps
<1>4. ASSUME NEW t \in toldFlags PROVE requests'[t[1]] = t[2]
  <2>1. t[1] \in Flags /\ t[2] \in Requests /\ requests[t[1]] = t[2]
    BY DEF BridgeInv, TypeOK, ToldExact
  <2> QED BY <2>1, NoneAssumption DEF Keeps
<1> QED BY <1>1, <1>2, <1>3, <1>4 DEF ToldExact

(* No message is lost sight of, if the notifications stay where they are.   *)
LEMMA AccountedStays ==
  ASSUME BridgeInv, Keeps, posted' \ sent' \subseteq posted \ sent,
         inbox \subseteq inbox', UNCHANGED <<events, dropped>>,
         loop = "translate" /\ current.e.kind = "message" =>
           UNCHANGED <<loop, current>>
  PROVE  Accounted'
<1> SUFFICES ASSUME NEW m \in posted' \ sent'
             PROVE  items'[m[2]] # None \/ UnderWay(m)' \/ Lost(m)'
  BY DEF Accounted
<1>1. m \in posted \ sent /\ m[2] \in Ids
  BY RefIsExact DEF BridgeInv, TypeOK
<1>2. CASE items[m[2]] # None
  BY <1>1, <1>2 DEF Keeps
<1>3. CASE Lost(m)
  BY <1>3 DEF Lost
<1>4. CASE UnderWay(m)
  BY <1>4 DEF UnderWay
<1> QED BY <1>1, <1>2, <1>3, <1>4 DEF BridgeInv, Accounted

(* The calls that a step does not touch stay as they should be. *)
LEMMA CallStays ==
  ASSUME BridgeInv, Keeps, NEW w \in Workers, pc[w] # "idle",
         pc'[w] = pc[w], call'[w] = call[w]
  PROVE  SentExact(w)' /\ LookedUpExact(w)'
<1>1. SentExact(w) /\ LookedUpExact(w) /\ CallOK(call[w])
  BY DEF BridgeInv, TypeOK, CallsExact
<1>2. SentExact(w)'
  <2>1. ASSUME call[w].op = "send",
               pc[w] = "put" \/ (pc[w] = "respond" /\ call[w].code = "ok")
        PROVE  \E m \in posted' : call[w].ref = RefTo(m)
    BY <1>1, <2>1 DEF SentExact, Keeps
  <2>2. ASSUME call[w].op = "send", pc[w] = "respond", call[w].code = "ok"
        PROVE  items'[call[w].ref.seq] # None
    <3>1. PICK m \in posted : call[w].ref = RefTo(m)
      BY <1>1, <2>2 DEF SentExact
    <3>2. items[call[w].ref.seq] # None /\ m \in Messages
      BY <1>1, <2>2, <3>1 DEF SentExact, BridgeInv, TypeOK
    <3>3. call[w].ref.seq \in Ids
      BY <3>1, <3>2, RefIsExact
    <3> QED BY <3>2, <3>3 DEF Keeps
  <2> QED BY <1>1, <2>1, <2>2 DEF SentExact
<1>3. LookedUpExact(w)'
  <2>1. CASE call[w].op \in {"delete", "get"}
    BY <1>1, <2>1 DEF LookedUpExact, Keeps, Kinds
  <2>2. CASE call[w].op \in Kinds
    <3>1. call[w] \in DecisionCalls
      BY <1>1, <2>2 DEF CallOK, Kinds
    <3>2. call[w].arg \in Flags /\ call[w].meant \in Requests \union {None}
      BY <3>1 DEF DecisionCalls
    <3> QED BY <1>1, <2>2, <3>2, NoneAssumption DEF LookedUpExact, Keeps, Kinds
  <2> QED BY <2>1, <2>2 DEF LookedUpExact
<1> QED BY <1>1, <1>2, <1>3

(* A step that touches no call keeps them all. *)
LEMMA CallsStay ==
  ASSUME BridgeInv, Keeps, UNCHANGED callVars
  PROVE  CallsExact'
BY CallStays DEF CallsExact, callVars

-----------------------------------------------------------------------------
(* The initial state satisfies the invariant. *)
LEMMA InitInv == Init => BridgeInv
<1> SUFFICES ASSUME Init PROVE BridgeInv
  OBVIOUS
<1>1. TypeOK
  <2>1. << >> \in Seq(Numbered) /\ Len(<< >>) = 0
    OBVIOUS
  <2> QED BY <2>1, LimitsAssumption DEF Init, TypeOK, CallOK, Idle
<1>2. Accounted /\ EntriesExact /\ AboutToTell /\ ToldExact /\ CallsExact
  BY DEF Init, Accounted, EntriesExact, AboutToTell, ToldExact, CallsExact
<1>3. NotifiedExists
  BY DEF Init, NotifiedExists, Busy
<1> QED BY <1>1, <1>2, <1>3 DEF BridgeInv

(* A user's message is a new one, and its notification is under way. *)
LEMMA UserPostsInv ==
  ASSUME BridgeInv, NEW p \in Peers, NEW s \in Ids, UserPosts(p, s)
  PROVE  BridgeInv'
<1> USE DEF UserPosts, Push
<1>1. <<p, s>> \in Messages /\ posted' \subseteq Messages
  BY DEF BridgeInv, TypeOK, Messages
<1>2. TypeOK'
  BY <1>1 DEF BridgeInv, TypeOK, Notifications, loopVars, mapVars, toldVars, callVars
<1>3. Keeps
  BY DEF Keeps, mapVars
<1>4. NotifiedExists'
  BY DEF BridgeInv, NotifiedExists, Exists, loopVars
<1>5. EntriesExact' /\ AboutToTell'
  BY DEF BridgeInv, EntriesExact, AboutToTell, loopVars, mapVars
<1>6. Accounted'
  <2> SUFFICES ASSUME NEW m \in posted' \ sent'
               PROVE  items'[m[2]] # None \/ UnderWay(m)' \/ Lost(m)'
    BY DEF Accounted
  <2>1. CASE m = <<p, s>>
    BY <2>1 DEF UnderWay
  <2>2. CASE m \in posted \ sent
    BY <2>2 DEF BridgeInv, Accounted, UnderWay, Lost, loopVars, mapVars
  <2> QED BY <2>1, <2>2
<1> QED BY <1>2, <1>3, <1>4, <1>5, <1>6, ToldStays, CallsStay DEF BridgeInv

(* A user's recall is about a message that exists. *)
LEMMA UserRecallsInv ==
  ASSUME BridgeInv, NEW m \in Messages, UserRecalls(m)
  PROVE  BridgeInv'
<1> USE DEF UserRecalls, Push
<1>1. EntriesExact' /\ AboutToTell'
  BY DEF BridgeInv, EntriesExact, AboutToTell, loopVars, mapVars
<1>2. TypeOK'
  BY DEF BridgeInv, TypeOK, Notifications, loopVars, mapVars, toldVars, callVars
<1>3. Keeps
  BY DEF Keeps, mapVars
<1>4. NotifiedExists'
  BY DEF BridgeInv, NotifiedExists, Exists, loopVars
<1>5. Accounted'
  BY <1>3, AccountedStays DEF loopVars
<1> QED BY <1>1, <1>2, <1>3, <1>4, <1>5, ToldStays, CallsStay DEF BridgeInv

(* A user's request is none of the messages. *)
LEMMA UserRequestsInv ==
  ASSUME BridgeInv, NEW r \in Requests, UserRequests(r)
  PROVE  BridgeInv'
<1> USE DEF UserRequests, Push
<1>1. EntriesExact' /\ AboutToTell'
  BY DEF BridgeInv, EntriesExact, AboutToTell, loopVars, mapVars
<1>2. TypeOK'
  BY DEF BridgeInv, TypeOK, Notifications, loopVars, mapVars, toldVars, callVars
<1>3. Keeps
  BY DEF Keeps, mapVars
<1>4. NotifiedExists'
  BY DEF BridgeInv, NotifiedExists, Exists, loopVars
<1>5. Accounted'
  BY <1>3, AccountedStays DEF loopVars
<1> QED BY <1>1, <1>2, <1>3, <1>4, <1>5, ToldStays, CallsStay DEF BridgeInv

-----------------------------------------------------------------------------
(* What a handler emits is what it was notified of. *)
LEMMA EmitInv ==
  ASSUME BridgeInv, NEW e \in inbox, Emit(e)
  PROVE  BridgeInv'
<1> USE DEF Emit
<1> DEFINE x == [n |-> emitted + 1, e |-> e]
<1>1. x \in Numbered /\ events \in Seq(Numbered) /\ emitted \in Nat
  BY DEF BridgeInv, TypeOK, Numbered
<1>2. /\ events' \in Seq(Numbered)
      /\ Len(events') <= Buffer
      /\ \A i \in 1..Len(events') :
           events'[i] = x \/ (i \in 1..Len(events) /\ events'[i] = events[i])
  <2>1. CASE Len(events) < Buffer
    BY <1>1, <2>1, LimitsAssumption
  <2> QED BY <1>1, <2>1 DEF BridgeInv, TypeOK
<1>3. TypeOK'
  BY <1>1, <1>2 DEF BridgeInv, TypeOK, milkyVars, loopVars, mapVars, toldVars, callVars
<1>4. NotifiedExists'
  BY <1>2 DEF BridgeInv, NotifiedExists, Exists, milkyVars, loopVars
<1>5. EntriesExact' /\ AboutToTell' /\ Keeps
  BY DEF BridgeInv, EntriesExact, AboutToTell, Keeps, milkyVars,
         loopVars, mapVars
<1>6. Accounted'
  <2> SUFFICES ASSUME NEW m \in posted' \ sent'
               PROVE  items'[m[2]] # None \/ UnderWay(m)' \/ Lost(m)'
    BY DEF Accounted
  <2>1. items[m[2]] # None \/ UnderWay(m) \/ Lost(m)
    BY DEF BridgeInv, Accounted, milkyVars
  <2>2. CASE e = [kind |-> "message", what |-> m]
    <3>1. CASE Len(events) < Buffer
      <4>1. events' = Append(events, x) /\ Len(events') \in 1..Len(events')
        BY <1>1, <3>1
      <4>2. events'[Len(events')].e = e
        BY <1>1, <4>1
      <4> QED BY <2>2, <4>1, <4>2 DEF UnderWay
    <3>2. CASE ~(Len(events) < Buffer)
      <4>1. x \in dropped' /\ x.e = e
        BY <3>2
      <4> QED BY <2>2, <4>1 DEF Lost
    <3> QED BY <3>1, <3>2
  <2>3. CASE UnderWay(m) /\ e # [kind |-> "message", what |-> m]
    <3>1. ASSUME NEW i \in 1..Len(events)
          PROVE  i \in 1..Len(events') /\ events'[i] = events[i]
      BY <1>1
    <3> QED BY <2>3, <3>1 DEF UnderWay, loopVars
  <2>4. CASE items[m[2]] # None \/ Lost(m)
    BY <2>4 DEF Lost, mapVars
  <2> QED BY <2>1, <2>2, <2>3, <2>4
<1> QED BY <1>3, <1>4, <1>5, <1>6, ToldStays, CallsStay DEF BridgeInv

(* Taking a notification out of the channel. *)
LEMMA TakeEventInv ==
  ASSUME BridgeInv, TakeEvent
  PROVE  BridgeInv'
<1> USE DEF TakeEvent
<1>1. events \in Seq(Numbered) /\ events # <<>>
  BY DEF BridgeInv, TypeOK
<1>2. /\ Head(events) \in Numbered
      /\ Head(events) = events[1]
      /\ Tail(events) \in Seq(Numbered)
      /\ Len(Tail(events)) = Len(events) - 1
      /\ Len(events) \in Nat \ {0}
      /\ \A i \in 1..Len(Tail(events)) : Tail(events)[i] = events[i + 1]
  BY <1>1
<1>3. TypeOK'
  BY <1>2, LimitsAssumption
     DEF BridgeInv, TypeOK, Busy, milkyVars, mapVars, toldVars, callVars
<1>4. NotifiedExists'
  <2>1. Head(events) # None /\ Exists(Head(events).e)
    BY <1>2, NoneAssumption DEF BridgeInv, NotifiedExists
  <2>2. \A i \in 1..Len(events') : Exists(events'[i].e)
    BY <1>2 DEF BridgeInv, NotifiedExists
  <2> QED BY <2>1, <2>2 DEF BridgeInv, NotifiedExists, Exists, milkyVars
<1>5. EntriesExact' /\ AboutToTell' /\ Keeps
  BY DEF BridgeInv, EntriesExact, AboutToTell, Keeps, milkyVars, mapVars
<1>6. Accounted'
  <2> SUFFICES ASSUME NEW m \in posted' \ sent'
               PROVE  items'[m[2]] # None \/ UnderWay(m)' \/ Lost(m)'
    BY DEF Accounted
  <2>1. items[m[2]] # None \/ UnderWay(m) \/ Lost(m)
    BY DEF BridgeInv, Accounted, milkyVars
  <2>2. ASSUME NEW i \in 1..Len(events), events[i].e = [kind |-> "message", what |-> m]
        PROVE  UnderWay(m)'
    <3>1. CASE i = 1
      BY <1>2, <2>2, <3>1 DEF UnderWay
    <3>2. CASE i # 1
      <4>1. i - 1 \in 1..Len(events') /\ events'[i - 1] = events[i]
        BY <1>2, <3>2
      <4> QED BY <2>2, <4>1 DEF UnderWay
    <3> QED BY <3>1, <3>2
  <2>3. CASE [kind |-> "message", what |-> m] \in inbox
    BY <2>3 DEF UnderWay
  <2>4. CASE items[m[2]] # None \/ Lost(m)
    BY <2>4 DEF Lost, mapVars
  <2> QED BY <2>1, <2>2, <2>3, <2>4 DEF UnderWay
<1> QED BY <1>3, <1>4, <1>5, <1>6, ToldStays, CallsStay DEF BridgeInv

(* Run ends, a heartbeat is broadcast, Broadcast returns: no more than the  *)
(* place of the loop changes.                                              *)
LEMMA LoopMovesInv ==
  ASSUME BridgeInv, RunEnds \/ TakeTick \/ BroadcastReturns
  PROVE  BridgeInv'
<1>1. /\ loop \notin Busy /\ loop' \in Idle
      /\ UNCHANGED <<current, flag, lastTold, milkyVars, channelVars, mapVars,
                     toldVars, callVars>>
  BY DEF RunEnds, TakeTick, BroadcastReturns, Idle, Busy
<1>2. loop' \notin Busy /\ loop # "translate"
  BY <1>1 DEF Idle, Busy
<1>3. TypeOK'
  BY <1>1 DEF BridgeInv, TypeOK, milkyVars, channelVars, mapVars, toldVars, callVars
<1>4. NotifiedExists' /\ EntriesExact' /\ AboutToTell' /\ Keeps
  BY <1>1, <1>2 DEF BridgeInv, NotifiedExists, Exists, EntriesExact, AboutToTell,
                    Busy, Keeps, milkyVars, channelVars, mapVars
<1>5. Accounted'
  BY <1>1, <1>2, <1>4, AccountedStays DEF milkyVars, channelVars
<1> QED BY <1>1, <1>3, <1>4, <1>5, ToldStays, CallsStay DEF BridgeInv

(* The entry of a message resolves, whichever other it replaces. *)
LEMMA TranslateMessageInv ==
  ASSUME BridgeInv, TranslateMessage
  PROVE  BridgeInv'
<1> USE DEF TranslateMessage
<1> DEFINE m == current.e.what
<1>1. m \in posted /\ m \in Messages
  <2>1. current \in Numbered /\ m \in posted
    BY DEF BridgeInv, TypeOK, NotifiedExists, Busy, Exists
  <2> QED BY <2>1 DEF Numbered, Notifications, BridgeInv, TypeOK
<1>2. RefTo(m) \in Refs /\ RefTo(m) # None /\ m[2] \in Ids
  BY <1>1, RefIsExact
<1>3. items' = [items EXCEPT ![m[2]] = RefTo(m)] /\ items \in [Ids -> Refs \union {None}]
  BY DEF BridgeInv, TypeOK
<1>4. Keeps
  BY <1>2, <1>3 DEF Keeps, milkyVars
<1>5. TypeOK'
  BY <1>2, <1>3
     DEF BridgeInv, TypeOK, Busy, milkyVars, channelVars, toldVars, callVars
<1>6. NotifiedExists'
  BY DEF BridgeInv, NotifiedExists, Busy, Exists, milkyVars, channelVars
<1>7. EntriesExact'
  BY <1>1, <1>2, <1>3 DEF BridgeInv, EntriesExact, milkyVars
<1>8. AboutToTell'
  BY <1>2, <1>3 DEF AboutToTell
<1>9. Accounted'
  <2> SUFFICES ASSUME NEW n \in posted' \ sent'
               PROVE  items'[n[2]] # None \/ UnderWay(n)' \/ Lost(n)'
    BY DEF Accounted
  <2>1. n \in Messages /\ n[2] \in Ids
    BY RefIsExact DEF BridgeInv, TypeOK, milkyVars
  <2>2. items[n[2]] # None \/ UnderWay(n) \/ Lost(n)
    BY DEF BridgeInv, Accounted, milkyVars
  <2>3. CASE items[n[2]] # None
    BY <1>4, <2>1, <2>3 DEF Keeps
  <2>4. CASE n = m
    BY <1>2, <1>3, <2>4
  <2>5. CASE n # m /\ (UnderWay(n) \/ Lost(n))
    BY <2>5 DEF UnderWay, Lost, channelVars
  <2> QED BY <2>2, <2>3, <2>4, <2>5
<1> QED BY <1>4, <1>5, <1>6, <1>7, <1>8, <1>9, ToldStays, CallsStay DEF BridgeInv

(* A flag that is drawn is new: no request is entered under its number. *)
LEMMA NumberRequestInv ==
  ASSUME BridgeInv, NumberRequest
  PROVE  BridgeInv'
<1> USE DEF NumberRequest
<1>1. /\ current.e.what \in Requests
      /\ counter \in 0..MaxRequests
      /\ MaxRequests \in Nat
  <2>1. current \in Numbered
    BY DEF BridgeInv, TypeOK, NotifiedExists, Busy
  <2> QED BY <2>1, LimitsAssumption DEF Numbered, Notifications, BridgeInv, TypeOK
<1>2. flag' \in Flags /\ counter' \in 0..MaxRequests /\ flag'[2] = counter + 1
  BY <1>1 DEF Requests, Flags
<1>3. requests[flag'] = None
  BY <1>1, <1>2 DEF BridgeInv, EntriesExact
<1>4. TypeOK'
  BY <1>2 DEF BridgeInv, TypeOK, Busy, milkyVars, channelVars, toldVars, callVars
<1>5. NotifiedExists' /\ Keeps
  BY DEF BridgeInv, NotifiedExists, Busy, Exists, Keeps, milkyVars, channelVars
<1>6. EntriesExact'
  BY <1>1 DEF BridgeInv, EntriesExact, Flags, milkyVars
<1>7. AboutToTell'
  BY <1>2, <1>3 DEF AboutToTell
<1>8. Accounted'
  BY <1>5, AccountedStays DEF milkyVars, channelVars
<1> QED BY <1>4, <1>5, <1>6, <1>7, <1>8, ToldStays, CallsStay DEF BridgeInv

(* The request is entered under the new flag, which overwrites nothing. *)
LEMMA StoreRequestInv ==
  ASSUME BridgeInv, StoreRequest
  PROVE  BridgeInv'
<1> USE DEF StoreRequest
<1> DEFINE r == current.e.what
<1>1. r \in Requests
  <2>1. current \in Numbered /\ current.e.kind = "request"
    BY DEF BridgeInv, TypeOK, NotifiedExists, Busy, AboutToTell
  <2> QED BY <2>1 DEF Numbered, Notifications
<1>2. flag \in Flags /\ requests[flag] = None /\ flag = <<r[1], counter>>
  BY DEF BridgeInv, AboutToTell
<1>3. /\ requests' = [requests EXCEPT ![flag] = r]
      /\ requests \in [Flags -> Requests \union {None}]
      /\ counter \in Nat
  BY DEF BridgeInv, TypeOK
<1>4. Keeps
  BY <1>2, <1>3 DEF Keeps, milkyVars
<1>5. TypeOK'
  BY <1>1, <1>2, <1>3
     DEF BridgeInv, TypeOK, Busy, milkyVars, channelVars, toldVars, callVars
<1>6. NotifiedExists'
  BY DEF BridgeInv, NotifiedExists, Busy, Exists, milkyVars, channelVars
<1>7. EntriesExact'
  BY <1>1, <1>2, <1>3 DEF BridgeInv, EntriesExact, milkyVars
<1>8. AboutToTell'
  <2>1. current.e.kind = "request" /\ flag # None
    <3>1. <<r[1], counter>> \in Requests
      BY <1>2 DEF Flags, Requests
    <3> QED BY <1>2, <3>1, NoneAssumption DEF BridgeInv, AboutToTell
  <2> QED BY <1>2, <1>3, <2>1 DEF AboutToTell
<1>9. Accounted'
  BY <1>4, AccountedStays DEF milkyVars, channelVars
<1> QED BY <1>4, <1>5, <1>6, <1>7, <1>8, <1>9, ToldStays, CallsStay DEF BridgeInv

(* A recall enters nothing. *)
LEMMA TranslateRecallInv ==
  ASSUME BridgeInv, TranslateRecall
  PROVE  BridgeInv'
<1> USE DEF TranslateRecall
<1>1. TypeOK'
  BY DEF BridgeInv, TypeOK, Busy, milkyVars, channelVars, mapVars, toldVars, callVars
<1>2. NotifiedExists' /\ EntriesExact' /\ AboutToTell' /\ Keeps
  BY DEF BridgeInv, NotifiedExists, Busy, Exists, EntriesExact,
         AboutToTell, Keeps, milkyVars, channelVars, mapVars
<1>3. Accounted'
  BY <1>2, AccountedStays DEF milkyVars, channelVars
<1> QED BY <1>1, <1>2, <1>3, ToldStays, CallsStay DEF BridgeInv

(* What Broadcast tells as a message or a request has its entry, and what it *)
(* tells as a recall exists.                                               *)
LEMMA BroadcastInv ==
  ASSUME BridgeInv, Broadcast
  PROVE  BridgeInv'
<1> USE DEF Broadcast
<1>1. current \in Numbered /\ Exists(current.e)
  BY DEF BridgeInv, TypeOK, NotifiedExists, Busy
<1>2. NotifiedExists' /\ EntriesExact' /\ AboutToTell' /\ Keeps
  BY DEF BridgeInv, NotifiedExists, EntriesExact, AboutToTell, Busy,
         Keeps, Exists, milkyVars, channelVars, mapVars
<1>3. ASSUME current.e.kind \in {"message", "recall"}
      PROVE  /\ current.e.what \in Messages /\ current.e.what \in posted
             /\ current.e.what[2] \in Ids
             /\ current.e.kind = "message" => items[current.e.what[2]] # None
  <2>1. current.e.what \in Messages /\ current.e.what \in posted
    BY <1>1, <1>3 DEF Numbered, Notifications, Exists
  <2> QED BY <1>3, <2>1, RefIsExact DEF BridgeInv, AboutToTell
<1>4. ASSUME current.e.kind = "request"
      PROVE  flag \in Flags /\ current.e.what \in Requests /\ requests[flag] = current.e.what
  <2>1. current.e.what \in Requests
    BY <1>1, <1>4 DEF Numbered, Notifications
  <2> QED BY <1>4, <2>1 DEF BridgeInv, AboutToTell, TypeOK
<1>5. /\ toldIds' \subseteq Ids \X Messages
      /\ recallIds' \subseteq Ids \X Messages
      /\ toldFlags' \subseteq Flags \X Requests
  BY <1>3, <1>4 DEF BridgeInv, TypeOK
<1>6. TypeOK'
  <2>1. current.n \in Nat
    BY <1>1 DEF Numbered
  <2> QED BY <1>5, <2>1
          DEF BridgeInv, TypeOK, Idle, milkyVars, channelVars, mapVars, callVars
<1>7. ToldExact'
  BY <1>3, <1>4 DEF BridgeInv, ToldExact, mapVars, milkyVars
<1>8. Accounted'
  BY <1>2, AccountedStays DEF milkyVars, channelVars
<1> QED BY <1>2, <1>6, <1>7, <1>8, CallsStay DEF BridgeInv

-----------------------------------------------------------------------------
(* A step of one call keeps the others. *)
LEMMA OtherCallsStay ==
  ASSUME BridgeInv, Keeps, NEW w \in Workers,
         \A v \in Workers \ {w} : pc'[v] = pc[v] /\ call'[v] = call[v],
         pc'[w] # "idle" => SentExact(w)' /\ LookedUpExact(w)'
  PROVE  CallsExact'
BY CallStays DEF CallsExact

(* A step that leaves the messages, the maps, the loop and what was told as *)
(* they are keeps all but the calls.                                       *)
LEMMA RestStays ==
  ASSUME BridgeInv,
         UNCHANGED <<posted, sent, channelVars, loopVars, mapVars, toldVars>>
  PROVE  /\ NotifiedExists' /\ Accounted' /\ EntriesExact' /\ AboutToTell'
         /\ Keeps
<1>1. NotifiedExists' /\ EntriesExact' /\ AboutToTell' /\ Keeps
  BY DEF BridgeInv, NotifiedExists, Exists, EntriesExact, AboutToTell,
         Keeps, channelVars, loopVars, mapVars
<1>2. Accounted'
  BY <1>1, AccountedStays DEF channelVars, loopVars
<1> QED BY <1>1, <1>2

(* A step of one call keeps the types of all. *)
LEMMA CallTypes ==
  ASSUME TypeOK, NEW w \in Workers, NEW p, NEW c,
         pc' = [pc EXCEPT ![w] = p], call' = [call EXCEPT ![w] = c],
         p \in {"idle", "lookup", "upstream", "put", "respond"},
         IF p = "idle" THEN c = None ELSE CallOK(c)
  PROVE  /\ pc' \in [Workers -> {"idle", "lookup", "upstream", "put", "respond"}]
         /\ call' = [v \in Workers |-> call'[v]]
         /\ \A v \in Workers :
              IF pc'[v] = "idle" THEN call'[v] = None ELSE CallOK(call'[v])
         /\ pc'[w] = p
         /\ call'[w] = c
         /\ \A v \in Workers \ {w} : pc'[v] = pc[v] /\ call'[v] = call[v]
<1>1. pc \in [Workers -> {"idle", "lookup", "upstream", "put", "respond"}]
  BY DEF TypeOK
<1>2. call = [v \in Workers |-> call[v]]
  BY DEF TypeOK
<1>3. pc'[w] = p /\ \A v \in Workers \ {w} : pc'[v] = pc[v]
  BY <1>1
<1>4. call'[w] = c /\ \A v \in Workers \ {w} : call'[v] = call[v]
  BY <1>2
<1>5. call' = [v \in Workers |-> call'[v]]
  BY <1>2
<1>6. \A v \in Workers : IF pc[v] = "idle" THEN call[v] = None ELSE CallOK(call[v])
  BY DEF TypeOK
<1>7. pc' \in [Workers -> {"idle", "lookup", "upstream", "put", "respond"}]
  BY <1>1
<1>8. ASSUME NEW v \in Workers
      PROVE  IF pc'[v] = "idle" THEN call'[v] = None ELSE CallOK(call'[v])
  <2>1. CASE v = w
    BY <1>3, <1>4, <2>1
  <2>2. CASE v # w
    BY <1>3, <1>4, <1>6, <2>2
  <2> QED BY <2>1, <2>2
<1> QED BY <1>3, <1>4, <1>5, <1>7, <1>8

(* A new call means what its id or flag was told to stand for. *)
LEMMA AsksInv ==
  ASSUME BridgeInv, NEW w \in Workers, NEW op, NEW arg, NEW meant, NEW state,
         Asks(w, op, arg, meant, state), state \in {"lookup", "upstream"},
         CallOK([op |-> op, arg |-> arg, meant |-> meant, ref |-> None, code |-> "none"]),
         op = "send" => state = "upstream",
         op # "send" => state = "lookup",
         op \in {"delete", "get"} /\ meant # None => meant \in posted /\ meant[2] = arg,
         op \in Kinds /\ meant # None => requests[arg] = meant
  PROVE  BridgeInv'
<1> DEFINE c == [op |-> op, arg |-> arg, meant |-> meant, ref |-> None, code |-> "none"]
<1>1. /\ pc' = [pc EXCEPT ![w] = state]
      /\ call' = [call EXCEPT ![w] = c]
      /\ UNCHANGED <<milkyVars, channelVars, loopVars, mapVars, toldVars>>
  BY DEF Asks
<1>2. /\ pc' \in [Workers -> {"idle", "lookup", "upstream", "put", "respond"}]
      /\ call' = [v \in Workers |-> call'[v]]
      /\ \A v \in Workers :
           IF pc'[v] = "idle" THEN call'[v] = None ELSE CallOK(call'[v])
      /\ pc'[w] = state
      /\ call'[w] = c
      /\ \A v \in Workers \ {w} : pc'[v] = pc[v] /\ call'[v] = call[v]
  <2> HIDE DEF c
  <2>1. CallOK(c)
    BY DEF c
  <2> QED BY <1>1, <2>1, CallTypes DEF BridgeInv
<1>3. TypeOK'
  BY <1>1, <1>2 DEF BridgeInv, TypeOK, milkyVars, channelVars, loopVars, mapVars, toldVars
<1>4. NotifiedExists' /\ Accounted' /\ EntriesExact' /\ AboutToTell' /\ Keeps
  BY <1>1, RestStays DEF milkyVars
<1>5. SentExact(w)' /\ LookedUpExact(w)'
  BY <1>1, <1>2 DEF SentExact, LookedUpExact, mapVars, milkyVars, Kinds
<1> QED BY <1>1, <1>2, <1>3, <1>4, <1>5, ToldStays, OtherCallsStay DEF BridgeInv

(* A bot asks for a message to be sent. *)
LEMMA AskSendInv ==
  ASSUME BridgeInv, NEW w \in Workers, NEW p \in Peers, AskSend(w, p)
  PROVE  BridgeInv'
<1>1. CallOK([op |-> "send", arg |-> p, meant |-> None, ref |-> None, code |-> "none"])
  BY DEF CallOK, SendCalls
<1> QED BY <1>1, AsksInv DEF AskSend, Kinds

(* A bot names a message that it was told of, or none that it knows. *)
LEMMA AskMessageInv ==
  ASSUME BridgeInv, NEW w \in Workers, NEW op \in {"delete", "get"}, NEW id \in Ids,
         AskMessage(w, op, id)
  PROVE  BridgeInv'
<1>1. PICK m \in MeantBy(id, toldIds \union recallIds) : Asks(w, op, id, m, "lookup")
  BY DEF AskMessage
<1>2. m = None \/ \E t \in toldIds \union recallIds : t[1] = id /\ t[2] = m
  BY DEF MeantBy
<1>3. m \in Messages \union {None} /\ (m # None => m \in posted /\ m[2] = id)
  BY <1>2 DEF BridgeInv, TypeOK, ToldExact
<1>4. CallOK([op |-> op, arg |-> id, meant |-> m, ref |-> None, code |-> "none"])
  BY <1>3 DEF CallOK, MessageCalls
<1> QED BY <1>1, <1>3, <1>4, AsksInv DEF Kinds

(* A bot names a request that it was told of, or none that it knows. *)
LEMMA AskDecisionInv ==
  ASSUME BridgeInv, NEW w \in Workers, NEW op \in Kinds, NEW f \in Flags,
         AskDecision(w, op, f)
  PROVE  BridgeInv'
<1>1. PICK r \in MeantBy(f, toldFlags) : Asks(w, op, f, r, "lookup")
  BY DEF AskDecision
<1>2. r = None \/ \E t \in toldFlags : t[1] = f /\ t[2] = r
  BY DEF MeantBy
<1>3. r \in Requests \union {None} /\ (r # None => requests[f] = r)
  BY <1>2 DEF BridgeInv, TypeOK, ToldExact
<1>4. CallOK([op |-> op, arg |-> f, meant |-> r, ref |-> None, code |-> "none"])
  BY <1>3 DEF CallOK, DecisionCalls
<1> QED BY <1>1, <1>3, <1>4, AsksInv DEF Kinds

(* A call that is answered, with no message sent, changes nothing else. *)
LEMMA RespondInv ==
  ASSUME BridgeInv, NEW w \in Workers, pc[w] # "idle", NEW code, Respond(w, code),
         CallOK([call[w] EXCEPT !.code = code]), call[w].op = "send" => code # "ok",
         UNCHANGED <<posted, sent, requested, channelVars, loopVars, mapVars, toldVars>>,
         recalled' \subseteq posted
  PROVE  BridgeInv'
<1> DEFINE c == [call[w] EXCEPT !.code = code]
<1>1. CallOK(call[w])
  BY DEF BridgeInv, TypeOK
<1>2. /\ c.op = call[w].op /\ c.arg = call[w].arg /\ c.meant = call[w].meant
      /\ c.ref = call[w].ref /\ c.code = code
  BY <1>1 DEF CallOK, SendCalls, MessageCalls, DecisionCalls
<1> HIDE DEF c
<1>3. /\ pc' = [pc EXCEPT ![w] = "respond"]
      /\ call' = [call EXCEPT ![w] = c]
      /\ CallOK(c)
  BY DEF Respond, c
<1>4. /\ pc' \in [Workers -> {"idle", "lookup", "upstream", "put", "respond"}]
      /\ call' = [v \in Workers |-> call'[v]]
      /\ \A v \in Workers :
           IF pc'[v] = "idle" THEN call'[v] = None ELSE CallOK(call'[v])
      /\ pc'[w] = "respond"
      /\ call'[w] = c
      /\ \A v \in Workers \ {w} : pc'[v] = pc[v] /\ call'[v] = call[v]
  BY <1>3, CallTypes DEF BridgeInv
<1>5. TypeOK'
  BY <1>4 DEF BridgeInv, TypeOK, channelVars, loopVars, mapVars, toldVars
<1>6. NotifiedExists' /\ Accounted' /\ EntriesExact' /\ AboutToTell' /\ Keeps
  BY RestStays
<1>7. SentExact(w) /\ LookedUpExact(w)
  BY DEF BridgeInv, CallsExact
<1>8. SentExact(w)' /\ LookedUpExact(w)'
  BY <1>2, <1>4, <1>7 DEF SentExact, LookedUpExact, mapVars
<1> QED BY <1>4, <1>5, <1>6, <1>8, ToldStays, OtherCallsStay DEF BridgeInv

(* A lookup that finds its entry goes on with it. *)
LEMMA FoundInv ==
  ASSUME BridgeInv, NEW w \in Workers, pc[w] = "lookup", NEW ref,
         Continue(w, "upstream", ref), CallOK([call[w] EXCEPT !.ref = ref]),
         ref # None, call[w].op # "send",
         call[w].op \in {"delete", "get"} =>
           \E m \in posted : ref = RefTo(m) /\ m[2] = call[w].arg,
         call[w].op \in Kinds => ref = requests[call[w].arg] /\ ref[1] = call[w].op,
         UNCHANGED <<milkyVars, channelVars, loopVars, mapVars, toldVars>>
  PROVE  BridgeInv'
<1> DEFINE c == [call[w] EXCEPT !.ref = ref]
<1>1. CallOK(call[w])
  BY DEF BridgeInv, TypeOK
<1>2. /\ c.op = call[w].op /\ c.arg = call[w].arg /\ c.meant = call[w].meant
      /\ c.ref = ref
  BY <1>1 DEF CallOK, SendCalls, MessageCalls, DecisionCalls
<1> HIDE DEF c
<1>3. /\ pc' = [pc EXCEPT ![w] = "upstream"]
      /\ call' = [call EXCEPT ![w] = c]
      /\ CallOK(c)
  BY DEF Continue, c
<1>4. /\ pc' \in [Workers -> {"idle", "lookup", "upstream", "put", "respond"}]
      /\ call' = [v \in Workers |-> call'[v]]
      /\ \A v \in Workers :
           IF pc'[v] = "idle" THEN call'[v] = None ELSE CallOK(call'[v])
      /\ pc'[w] = "upstream"
      /\ call'[w] = c
      /\ \A v \in Workers \ {w} : pc'[v] = pc[v] /\ call'[v] = call[v]
  BY <1>3, CallTypes DEF BridgeInv
<1>5. TypeOK'
  BY <1>4 DEF BridgeInv, TypeOK, milkyVars, channelVars, loopVars, mapVars, toldVars
<1>6. NotifiedExists' /\ Accounted' /\ EntriesExact' /\ AboutToTell' /\ Keeps
  BY RestStays DEF milkyVars
<1>7. SentExact(w) /\ LookedUpExact(w)
  BY DEF BridgeInv, CallsExact
<1>8. SentExact(w)' /\ LookedUpExact(w)'
  BY <1>2, <1>4, <1>7 DEF SentExact, LookedUpExact, mapVars, milkyVars
<1> QED BY <1>4, <1>5, <1>6, <1>8, ToldStays, OtherCallsStay DEF BridgeInv

(* MessageMap.Get, in both outcomes. *)
LEMMA LookupMessageInv ==
  ASSUME BridgeInv, NEW w \in Workers, LookupMessage(w)
  PROVE  BridgeInv'
<1> DEFINE ref == items[call[w].arg]
<1>1. call[w] \in MessageCalls /\ ref \in Refs \union {None}
  <2>1. CallOK(call[w]) /\ items \in [Ids -> Refs \union {None}]
    BY DEF BridgeInv, TypeOK, LookupMessage
  <2>2. call[w] \in MessageCalls
    BY <2>1 DEF LookupMessage, CallOK, Kinds
  <2> QED BY <2>1, <2>2 DEF MessageCalls
<1>2. CASE ref = None
  <2>1. CallOK([call[w] EXCEPT !.code = "1502"])
    BY <1>1 DEF LookupMessage, CallOK, MessageCalls
  <2> QED BY <1>2, <2>1, RespondInv DEF LookupMessage, milkyVars, BridgeInv, TypeOK
<1>3. CASE ref # None
  <2>1. CallOK([call[w] EXCEPT !.ref = ref])
    BY <1>1, <1>3 DEF LookupMessage, CallOK, MessageCalls
  <2>2. \E m \in posted : ref = RefTo(m) /\ m[2] = call[w].arg
    BY <1>1, <1>3 DEF BridgeInv, EntriesExact, MessageCalls
  <2> QED BY <1>3, <2>1, <2>2, FoundInv DEF LookupMessage, Kinds
<1> QED BY <1>2, <1>3

(* RequestMap.Get, in its three outcomes. *)
LEMMA LookupRequestInv ==
  ASSUME BridgeInv, NEW w \in Workers, LookupRequest(w)
  PROVE  BridgeInv'
<1> DEFINE ref == requests[call[w].arg]
<1>1. call[w] \in DecisionCalls /\ ref \in Requests \union {None}
  <2>1. CallOK(call[w]) /\ requests \in [Flags -> Requests \union {None}]
    BY DEF BridgeInv, TypeOK, LookupRequest
  <2>2. call[w] \in DecisionCalls
    BY <2>1 DEF LookupRequest, CallOK, Kinds
  <2> QED BY <2>1, <2>2 DEF DecisionCalls
<1>2. ASSUME NEW code \in {"1502", "1400"}, Respond(w, code)
      PROVE  BridgeInv'
  <2>1. CallOK([call[w] EXCEPT !.code = code])
    BY <1>1 DEF LookupRequest, CallOK, DecisionCalls
  <2> QED BY <1>2, <2>1, RespondInv DEF LookupRequest, milkyVars, Kinds, BridgeInv, TypeOK
<1>3. CASE ref # None /\ ref[1] = call[w].op /\ Continue(w, "upstream", ref)
  <2>1. CallOK([call[w] EXCEPT !.ref = ref])
    BY <1>1, <1>3 DEF LookupRequest, CallOK, DecisionCalls
  <2> QED BY <1>3, <2>1, FoundInv DEF LookupRequest, Kinds
<1> QED BY <1>2, <1>3 DEF LookupRequest

(* A message that is sent is a new one; its ref is what the call goes on    *)
(* with, or its answer is lost.                                            *)
LEMMA MilkyPostsInv ==
  ASSUME BridgeInv, NEW w \in Workers, NEW s \in Ids, MilkyPosts(w, s)
  PROVE  BridgeInv'
<1> USE DEF MilkyPosts
<1> DEFINE m == <<call[w].arg, s>>
<1>1. call[w] \in SendCalls
  <2>1. CallOK(call[w])
    BY DEF BridgeInv, TypeOK
  <2> QED BY <2>1 DEF CallOK, Kinds
<1>2. call[w].arg \in Peers /\ m \in Messages
  BY <1>1 DEF SendCalls, Messages
<1>3. posted' \subseteq Messages
  BY <1>2 DEF BridgeInv, TypeOK
<1>4. RefTo(m) \in Refs
  BY <1>2, RefIsExact
<1>5. PICK c \in SendCalls, p \in {"put", "respond"} :
        /\ pc' = [pc EXCEPT ![w] = p]
        /\ call' = [call EXCEPT ![w] = c]
        /\ c.op = "send"
        /\ p = "put" => c.ref = RefTo(m)
        /\ p = "respond" => c.code = "1500"
  <2>1. CASE Continue(w, "put", RefTo(m))
    <3>1. [call[w] EXCEPT !.ref = RefTo(m)] \in SendCalls
      BY <1>1, <1>4 DEF SendCalls
    <3>2. /\ [call[w] EXCEPT !.ref = RefTo(m)].ref = RefTo(m)
          /\ [call[w] EXCEPT !.ref = RefTo(m)].op = "send"
      BY <1>1 DEF SendCalls
    <3> QED BY <2>1, <3>1, <3>2 DEF Continue
  <2>2. CASE Respond(w, "1500")
    <3>1. [call[w] EXCEPT !.code = "1500"] \in SendCalls
      BY <1>1 DEF SendCalls
    <3>2. /\ [call[w] EXCEPT !.code = "1500"].code = "1500"
          /\ [call[w] EXCEPT !.code = "1500"].op = "send"
      BY <1>1 DEF SendCalls
    <3> QED BY <2>2, <3>1, <3>2 DEF Respond
  <2> QED BY <2>1, <2>2
<1>6. /\ pc' \in [Workers -> {"idle", "lookup", "upstream", "put", "respond"}]
      /\ call' = [v \in Workers |-> call'[v]]
      /\ \A v \in Workers :
           IF pc'[v] = "idle" THEN call'[v] = None ELSE CallOK(call'[v])
      /\ pc'[w] = p
      /\ call'[w] = c
      /\ \A v \in Workers \ {w} : pc'[v] = pc[v] /\ call'[v] = call[v]
  <2>1. CallOK(c)
    BY <1>5 DEF CallOK
  <2> QED BY <1>5, <2>1, CallTypes DEF BridgeInv
<1>7. TypeOK'
  BY <1>3, <1>6 DEF BridgeInv, TypeOK, channelVars, loopVars, mapVars, toldVars
<1>8. Keeps
  BY DEF Keeps, mapVars
<1>9. NotifiedExists' /\ EntriesExact' /\ AboutToTell'
  BY DEF BridgeInv, NotifiedExists, Exists, EntriesExact, AboutToTell,
         channelVars, loopVars, mapVars
<1>10. SentExact(w)' /\ LookedUpExact(w)'
  BY <1>5, <1>6 DEF SentExact, LookedUpExact, Kinds
<1>11. Accounted'
  BY <1>8, AccountedStays DEF channelVars, loopVars
<1> QED BY <1>3, <1>6, <1>7, <1>8, <1>9, <1>10, <1>11, ToldStays, OtherCallsStay
        DEF BridgeInv

(* The entry of a message that was sent resolves. *)
LEMMA PutSentInv ==
  ASSUME BridgeInv, NEW w \in Workers, PutSent(w)
  PROVE  BridgeInv'
<1> USE DEF PutSent
<1> DEFINE c == [call[w] EXCEPT !.code = "ok"]
<1>1. CallOK(call[w]) /\ SentExact(w) /\ LookedUpExact(w)
  BY DEF BridgeInv, TypeOK, CallsExact
<1>2. call[w] \in SendCalls /\ call[w].op = "send"
  <2>1. call[w].op = "send"
    BY <1>1 DEF CallOK, SentExact, LookedUpExact, SendCalls, MessageCalls,
                DecisionCalls
  <2> QED BY <1>1, <2>1 DEF CallOK, Kinds
<1>3. PICK m \in posted : call[w].ref = RefTo(m)
  BY <1>1, <1>2 DEF SentExact
<1>4. /\ m \in Messages /\ RefTo(m) \in Refs /\ RefTo(m) # None
      /\ m[2] \in Ids /\ RefTo(m).seq = m[2]
  BY RefIsExact DEF BridgeInv, TypeOK
<1>5. /\ items' = [items EXCEPT ![m[2]] = RefTo(m)]
      /\ items \in [Ids -> Refs \union {None}]
  BY <1>3, <1>4 DEF BridgeInv, TypeOK
<1>6. c \in SendCalls /\ c.op = "send" /\ c.ref = RefTo(m)
  BY <1>2, <1>3 DEF SendCalls
<1> HIDE DEF c
<1>7. pc' = [pc EXCEPT ![w] = "respond"] /\ call' = [call EXCEPT ![w] = c] /\ CallOK(c)
  BY <1>6 DEF Respond, c, CallOK
<1>8. /\ pc' \in [Workers -> {"idle", "lookup", "upstream", "put", "respond"}]
      /\ call' = [v \in Workers |-> call'[v]]
      /\ \A v \in Workers :
           IF pc'[v] = "idle" THEN call'[v] = None ELSE CallOK(call'[v])
      /\ pc'[w] = "respond"
      /\ call'[w] = c
      /\ \A v \in Workers \ {w} : pc'[v] = pc[v] /\ call'[v] = call[v]
  BY <1>7, CallTypes DEF BridgeInv
<1>9. Keeps
  BY <1>4, <1>5 DEF Keeps, milkyVars
<1>10. TypeOK'
  BY <1>4, <1>5, <1>8 DEF BridgeInv, TypeOK, milkyVars, channelVars, loopVars, toldVars
<1>11. NotifiedExists'
  BY DEF BridgeInv, NotifiedExists, Exists, milkyVars, channelVars, loopVars
<1>12. EntriesExact'
  BY <1>4, <1>5 DEF BridgeInv, EntriesExact, milkyVars
<1>13. AboutToTell'
  <2>1. ASSUME loop = "broadcast", current.e.kind = "message"
        PROVE  items'[current.e.what[2]] # None
    <3>1. current \in Numbered
      BY <2>1 DEF BridgeInv, TypeOK, NotifiedExists, Busy
    <3>2. current.e.what \in Messages
      BY <2>1, <3>1 DEF Numbered, Notifications
    <3> QED BY <1>9, <2>1, <3>2, RefIsExact DEF BridgeInv, AboutToTell, Keeps
  <2> QED BY <2>1 DEF BridgeInv, AboutToTell, loopVars
<1>14. SentExact(w)' /\ LookedUpExact(w)'
  BY <1>3, <1>4, <1>5, <1>6, <1>8 DEF SentExact, LookedUpExact, Kinds, milkyVars
<1>15. Accounted'
  BY <1>9, AccountedStays DEF milkyVars, channelVars, loopVars
<1> QED BY <1>8, <1>9, <1>10, <1>11, <1>12, <1>13, <1>14, <1>15, ToldStays,
           OtherCallsStay DEF BridgeInv

(* Milky recalls a message that exists. *)
LEMMA MilkyRecallsInv ==
  ASSUME BridgeInv, NEW w \in Workers, MilkyRecalls(w)
  PROVE  BridgeInv'
<1>1. call[w] \in MessageCalls
  BY DEF MilkyRecalls, BridgeInv, TypeOK, CallOK, Kinds
<1>2. PICK code \in {"ok", "1500"} : Respond(w, code)
  BY DEF MilkyRecalls
<1>3. CallOK([call[w] EXCEPT !.code = code])
  BY <1>1 DEF MilkyRecalls, CallOK, MessageCalls
<1>4. recalled' \subseteq posted
  BY DEF MilkyRecalls, BridgeInv, TypeOK
<1> QED BY <1>2, <1>3, <1>4, RespondInv DEF MilkyRecalls

(* Finding a message changes nothing. *)
LEMMA MilkyFindsInv ==
  ASSUME BridgeInv, NEW w \in Workers, MilkyFinds(w)
  PROVE  BridgeInv'
<1>1. call[w] \in MessageCalls
  BY DEF MilkyFinds, BridgeInv, TypeOK, CallOK, Kinds
<1>2. PICK code \in {"ok", "absent"} : Respond(w, code)
  BY DEF MilkyFinds
<1>3. CallOK([call[w] EXCEPT !.code = code])
  BY <1>1 DEF MilkyFinds, CallOK, MessageCalls
<1> QED BY <1>2, <1>3, RespondInv DEF MilkyFinds, milkyVars, BridgeInv, TypeOK

(* A decision changes nothing here. *)
LEMMA MilkyDecidesInv ==
  ASSUME BridgeInv, NEW w \in Workers, MilkyDecides(w)
  PROVE  BridgeInv'
<1>1. call[w] \in DecisionCalls
  BY DEF MilkyDecides, BridgeInv, TypeOK, CallOK, Kinds
<1>2. CallOK([call[w] EXCEPT !.code = "ok"])
  BY <1>1 DEF MilkyDecides, CallOK, DecisionCalls
<1> QED BY <1>2, RespondInv DEF MilkyDecides, Kinds, milkyVars, BridgeInv, TypeOK

(* Nor does a refusal. *)
LEMMA MilkyRefusesInv ==
  ASSUME BridgeInv, NEW w \in Workers, MilkyRefuses(w)
  PROVE  BridgeInv'
<1>1. CallOK(call[w])
  BY DEF MilkyRefuses, BridgeInv, TypeOK
<1>2. CallOK([call[w] EXCEPT !.code = "1500"])
  BY <1>1 DEF CallOK, SendCalls, MessageCalls, DecisionCalls, Kinds
<1> QED BY <1>2, RespondInv DEF MilkyRefuses, milkyVars, BridgeInv, TypeOK

(* The message_id that a response tells resolves. *)
LEMMA ReturnInv ==
  ASSUME BridgeInv, NEW w \in Workers, Return(w)
  PROVE  BridgeInv'
<1> USE DEF Return
<1>1. /\ pc' \in [Workers -> {"idle", "lookup", "upstream", "put", "respond"}]
      /\ call' = [v \in Workers |-> call'[v]]
      /\ \A v \in Workers :
           IF pc'[v] = "idle" THEN call'[v] = None ELSE CallOK(call'[v])
      /\ pc'[w] = "idle"
      /\ \A v \in Workers \ {w} : pc'[v] = pc[v] /\ call'[v] = call[v]
  BY CallTypes DEF BridgeInv
<1>2. NotifiedExists' /\ EntriesExact' /\ AboutToTell' /\ Keeps
  BY DEF BridgeInv, NotifiedExists, Exists, EntriesExact,
         AboutToTell, Keeps, milkyVars, channelVars, loopVars, mapVars
<1>3. ASSUME call[w].op = "send", call[w].code = "ok"
      PROVE  /\ call[w].ref.seq \in Ids
             /\ Target(call[w].ref) \in Messages
             /\ Target(call[w].ref) \in posted
             /\ call[w].ref.seq = Target(call[w].ref)[2]
             /\ items[call[w].ref.seq] # None
  <2>1. SentExact(w)
    BY DEF BridgeInv, CallsExact
  <2>2. PICK m \in posted : call[w].ref = RefTo(m)
    BY <1>3, <2>1 DEF SentExact
  <2>3. m \in Messages /\ items[call[w].ref.seq] # None
    BY <1>3, <2>1 DEF SentExact, BridgeInv, TypeOK
  <2> QED BY <2>2, <2>3, RefIsExact
<1>4. TypeOK' /\ ToldExact'
  <2>1. CASE call[w].op = "send" /\ call[w].code = "ok"
    BY <1>1, <1>3, <2>1
       DEF BridgeInv, TypeOK, ToldExact, milkyVars, channelVars, loopVars, mapVars
  <2>2. CASE UNCHANGED toldIds
    BY <1>1, <2>2
       DEF BridgeInv, TypeOK, ToldExact, milkyVars, channelVars, loopVars, mapVars
  <2> QED BY <2>1, <2>2
<1>5. Accounted'
  BY <1>2, AccountedStays DEF milkyVars, channelVars, loopVars
<1> QED BY <1>1, <1>2, <1>4, <1>5, OtherCallsStay DEF BridgeInv

-----------------------------------------------------------------------------
(* Every step keeps the invariant. *)
LEMMA NextInv ==
  ASSUME BridgeInv, [Next]_vars
  PROVE  BridgeInv'
<1>1. CASE UNCHANGED vars
  <2>1. Keeps /\ NotifiedExists' /\ Accounted' /\ EntriesExact' /\ AboutToTell'
    BY <1>1, RestStays DEF vars, milkyVars
  <2>2. TypeOK'
    BY <1>1 DEF vars, milkyVars, channelVars, loopVars, mapVars, toldVars,
                callVars, BridgeInv, TypeOK
  <2> QED BY <1>1, <2>1, <2>2, ToldStays, CallsStay DEF vars, BridgeInv
<1>2. CASE LoopStep
  BY <1>2, TakeEventInv, TranslateMessageInv, NumberRequestInv, StoreRequestInv,
     TranslateRecallInv, BroadcastInv, LoopMovesInv DEF LoopStep, Translate
<1>3. CASE MilkyStep
  BY <1>3, UserPostsInv, UserRecallsInv, UserRequestsInv, EmitInv DEF MilkyStep
<1>4. ASSUME NEW w \in Workers, WorkerStep(w) PROVE BridgeInv'
  BY <1>4, AskSendInv, AskMessageInv, AskDecisionInv, LookupMessageInv,
     LookupRequestInv, MilkyPostsInv, PutSentInv, MilkyRecallsInv, MilkyFindsInv,
     MilkyDecidesInv, MilkyRefusesInv, ReturnInv DEF WorkerStep
<1> QED BY <1>1, <1>2, <1>3, <1>4 DEF Next

(* At all times, whatever the calls, the loop and Milky do: what was told    *)
(* exists and, but for recalls, resolves; what is to be told does so before *)
(* it is told; every message of a user is entered, under way or lost.       *)
THEOREM BridgeInvariant == Spec => []BridgeInv
<1>1. Init => BridgeInv
  BY InitInv
<1>2. BridgeInv /\ [Next]_vars => BridgeInv'
  BY NextInv
<1> QED BY <1>1, <1>2, PTL DEF Spec

(* The maps, the channel and the calls keep their types. *)
THEOREM BridgeTypes == Spec => []TypeOK
<1>1. BridgeInv => TypeOK
  BY DEF BridgeInv
<1> QED BY <1>1, BridgeInvariant, PTL

(* Whatever messages, responses and requests told the bots resolves for ever. *)
THEOREM NamesResolve == Spec => []ToldResolves
<1>1. BridgeInv => ToldResolves
  <2> SUFFICES ASSUME BridgeInv PROVE ToldResolves
    OBVIOUS
  <2>1. ASSUME NEW t \in toldFlags PROVE requests[t[1]] # None
    BY NoneAssumption DEF BridgeInv, TypeOK, ToldExact
  <2> QED BY <2>1 DEF BridgeInv, ToldExact, ToldResolves
<1> QED BY <1>1, BridgeInvariant, PTL

(* A recall tells an id that does not resolve only of a message that is     *)
(* under way still, was dropped, or was sent by the bridge itself.         *)
THEOREM RecallsResolve == Spec => []RecallResolves
<1>1. BridgeInv => RecallResolves
  <2> SUFFICES ASSUME BridgeInv, NEW t \in recallIds, t[2] \notin sent
               PROVE  items[t[1]] # None \/ UnderWay(t[2]) \/ Lost(t[2])
    BY DEF RecallResolves
  <2>1. t[2] \in posted /\ t[1] = t[2][2]
    BY DEF BridgeInv, ToldExact
  <2> QED BY <2>1 DEF BridgeInv, Accounted
<1> QED BY <1>1, BridgeInvariant, PTL

(* A call reaches Milky for the message or request that is meant, or for a   *)
(* message with the same seq in another conversation.                      *)
THEOREM CallsActOnMeant == Spec => []ActsOnMeant
<1>1. BridgeInv => ActsOnMeant
  <2> SUFFICES ASSUME BridgeInv, NEW w \in Workers, pc[w] = "upstream",
                      call[w].meant # None
               PROVE  IF call[w].op \in Kinds
                        THEN call[w].ref = call[w].meant /\ call[w].meant[1] = call[w].op
                        ELSE \/ Target(call[w].ref) = call[w].meant
                             \/ /\ Target(call[w].ref) \in posted
                                /\ Namesakes(Target(call[w].ref), call[w].meant)
    BY DEF ActsOnMeant
  <2>1. CallOK(call[w]) /\ LookedUpExact(w)
    BY DEF BridgeInv, TypeOK, CallsExact
  <2>2. CASE call[w].op \in Kinds
    BY <2>1, <2>2 DEF LookedUpExact
  <2>3. CASE call[w].op \in {"delete", "get"}
    <3>1. PICK m \in posted : call[w].ref = RefTo(m) /\ m[2] = call[w].arg
      BY <2>1, <2>3 DEF LookedUpExact
    <3>2. Target(call[w].ref) = m
      BY <3>1, RefIsExact DEF BridgeInv, TypeOK
    <3>3. call[w].meant[2] = call[w].arg
      BY <2>1, <2>3 DEF LookedUpExact
    <3> QED BY <2>3, <3>1, <3>2, <3>3 DEF Namesakes, Kinds
  <2>4. CASE call[w].op = "send"
    BY <2>1, <2>4 DEF CallOK, SendCalls, MessageCalls, DecisionCalls, Kinds
  <2> QED BY <2>1, <2>2, <2>3, <2>4 DEF CallOK
<1> QED BY <1>1, BridgeInvariant, PTL

-----------------------------------------------------------------------------
(* RequestMap as a directory: StoreRequest binds a flag, Broadcast of a      *)
(* request tells one that is bound, all else is a stutter.                 *)

(* Every step of the bridge is one of the directory of flags. *)
LEMMA RequestFlagsStep ==
  ASSUME BridgeInv, [Next]_vars
  PROVE  [RequestFlags!Next]_(RequestFlags!directoryVars)
<1>1. CASE UNCHANGED <<requests, toldFlags>>
  BY <1>1 DEF RequestFlags!directoryVars
<1>2. CASE StoreRequest
  <2>1. current.e.what \in Requests
    BY <1>2 DEF StoreRequest, BridgeInv, TypeOK, NotifiedExists, Busy,
                AboutToTell, Numbered, Notifications
  <2>2. flag \in Flags /\ requests[flag] = None
    BY <1>2 DEF StoreRequest, BridgeInv, AboutToTell
  <2>3. requests'[flag] = current.e.what /\ UNCHANGED toldFlags
    BY <1>2, <2>2 DEF StoreRequest, BridgeInv, TypeOK, toldVars
  <2>4. RequestFlags!Bind(flag, requests'[flag])
    BY <1>2, <2>1, <2>2, <2>3, NoneAssumption DEF StoreRequest, RequestFlags!Bind
  <2> QED BY <2>2, <2>4 DEF RequestFlags!Next
<1>3. CASE Broadcast
  <2>1. CASE current.e.kind = "request"
    <3>1. current.e.what \in Requests
      BY <1>3, <2>1 DEF Broadcast, BridgeInv, TypeOK, NotifiedExists, Busy,
                        Numbered, Notifications
    <3>2. PICK f \in Flags : f = flag
      BY <1>3, <2>1, <3>1, NoneAssumption
         DEF Broadcast, BridgeInv, TypeOK, AboutToTell
    <3>3. requests[f] = current.e.what /\ requests[f] # None
      BY <1>3, <2>1, <3>1, <3>2, NoneAssumption
         DEF Broadcast, BridgeInv, AboutToTell
    <3>4. toldFlags' = toldFlags \union {<<f, requests[f]>>}
      BY <1>3, <2>1, <3>2, <3>3 DEF Broadcast
    <3>5. RequestFlags!Tell(f)
      BY <1>3, <3>3, <3>4 DEF Broadcast, mapVars, RequestFlags!Tell
    <3> QED BY <3>5 DEF RequestFlags!Next
  <2>2. CASE current.e.kind # "request"
    BY <1>1, <1>3, <2>2 DEF Broadcast, mapVars
  <2> QED BY <2>1, <2>2
<1>4. CASE TakeEvent \/ RunEnds \/ TakeTick \/ TranslateMessage \/ NumberRequest
            \/ TranslateRecall \/ BroadcastReturns
  BY <1>1, <1>4 DEF TakeEvent, RunEnds, TakeTick, TranslateMessage, NumberRequest,
                    TranslateRecall, BroadcastReturns, mapVars, toldVars
<1>5. CASE MilkyStep
  BY <1>1, <1>5 DEF MilkyStep, UserPosts, UserRecalls, UserRequests, Emit,
                    mapVars, toldVars
<1>6. ASSUME NEW w \in Workers, WorkerStep(w)
      PROVE  UNCHANGED <<requests, toldFlags>>
  BY <1>6 DEF WorkerStep, AskSend, AskMessage, AskDecision, Asks, LookupMessage,
              LookupRequest, MilkyPosts, PutSent, MilkyRecalls, MilkyFinds,
              MilkyDecides, MilkyRefuses, Return, mapVars, toldVars
<1>7. CASE UNCHANGED vars
  BY <1>1, <1>7 DEF vars, mapVars, toldVars
<1> QED BY <1>1, <1>2, <1>3, <1>4, <1>5, <1>6, <1>7 DEF Next, LoopStep,
        Translate

(* RequestMap is a directory of flags. *)
THEOREM RequestFlagsAreNames == Spec => RequestFlagsSpec
<1>1. Init => RequestFlags!Init
  BY DEF Init, RequestFlags!Init
<1>2. BridgeInv /\ [Next]_vars => [RequestFlags!Next]_(RequestFlags!directoryVars)
  BY RequestFlagsStep
<1> QED BY <1>1, <1>2, BridgeInvariant, PTL DEF Spec, RequestFlagsSpec, RequestFlags!Spec

-----------------------------------------------------------------------------
(* The order of events. What is ahead of the bots is                        *)
(* the notification under translation and those in the channel.            *)
Ahead == IF current = None THEN events ELSE <<current>> \o events

Ordered(s, last) ==
  \A i \in 1..Len(s) : s[i].n > IF i = 1 THEN last ELSE s[i - 1].n

Complete(s, last, end, lost) ==
  \A n \in (last + 1)..end : n \in lost \/ \E i \in 1..Len(s) : s[i].n = n

ChannelInv ==
  /\ inbox \subseteq Notifications
  /\ emitted \in Nat
  /\ lastTold \in 0..emitted
  /\ events \in Seq(Numbered)
  /\ IF loop \in Idle THEN current = None ELSE current \in Numbered
  /\ \A i \in 1..Len(Ahead) : Ahead[i].n <= emitted
  /\ Ordered(Ahead, lastTold)
  /\ Complete(Ahead, lastTold, emitted, DroppedNumbers)

(* What Ahead is at each place of the loop, and that EventsAccounted is     *)
(* about it.                                                               *)
LEMMA AheadIs ==
  ASSUME ChannelInv
  PROVE  /\ Ahead \in Seq(Numbered)
         /\ loop \in Idle => Ahead = events
         /\ loop \notin Idle => Ahead = <<current>> \o events /\ current # None
         /\ EventsAccounted
<1>1. loop \in Idle => Ahead = events
  BY DEF ChannelInv, Ahead
<1>2. loop \notin Idle => Ahead = <<current>> \o events /\ current # None
  BY NoneAssumption DEF ChannelInv, Ahead
<1>3. Ahead \in Seq(Numbered)
  <2>1. CASE loop \in Idle
    BY <1>1, <2>1 DEF ChannelInv
  <2>2. CASE loop \notin Idle
    <3>1. current \in Numbered /\ events \in Seq(Numbered)
      BY <2>2 DEF ChannelInv
    <3>2. <<current>> \o events \in Seq(Numbered)
      BY <3>1
    <3> QED BY <1>2, <2>2, <3>2
  <2> QED BY <2>1, <2>2
<1>4. EventsAccounted
  BY DEF ChannelInv, EventsAccounted, Ahead, Ordered, Complete
<1> QED BY <1>1, <1>2, <1>3, <1>4

(* A later number appended keeps a sequence ordered and completes it.       *)
LEMMA AppendOrdered ==
  ASSUME NEW s \in Seq(Numbered), NEW last \in Nat, NEW end \in Nat, NEW lost,
         last <= end, Ordered(s, last), Complete(s, last, end, lost),
         \A i \in 1..Len(s) : s[i].n <= end,
         NEW x \in Numbered, x.n = end + 1
  PROVE  /\ Ordered(Append(s, x), last)
         /\ Complete(Append(s, x), last, end + 1, lost)
         /\ \A i \in 1..Len(Append(s, x)) : Append(s, x)[i].n <= end + 1
<1> DEFINE t == Append(s, x)
<1>1. /\ Len(s) \in Nat /\ Len(t) = Len(s) + 1
      /\ t[Len(s) + 1] = x
      /\ \A i \in 1..Len(s) : t[i] = s[i] /\ s[i] \in Numbered
  OBVIOUS
<1> HIDE DEF t
<1>2. \A i \in 1..Len(s) : s[i].n \in Nat
  BY <1>1 DEF Numbered
<1>3. \A i \in 1..Len(t) : t[i].n <= end + 1
  BY <1>1, <1>2
<1>4. Ordered(t, last)
  <2> SUFFICES ASSUME NEW i \in 1..Len(t)
               PROVE  t[i].n > IF i = 1 THEN last ELSE t[i - 1].n
    BY DEF Ordered
  <2>1. CASE i \in 1..Len(s)
    <3>1. i # 1 => i - 1 \in 1..Len(s)
      BY <1>1, <2>1
    <3> QED BY <1>1, <2>1, <3>1 DEF Ordered
  <2>2. CASE i = Len(s) + 1
    <3>1. i # 1 => i - 1 \in 1..Len(s) /\ t[i - 1].n <= end /\ t[i - 1].n \in Nat
      BY <1>1, <1>2, <2>2
    <3> QED BY <1>1, <2>2, <3>1
  <2> QED BY <1>1, <2>1, <2>2
<1>5. Complete(t, last, end + 1, lost)
  <2> SUFFICES ASSUME NEW n \in (last + 1)..(end + 1), n \notin lost
               PROVE  \E i \in 1..Len(t) : t[i].n = n
    BY DEF Complete
  <2>1. CASE n = end + 1
    BY <1>1, <2>1
  <2>2. CASE n # end + 1
    <3>1. PICK i \in 1..Len(s) : s[i].n = n
      BY <2>2 DEF Complete
    <3> QED BY <1>1, <3>1
  <2> QED BY <2>1, <2>2
<1> QED BY <1>3, <1>4, <1>5 DEF t

(* Once the first of a sequence is told, the rest is ordered after it.      *)
LEMMA RestOrdered ==
  ASSUME NEW c \in Numbered, NEW s \in Seq(Numbered), NEW last \in Nat,
         NEW end \in Nat, NEW lost,
         Ordered(<<c>> \o s, last), Complete(<<c>> \o s, last, end, lost),
         \A i \in 1..Len(<<c>> \o s) : (<<c>> \o s)[i].n <= end
  PROVE  /\ c.n \in last..end
         /\ Ordered(s, c.n)
         /\ Complete(s, c.n, end, lost)
         /\ \A i \in 1..Len(s) : s[i].n <= end
<1> DEFINE t == <<c>> \o s
<1>1. /\ Len(s) \in Nat /\ Len(t) = Len(s) + 1
      /\ t[1] = c
      /\ \A i \in 1..Len(s) : t[i + 1] = s[i] /\ s[i] \in Numbered
  OBVIOUS
<1>2. Ordered(t, last) /\ Complete(t, last, end, lost)
  OBVIOUS
<1>3. \A i \in 1..Len(t) : t[i].n <= end
  OBVIOUS
<1> HIDE DEF t
<1>4. c.n \in Nat /\ \A i \in 1..Len(s) : s[i].n \in Nat
  BY <1>1 DEF Numbered
<1>5. 1 \in 1..Len(t) /\ \A i \in 1..Len(s) : i + 1 \in 1..Len(t)
  BY <1>1
<1>6. c.n > last /\ c.n <= end /\ \A i \in 1..Len(s) : s[i].n <= end
  BY <1>1, <1>2, <1>3, <1>5 DEF Ordered
<1>7. Ordered(s, c.n)
  <2> SUFFICES ASSUME NEW i \in 1..Len(s)
               PROVE  s[i].n > IF i = 1 THEN c.n ELSE s[i - 1].n
    BY DEF Ordered
  <2>1. t[i + 1].n > t[i].n
    BY <1>2, <1>5 DEF Ordered
  <2>2. CASE i = 1
    BY <1>1, <2>1, <2>2
  <2>3. CASE i # 1
    <3>1. i - 1 \in 1..Len(s) /\ t[(i - 1) + 1] = s[i - 1] /\ (i - 1) + 1 = i
      BY <1>1, <2>3
    <3> QED BY <1>1, <2>1, <2>3, <3>1
  <2> QED BY <2>2, <2>3
<1>8. Complete(s, c.n, end, lost)
  <2> SUFFICES ASSUME NEW n \in (c.n + 1)..end, n \notin lost
               PROVE  \E i \in 1..Len(s) : s[i].n = n
    BY DEF Complete
  <2>1. PICK j \in 1..Len(t) : t[j].n = n
    BY <1>2, <1>4, <1>6 DEF Complete
  <2>2. j # 1
    BY <1>1, <1>4, <2>1
  <2>3. PICK i \in 1..Len(s) : j = i + 1
    <3>1. j - 1 \in 1..Len(s) /\ j = (j - 1) + 1
      BY <1>1, <2>1, <2>2
    <3> QED BY <3>1
  <2> QED BY <1>1, <2>1, <2>3
<1> QED BY <1>4, <1>6, <1>7, <1>8

(* An emitted notification is the last one ahead, or is dropped. *)
LEMMA EmitOrdered ==
  ASSUME ChannelInv, NEW e \in inbox, Emit(e)
  PROVE  ChannelInv'
<1> USE DEF Emit
<1> DEFINE x == [n |-> emitted + 1, e |-> e]
<1>1. x \in Numbered /\ x.n = emitted + 1 /\ emitted \in Nat /\ lastTold \in 0..emitted
  BY DEF ChannelInv, Numbered
<1>2. Ahead \in Seq(Numbered) /\ events \in Seq(Numbered)
  BY AheadIs DEF ChannelInv
<1>3. inbox' \subseteq Notifications /\ UNCHANGED <<loop, current, lastTold>>
  BY DEF ChannelInv, loopVars
<1>4. CASE Len(events) < Buffer
  <2>1. events' = Append(events, x) /\ UNCHANGED dropped
    BY <1>4
  <2>2. events' \in Seq(Numbered)
    BY <1>1, <1>2, <2>1
  <2>3. Ahead' = Append(Ahead, x)
    <3>1. CASE current = None
      BY <1>3, <2>1, <3>1 DEF Ahead
    <3>2. CASE current # None
      <4>1. current \in Numbered
        BY <3>2 DEF ChannelInv
      <4>2. <<current>> \o Append(events, x) = Append(<<current>> \o events, x)
        BY <1>1, <1>2, <4>1
      <4> QED BY <1>3, <2>1, <3>2, <4>2 DEF Ahead
    <3> QED BY <3>1, <3>2
  <2> HIDE DEF x
  <2>4. /\ Ordered(Append(Ahead, x), lastTold)
        /\ Complete(Append(Ahead, x), lastTold, emitted + 1, DroppedNumbers)
        /\ \A i \in 1..Len(Append(Ahead, x)) : Append(Ahead, x)[i].n <= emitted + 1
    <3>1. PICK lost : lost = DroppedNumbers
      BY Zenon
    <3>2. /\ Ordered(Ahead, lastTold)
          /\ Complete(Ahead, lastTold, emitted, lost)
          /\ \A i \in 1..Len(Ahead) : Ahead[i].n <= emitted
      BY <3>1, Zenon DEF ChannelInv
    <3>3. lastTold \in Nat /\ lastTold <= emitted
      BY <1>1
    <3>4. /\ Ordered(Append(Ahead, x), lastTold)
          /\ Complete(Append(Ahead, x), lastTold, emitted + 1, lost)
          /\ \A i \in 1..Len(Append(Ahead, x)) : Append(Ahead, x)[i].n <= emitted + 1
      BY <1>1, <1>2, <3>2, <3>3, AppendOrdered
    <3> QED BY <3>1, <3>4, Zenon
  <2>5. emitted' = emitted + 1
    OBVIOUS
  <2>6. UNCHANGED DroppedNumbers
    BY <2>1 DEF DroppedNumbers
  <2> QED BY <1>1, <1>3, <2>1, <2>2, <2>3, <2>4, <2>5, <2>6 DEF ChannelInv
<1>5. CASE ~(Len(events) < Buffer)
  <2>1. UNCHANGED events /\ dropped' = dropped \union {x} /\ emitted' = emitted + 1
    BY <1>5
  <2>2. Ahead' = Ahead
    BY <1>3, <2>1 DEF Ahead
  <2>3. \A i \in 1..Len(Ahead) : Ahead[i].n <= emitted + 1
    <3>1. \A i \in 1..Len(Ahead) : Ahead[i] \in Numbered
      BY <1>2
    <3>2. \A i \in 1..Len(Ahead) : Ahead[i].n \in Nat
      BY <3>1 DEF Numbered
    <3> QED BY <1>1, <3>2 DEF ChannelInv
  <2>4. Complete(Ahead, lastTold, emitted + 1, DroppedNumbers')
    <3>1. DroppedNumbers \subseteq DroppedNumbers' /\ emitted + 1 \in DroppedNumbers'
      BY <1>1, <2>1 DEF DroppedNumbers
    <3> QED BY <1>1, <3>1 DEF ChannelInv, Complete
  <2> QED BY <1>1, <1>3, <2>1, <2>2, <2>3, <2>4 DEF ChannelInv
<1> QED BY <1>4, <1>5

(* Taking a notification moves it from the channel to the loop. *)
LEMMA TakeOrdered ==
  ASSUME ChannelInv, TakeEvent
  PROVE  ChannelInv'
<1> USE DEF TakeEvent
<1>1. events \in Seq(Numbered) /\ events # <<>>
  BY DEF ChannelInv
<1>2. /\ Head(events) \in Numbered /\ Tail(events) \in Seq(Numbered)
      /\ <<Head(events)>> \o Tail(events) = events
  BY <1>1
<1>3. Ahead' = Ahead
  <2>1. Ahead = events
    BY AheadIs DEF Idle
  <2>2. current' # None
    BY <1>2, NoneAssumption
  <2> QED BY <1>2, <2>1, <2>2 DEF Ahead
<1>4. loop' \notin Idle /\ UNCHANGED DroppedNumbers
  BY DEF Idle, DroppedNumbers
<1> QED BY <1>2, <1>3, <1>4 DEF ChannelInv

(* Broadcast tells the first one ahead. *)
LEMMA BroadcastOrdered ==
  ASSUME ChannelInv, Broadcast
  PROVE  ChannelInv'
<1> USE DEF Broadcast, channelVars
<1>1. /\ current \in Numbered /\ events \in Seq(Numbered)
      /\ emitted \in Nat /\ lastTold \in Nat
  BY DEF ChannelInv, Idle
<1>2. Ahead = <<current>> \o events
  BY AheadIs DEF Idle
<1>3. Ahead' = events
  BY DEF Ahead
<1>4. /\ current.n \in lastTold..emitted
      /\ Ordered(events, current.n)
      /\ Complete(events, current.n, emitted, DroppedNumbers)
      /\ \A i \in 1..Len(events) : events[i].n <= emitted
  BY <1>1, <1>2, RestOrdered DEF ChannelInv
<1>5. loop' \in Idle /\ UNCHANGED DroppedNumbers
  BY DEF Idle, DroppedNumbers
<1> QED BY <1>1, <1>3, <1>4, <1>5 DEF ChannelInv

(* All else leaves the order alone. *)
LEMMA ChannelStep ==
  ASSUME ChannelInv, [Next]_vars
  PROVE  ChannelInv'
<1>1. ASSUME UNCHANGED <<emitted, dropped, events, current, lastTold>>,
             inbox' \subseteq Notifications,
             loop' \in Idle <=> loop \in Idle
      PROVE  ChannelInv'
  <2>1. Ahead' = Ahead
    BY <1>1 DEF Ahead
  <2>2. UNCHANGED DroppedNumbers
    BY <1>1 DEF DroppedNumbers
  <2> QED BY <1>1, <2>1, <2>2 DEF ChannelInv
<1>2. CASE MilkyStep
  <2>1. ASSUME NEW p \in Peers, NEW s \in Ids, UserPosts(p, s) PROVE ChannelInv'
    BY <1>1, <2>1 DEF UserPosts, Push, Notifications, Messages, ChannelInv, loopVars
  <2>2. ASSUME NEW m \in Messages, UserRecalls(m) PROVE ChannelInv'
    BY <1>1, <2>2 DEF UserRecalls, Push, Notifications, ChannelInv, loopVars
  <2>3. ASSUME NEW r \in Requests, UserRequests(r) PROVE ChannelInv'
    BY <1>1, <2>3 DEF UserRequests, Push, Notifications, ChannelInv, loopVars
  <2> QED BY <1>2, <2>1, <2>2, <2>3, EmitOrdered DEF MilkyStep
<1>3. CASE TranslateMessage \/ NumberRequest \/ StoreRequest \/ TranslateRecall
  BY <1>1, <1>3 DEF TranslateMessage, NumberRequest, StoreRequest,
                    TranslateRecall, Idle, channelVars, ChannelInv
<1>4. ASSUME NEW w \in Workers, WorkerStep(w) PROVE ChannelInv'
  BY <1>1, <1>4 DEF WorkerStep, AskSend, AskMessage, AskDecision, Asks,
     LookupMessage, LookupRequest, MilkyPosts, PutSent, MilkyRecalls, MilkyFinds,
     MilkyDecides, MilkyRefuses, Return, channelVars, loopVars, ChannelInv
<1>5. CASE RunEnds \/ TakeTick \/ BroadcastReturns
  BY <1>1, <1>5 DEF RunEnds, TakeTick, BroadcastReturns, Idle, channelVars,
                    ChannelInv
<1>6. CASE UNCHANGED vars
  BY <1>1, <1>6 DEF vars, channelVars, loopVars, ChannelInv
<1> QED BY <1>2, <1>3, <1>4, <1>5, <1>6, TakeOrdered, BroadcastOrdered
        DEF Next, LoopStep, Translate

(* Notifications are told in the order in which the handlers emitted them,  *)
(* and none is lost but on a full Client.events.                           *)
THEOREM EventsInOrder == Spec => []EventsAccounted
<1>1. Init => ChannelInv
  <2> SUFFICES ASSUME Init PROVE ChannelInv
    OBVIOUS
  <2>1. << >> \in Seq(Numbered) /\ Len(<< >>) = 0
    OBVIOUS
  <2>2. Ahead = << >>
    BY DEF Init, Ahead
  <2> QED BY <2>1, <2>2 DEF Init, ChannelInv, Idle, Ordered, Complete
<1>2. ChannelInv /\ [Next]_vars => ChannelInv'
  BY ChannelStep
<1>3. ChannelInv => EventsAccounted
  BY AheadIs
<1> QED BY <1>1, <1>2, <1>3, PTL DEF Spec

=============================================================================
