------------------------------- MODULE Bridge -------------------------------
(***************************************************************************)
(* internal/bridge with the maps of internal/state and the calls of        *)
(* internal/milky: the handlers of the Milky SDK put notifications into    *)
(* Client.events, Service.Run takes them out one by one, toOneBotEvent     *)
(* enters their message ids and flags into MessageMap and RequestMap, and  *)
(* Broadcast tells them to the bots, until Run ends; concurrently the       *)
(* connections call HandleAPI, which looks the ids and flags up and calls   *)
(* Milky.                                                                  *)
(*                                                                         *)
(* Every step is one atomic access to shared memory or to Milky: an entry  *)
(* in a map, a lookup, an upstream call. Milky itself is the environment:  *)
(* it is modelled by what the client sends it and reads from it. Requests  *)
(* that HandleAPI refuses before it touches any of this (bad parameters,   *)
(* unsupported actions) and its queries change nothing and are left out.   *)
(* Broadcast begins and ends here, or does not end; OneBotServer opens it   *)
(* up. Milky's message_seq are unique within a conversation only.          *)
(***************************************************************************)
EXTENDS Naturals, Sequences, FiniteSets

CONSTANTS
  Friends, Groups,  \* the peers of a conversation
  Workers,          \* the goroutines that call HandleAPI
  None,
  Buffer,           \* capacity of Client.events
  MaxSeq,           \* bound: the greatest message_seq
  MaxRequests       \* bound: friend requests and group invitations

ASSUME PeersAssumption ==
  /\ Friends \intersect Groups = {}
  /\ None \notin Friends \union Groups

ASSUME LimitsAssumption ==
  /\ Buffer \in Nat \ {0}
  /\ MaxSeq \in Nat
  /\ MaxRequests \in Nat

Peers == Friends \union Groups
Ids == 1..MaxSeq
Kinds == {"friend", "group"}

(* A Milky message is known by its conversation and its seq in it, a       *)
(* request by what its RequestRef holds.                                   *)
Messages == Peers \X Ids
Requests == Kinds \X (1..MaxRequests)

(* types.MessageRef, without the OneBotID, which is the seq as well. *)
Refs == [type : {"private", "group"}, peer : Peers, seq : Ids]

(* RequestMap's keys: "%s:%d" of the kind and the counter. *)
Flags == Kinds \X (1..MaxRequests)

(* What Milky notifies the client of, and what Client.events holds of it. *)
Notifications ==
  [kind : {"message", "recall"}, what : Messages] \union
  [kind : {"request"}, what : Requests]

Numbered == [n : Nat, e : Notifications]

ASSUME NoneAssumption == None \notin Refs \union Requests \union Numbered

VARIABLES
  posted,     \* Milky: the messages of all conversations
  sent,       \* Milky: the ones that the bridge posted itself
  recalled,   \* Milky: the ones that were recalled
  requested,  \* Milky: the requests made so far
  inbox,      \* notifications whose SDK handler has not run yet
  emitted,    \* how many notifications the handlers have passed to emit
  dropped,    \* the ones of them that found the buffer full, with their numbers
  events,     \* Client.events
  loop,       \* where Service.Run is
  current,    \* the notification it is translating
  flag,       \* the flag it has drawn from RequestMap.counter
  lastTold,   \* number of the last notification that Broadcast was called for
  counter,    \* RequestMap.counter
  items,      \* MessageMap.items
  requests,   \* RequestMap.items
  toldIds,    \* what messages and responses told bots each message_id stands for
  recallIds,  \* what the notices of recalls told them
  toldFlags,  \* what they were told each flag stands for
  pc,         \* where each HandleAPI call is
  call        \* its arguments and results

milkyVars == <<posted, sent, recalled, requested>>
channelVars == <<inbox, emitted, dropped, events>>
loopVars == <<loop, current, flag, lastTold>>
mapVars == <<counter, items, requests>>
toldVars == <<toldIds, recallIds, toldFlags>>
callVars == <<pc, call>>
vars == <<milkyVars, channelVars, loopVars, mapVars, toldVars, callVars>>

(* Seeded faults: an operator that says "Fault" is a copy of the next one   *)
(* with a bug in it; no specification uses it.                             *)

RefTo(m) ==
  [type |-> IF m[1] \in Friends THEN "private" ELSE "group",
   peer |-> m[1], seq |-> m[2]]

(* The message an upstream call with this ref is about. *)
Target(ref) == <<ref.peer, ref.seq>>

-----------------------------------------------------------------------------
(* Milky: messages, recalls and requests of other users, and the           *)
(* notifications it pushes. A nudge travels as a recall does and, like it,  *)
(* enters no map: it is not modelled apart.                                *)

(* Does Milky give the next message of p this seq? *)
FreshSeq(p, s) == <<p, s>> \notin posted

Push(kind, what) == inbox' = inbox \union {[kind |-> kind, what |-> what]}

UserPosts(p, s) ==
  /\ FreshSeq(p, s)
  /\ posted' = posted \union {<<p, s>>}
  /\ Push("message", <<p, s>>)
  /\ UNCHANGED <<sent, recalled, requested, emitted, dropped, events, loopVars,
                 mapVars, toldVars, callVars>>

UserRecalls(m) ==
  /\ m \in posted \ recalled
  /\ recalled' = recalled \union {m}
  /\ Push("recall", m)
  /\ UNCHANGED <<posted, sent, requested, emitted, dropped, events, loopVars,
                 mapVars, toldVars, callVars>>

UserRequests(r) ==
  /\ r \notin requested
  /\ Cardinality(requested) < MaxRequests
  /\ requested' = requested \union {r}
  /\ Push("request", r)
  /\ UNCHANGED <<posted, sent, recalled, emitted, dropped, events, loopVars,
                 mapVars, toldVars, callVars>>

-----------------------------------------------------------------------------
(* Fault: one more than the buffer holds. *)
EmitOneOver(e) ==
  /\ e \in inbox
  /\ inbox' = inbox \ {e}
  /\ emitted' = emitted + 1
  /\ IF Len(events) <= Buffer
       THEN /\ events' = Append(events, [n |-> emitted + 1, e |-> e])
            /\ UNCHANGED dropped
       ELSE /\ dropped' = dropped \union {[n |-> emitted + 1, e |-> e]}
            /\ UNCHANGED events
  /\ UNCHANGED <<milkyVars, loopVars, mapVars, toldVars, callVars>>

(* Fault: a full buffer loses its oldest notification instead. *)
EmitReplacesOldest(e) ==
  /\ e \in inbox
  /\ inbox' = inbox \ {e}
  /\ emitted' = emitted + 1
  /\ events' = Append(IF Len(events) < Buffer THEN events ELSE Tail(events),
                      [n |-> emitted + 1, e |-> e])
  /\ UNCHANGED <<dropped, milkyVars, loopVars, mapVars, toldVars, callVars>>

(* An SDK handler runs, in any order, and calls emit: the notification is   *)
(* dropped when the buffer is full.                                        *)
Emit(e) ==
  /\ e \in inbox
  /\ inbox' = inbox \ {e}
  /\ emitted' = emitted + 1
  /\ IF Len(events) < Buffer
       THEN /\ events' = Append(events, [n |-> emitted + 1, e |-> e])
            /\ UNCHANGED dropped
       ELSE /\ dropped' = dropped \union {[n |-> emitted + 1, e |-> e]}
            /\ UNCHANGED events
  /\ UNCHANGED <<milkyVars, loopVars, mapVars, toldVars, callVars>>

(* Run receives a notification from Events and calls toOneBotEvent. *)
TakeEvent ==
  /\ loop = "select"
  /\ events # <<>>
  /\ current' = Head(events)
  /\ events' = Tail(events)
  /\ loop' = "translate"
  /\ UNCHANGED <<inbox, emitted, dropped, flag, lastTold, milkyVars, mapVars,
                 toldVars, callVars>>

(* Run is done with ctx or with an error of the listener, whatever is still  *)
(* in the channel.                                                         *)
RunEnds ==
  /\ loop = "select"
  /\ loop' = "stopped"
  /\ UNCHANGED <<current, flag, lastTold, milkyVars, channelVars, mapVars,
                 toldVars, callVars>>

(* A heartbeat is broadcast as events are. *)
TakeTick ==
  /\ loop = "select"
  /\ loop' = "writing"
  /\ UNCHANGED <<current, flag, lastTold, milkyVars, channelVars, mapVars,
                 toldVars, callVars>>

(* Fault: a message that has been recalled meanwhile is not entered. *)
TranslateMessageUnlessRecalled ==
  /\ loop = "translate"
  /\ current.e.kind = "message"
  /\ items' = IF current.e.what \in recalled THEN items
                ELSE [items EXCEPT ![current.e.what[2]] = RefTo(current.e.what)]
  /\ loop' = "broadcast"
  /\ UNCHANGED <<current, flag, lastTold, counter, requests, milkyVars,
                 channelVars, toldVars, callVars>>

(* MessageMap.Put for a message. *)
TranslateMessage ==
  /\ loop = "translate"
  /\ current.e.kind = "message"
  /\ items' = [items EXCEPT ![current.e.what[2]] = RefTo(current.e.what)]
  /\ loop' = "broadcast"
  /\ UNCHANGED <<current, flag, lastTold, counter, requests, milkyVars,
                 channelVars, toldVars, callVars>>

(* Fault: the counter does not advance. *)
NumberRequestOverAgain ==
  /\ loop = "translate"
  /\ current.e.kind = "request"
  /\ counter < MaxRequests
  /\ flag' = <<current.e.what[1], counter + 1>>
  /\ loop' = "store"
  /\ UNCHANGED <<current, lastTold, mapVars, milkyVars, channelVars, toldVars,
                 callVars>>

(* RequestMap.Put for a request: it draws the flag before it takes the     *)
(* lock ...                                                                *)
NumberRequest ==
  /\ loop = "translate"
  /\ current.e.kind = "request"
  /\ counter < MaxRequests
  /\ counter' = counter + 1
  /\ flag' = <<current.e.what[1], counter + 1>>
  /\ loop' = "store"
  /\ UNCHANGED <<current, lastTold, items, requests, milkyVars, channelVars,
                 toldVars, callVars>>

(* ... and enters the request under it. *)
StoreRequest ==
  /\ loop = "store"
  /\ requests' = [requests EXCEPT ![flag] = current.e.what]
  /\ loop' = "broadcast"
  /\ UNCHANGED <<current, flag, lastTold, counter, items, milkyVars,
                 channelVars, toldVars, callVars>>

(* Fault: toOneBotEvent has no case for a recall. *)
TranslateRecallUnsupported ==
  /\ loop = "translate"
  /\ current.e.kind = "recall"
  /\ loop' = "select"
  /\ current' = None
  /\ UNCHANGED <<flag, lastTold, mapVars, milkyVars, channelVars, toldVars,
                 callVars>>

(* A recall enters no map, whether its message is there or not. *)
TranslateRecall ==
  /\ loop = "translate"
  /\ current.e.kind = "recall"
  /\ loop' = "broadcast"
  /\ UNCHANGED <<current, flag, lastTold, mapVars, milkyVars, channelVars,
                 toldVars, callVars>>

(* Broadcast begins to tell the bots the event, with its message_id or flag; *)
(* the message_id of a recall is the seq of the message that was recalled. *)
Broadcast ==
  /\ loop = "broadcast"
  /\ loop' = "writing"
  /\ lastTold' = current.n
  /\ current' = None
  /\ flag' = None
  /\ LET e == current.e
         Adding(told, kind, name) ==
           IF e.kind = kind THEN told \union {<<name, e.what>>} ELSE told
     IN
       /\ toldIds' = Adding(toldIds, "message", e.what[2])
       /\ recallIds' = Adding(recallIds, "recall", e.what[2])
       /\ toldFlags' = Adding(toldFlags, "request", flag)
  /\ UNCHANGED <<milkyVars, channelVars, mapVars, callVars>>

(* It returns, if none of its writes lasts for ever. *)
BroadcastReturns ==
  /\ loop = "writing"
  /\ loop' = "select"
  /\ UNCHANGED <<current, flag, lastTold, milkyVars, channelVars, mapVars,
                 toldVars, callVars>>

-----------------------------------------------------------------------------
(* HandleAPI, on the goroutine of a connection or an HTTP request. A bot    *)
(* uses the ids and flags it was told, meaning what it was told they are,   *)
(* or others, meaning nothing.                                             *)

Asks(w, op, arg, meant, state) ==
  /\ pc[w] = "idle"
  /\ pc' = [pc EXCEPT ![w] = state]
  /\ call' = [call EXCEPT ![w] = [op |-> op, arg |-> arg, meant |-> meant,
                                  ref |-> None, code |-> "none"]]
  /\ UNCHANGED <<milkyVars, channelVars, loopVars, mapVars, toldVars>>

MeantBy(name, told) ==
  LET things == {t[2] : t \in {u \in told : u[1] = name}} IN
    IF things = {} THEN {None} ELSE things

(* send_private_msg, send_group_msg, send_msg *)
AskSend(w, p) == Asks(w, "send", p, None, "upstream")

(* delete_msg, get_msg *)
AskMessage(w, op, id) ==
  \E m \in MeantBy(id, toldIds \union recallIds) : Asks(w, op, id, m, "lookup")

(* set_friend_add_request, set_group_add_request *)
AskDecision(w, op, f) ==
  \E r \in MeantBy(f, toldFlags) : Asks(w, op, f, r, "lookup")

(* The call goes on, or has its response and returns it next. *)
Continue(w, state, ref) ==
  /\ pc' = [pc EXCEPT ![w] = state]
  /\ call' = [call EXCEPT ![w].ref = ref]

Respond(w, code) ==
  /\ pc' = [pc EXCEPT ![w] = "respond"]
  /\ call' = [call EXCEPT ![w].code = code]

(* MessageMap.Get; 1502 if the id is not there. *)
LookupMessage(w) ==
  /\ pc[w] = "lookup"
  /\ call[w].op \in {"delete", "get"}
  /\ LET ref == items[call[w].arg] IN
       IF ref = None THEN Respond(w, "1502") ELSE Continue(w, "upstream", ref)
  /\ UNCHANGED <<milkyVars, channelVars, loopVars, mapVars, toldVars>>

(* Fault: the kind of the request is not checked. *)
LookupRequestOfAnyKind(w) ==
  /\ pc[w] = "lookup"
  /\ call[w].op \in Kinds
  /\ LET ref == requests[call[w].arg] IN
       IF ref = None THEN Respond(w, "1502") ELSE Continue(w, "upstream", ref)
  /\ UNCHANGED <<milkyVars, channelVars, loopVars, mapVars, toldVars>>

(* RequestMap.Get; 1502 if the flag is not there, 1400 if it is of the      *)
(* other kind.                                                             *)
LookupRequest(w) ==
  /\ pc[w] = "lookup"
  /\ call[w].op \in Kinds
  /\ LET ref == requests[call[w].arg] IN
       \/ ref = None /\ Respond(w, "1502")
       \/ ref # None /\ ref[1] # call[w].op /\ Respond(w, "1400")
       \/ ref # None /\ ref[1] = call[w].op /\ Continue(w, "upstream", ref)
  /\ UNCHANGED <<milkyVars, channelVars, loopVars, mapVars, toldVars>>

(* SendPrivateMessage, SendGroupMessage: Milky posts the message, and its   *)
(* answer arrives or does not.                                             *)
MilkyPosts(w, s) ==
  /\ pc[w] = "upstream"
  /\ call[w].op = "send"
  /\ FreshSeq(call[w].arg, s)
  /\ posted' = posted \union {<<call[w].arg, s>>}
  /\ sent' = sent \union {<<call[w].arg, s>>}
  /\ \/ Continue(w, "put", RefTo(<<call[w].arg, s>>))
     \/ Respond(w, "1500")
  /\ UNCHANGED <<recalled, requested, channelVars, loopVars, mapVars, toldVars>>

(* Fault: the message is not entered. *)
PutSentForgotten(w) ==
  /\ pc[w] = "put"
  /\ Respond(w, "ok")
  /\ UNCHANGED <<mapVars, milkyVars, channelVars, loopVars, toldVars>>

(* MessageMap.Put for a message that was sent. *)
PutSent(w) ==
  /\ pc[w] = "put"
  /\ items' = [items EXCEPT ![call[w].ref.seq] = call[w].ref]
  /\ Respond(w, "ok")
  /\ UNCHANGED <<counter, requests, milkyVars, channelVars, loopVars, toldVars>>

(* RecallPrivateMessage, RecallGroupMessage: the answer may be lost. *)
MilkyRecalls(w) ==
  /\ pc[w] = "upstream"
  /\ call[w].op = "delete"
  /\ Target(call[w].ref) \in posted \ recalled
  /\ recalled' = recalled \union {Target(call[w].ref)}
  /\ \E code \in {"ok", "1500"} : Respond(w, code)
  /\ UNCHANGED <<posted, sent, requested, channelVars, loopVars, mapVars, toldVars>>

(* Client.GetMessage passes the MessageType as the scene; the scenes that   *)
(* Milky has are those of fromReceiveMessage, "friend" and "group". That   *)
(* the message is absent is a 1500 as well, told apart from the others.    *)
MilkyFinds(w) ==
  /\ pc[w] = "upstream"
  /\ call[w].op = "get"
  /\ IF call[w].ref.type \in {"friend", "group"}
          /\ Target(call[w].ref) \in posted \ recalled
       THEN Respond(w, "ok") ELSE Respond(w, "absent")
  /\ UNCHANGED <<milkyVars, channelVars, loopVars, mapVars, toldVars>>

(* AcceptFriendRequest, RejectFriendRequest, AcceptGroupInvitation,         *)
(* RejectGroupInvitation. A flag is not used up: it can be decided again.   *)
MilkyDecides(w) ==
  /\ pc[w] = "upstream"
  /\ call[w].op \in Kinds
  /\ Respond(w, "ok")
  /\ UNCHANGED <<milkyVars, channelVars, loopVars, mapVars, toldVars>>

(* Milky refuses a call, or it never reaches Milky. *)
MilkyRefuses(w) ==
  /\ pc[w] = "upstream"
  /\ Respond(w, "1500")
  /\ UNCHANGED <<milkyVars, channelVars, loopVars, mapVars, toldVars>>

(* HandleAPI returns; the response to a send tells the bot its message_id. *)
Return(w) ==
  /\ pc[w] = "respond"
  /\ pc' = [pc EXCEPT ![w] = "idle"]
  /\ call' = [call EXCEPT ![w] = None]
  /\ toldIds' = IF call[w].op = "send" /\ call[w].code = "ok"
                  THEN toldIds \union {<<call[w].ref.seq, Target(call[w].ref)>>}
                  ELSE toldIds
  /\ UNCHANGED <<recallIds, toldFlags, milkyVars, channelVars, loopVars, mapVars>>

-----------------------------------------------------------------------------
Init ==
  /\ posted = {}
  /\ sent = {}
  /\ recalled = {}
  /\ requested = {}
  /\ inbox = {}
  /\ emitted = 0
  /\ dropped = {}
  /\ events = <<>>
  /\ loop = "select"
  /\ current = None
  /\ flag = None
  /\ lastTold = 0
  /\ counter = 0
  /\ items = [id \in Ids |-> None]
  /\ requests = [f \in Flags |-> None]
  /\ toldIds = {}
  /\ recallIds = {}
  /\ toldFlags = {}
  /\ pc = [w \in Workers |-> "idle"]
  /\ call = [w \in Workers |-> None]

Translate ==
  \/ TranslateMessage
  \/ NumberRequest
  \/ StoreRequest
  \/ TranslateRecall
  \/ Broadcast

LoopStep ==
  \/ TakeEvent
  \/ RunEnds
  \/ TakeTick
  \/ Translate
  \/ BroadcastReturns

MilkyStep ==
  \/ \E p \in Peers, s \in Ids : UserPosts(p, s)
  \/ \E m \in Messages : UserRecalls(m)
  \/ \E r \in Requests : UserRequests(r)
  \/ \E e \in inbox : Emit(e)

WorkerStep(w) ==
  \/ \E p \in Peers : AskSend(w, p)
  \/ \E op \in {"delete", "get"}, id \in Ids : AskMessage(w, op, id)
  \/ \E op \in Kinds, f \in Flags : AskDecision(w, op, f)
  \/ LookupMessage(w)
  \/ LookupRequest(w)
  \/ \E s \in Ids : MilkyPosts(w, s)
  \/ PutSent(w)
  \/ MilkyRecalls(w)
  \/ MilkyFinds(w)
  \/ MilkyDecides(w)
  \/ MilkyRefuses(w)
  \/ Return(w)

Next ==
  \/ LoopStep
  \/ MilkyStep
  \/ \E w \in Workers : WorkerStep(w)

Spec == Init /\ [][Next]_vars

(* Run goes on while nothing holds it up, and select takes any of the cases *)
(* that are ready. That a Broadcast returns is not assumed: its writes have *)
(* no deadline.                                                            *)
FairSpec == Spec /\ SF_vars(TakeEvent) /\ WF_vars(Translate)

-----------------------------------------------------------------------------
Idle == {"select", "writing", "stopped"}
Busy == {"translate", "store", "broadcast"}

SendCalls ==
  [op : {"send"}, arg : Peers, meant : {None}, ref : Refs \union {None},
   code : {"none", "ok", "1500"}]

MessageCalls ==
  [op : {"delete", "get"}, arg : Ids, meant : Messages \union {None},
   ref : Refs \union {None}, code : {"none", "ok", "1500", "absent", "1502"}]

DecisionCalls ==
  [op : Kinds, arg : Flags, meant : Requests \union {None},
   ref : Requests \union {None}, code : {"none", "ok", "1400", "1500", "1502"}]

CallOK(c) ==
  \/ c.op = "send" /\ c \in SendCalls
  \/ c.op \in {"delete", "get"} /\ c \in MessageCalls
  \/ c.op \in Kinds /\ c \in DecisionCalls

TypeOK ==
  /\ posted \subseteq Messages
  /\ sent \subseteq posted
  /\ recalled \subseteq posted
  /\ requested \subseteq Requests
  /\ inbox \subseteq Notifications
  /\ emitted \in Nat
  /\ dropped \subseteq Numbered
  /\ events \in Seq(Numbered)
  /\ Len(events) <= Buffer
  /\ loop \in Idle \union Busy
  /\ current \in Numbered \union {None}
  /\ flag \in Flags \union {None}
  /\ lastTold \in Nat
  /\ counter \in 0..MaxRequests
  /\ items \in [Ids -> Refs \union {None}]
  /\ requests \in [Flags -> Requests \union {None}]
  /\ toldIds \subseteq Ids \X Messages
  /\ recallIds \subseteq Ids \X Messages
  /\ toldFlags \subseteq Flags \X Requests
  /\ pc \in [Workers -> {"idle", "lookup", "upstream", "put", "respond"}]
  /\ call = [w \in Workers |-> call[w]]
  /\ \A w \in Workers :
       IF pc[w] = "idle" THEN call[w] = None ELSE CallOK(call[w])

(* What a message, a response to a send or a request told the bots resolves, *)
(* when they are told it and ever after: no delete_msg, get_msg or decision *)
(* on it is answered 1502. The notice of a recall promises no such thing.   *)
ToldResolves ==
  /\ \A t \in toldIds : items[t[1]] # None
  /\ \A t \in toldFlags : requests[t[1]] # None

UnderWay(m) ==
  LET e == [kind |-> "message", what |-> m] IN
    \/ e \in inbox
    \/ \E i \in 1..Len(events) : events[i].e = e
    \/ loop = "translate" /\ current.e = e

Lost(m) == \E d \in dropped : d.e = [kind |-> "message", what |-> m]

(* The message_id in the notice of a recall may be one that no bot was told *)
(* and that is answered 1502: only if the handlers ran in the other order   *)
(* and the message is still to come, if it was dropped, or if the bridge    *)
(* sent it itself. Otherwise it resolves.                                  *)
RecallResolves ==
  \A t \in recallIds :
    items[t[1]] # None \/ UnderWay(t[2]) \/ Lost(t[2]) \/ t[2] \in sent

Namesakes(m, n) == m # n /\ m[2] = n[2]

(* A call that has reached Milky is about the message or the request that   *)
(* the bot means, as it was told what the id or flag stands for; or else    *)
(* about a message of another conversation that has the same seq, because   *)
(* its entry replaced the one that is meant.                               *)
ActsOnMeant ==
  \A w \in Workers : pc[w] = "upstream" /\ call[w].meant # None =>
    IF call[w].op \in Kinds
      THEN call[w].ref = call[w].meant /\ call[w].meant[1] = call[w].op
      ELSE \/ Target(call[w].ref) = call[w].meant
           \/ /\ Target(call[w].ref) \in posted
              /\ Namesakes(Target(call[w].ref), call[w].meant)

(* A delete_msg or get_msg never reaches another message than the one that  *)
(* the bot was told of.                                                    *)
NeverAnother ==
  \A w \in Workers :
    pc[w] = "upstream" /\ call[w].op \in {"delete", "get"} /\ call[w].meant # None =>
      Target(call[w].ref) = call[w].meant

DroppedNumbers == {d.n : d \in dropped}

(* Notifications are told in the order in which they were emitted, and one  *)
(* that is not told, about to be told or in the channel was dropped.        *)
EventsAccounted ==
  LET ahead == IF current = None THEN events ELSE <<current>> \o events IN
    /\ \A i \in 1..Len(ahead) :
         ahead[i].n > IF i = 1 THEN lastTold ELSE ahead[i - 1].n
    /\ \A n \in (lastTold + 1)..emitted :
         n \in DroppedNumbers \/ \E i \in 1..Len(ahead) : ahead[i].n = n

(* The inductive strengthening of ToldResolves, RecallResolves and          *)
(* ActsOnMeant: what has been told, is to be told or was looked up exists.  *)

Exists(e) == e.kind # "request" => e.what \in posted

NotifiedExists ==
  /\ \A e \in inbox : Exists(e)
  /\ \A i \in 1..Len(events) : Exists(events[i].e)
  /\ loop \in Busy => current # None /\ Exists(current.e)

(* Every message of a user is entered, or has yet to be, or was dropped. *)
Accounted ==
  \A m \in posted \ sent : items[m[2]] # None \/ UnderWay(m) \/ Lost(m)

EntriesExact ==
  /\ \A id \in Ids : items[id] # None =>
       \E m \in posted : m[2] = id /\ items[id] = RefTo(m)
  /\ \A f \in Flags : requests[f] # None =>
       requests[f][1] = f[1] /\ f[2] <= counter

(* What is about to be told is entered, a flag drawn is not entered yet. *)
AboutToTell ==
  /\ loop = "broadcast" /\ current.e.kind = "message" =>
       items[current.e.what[2]] # None
  /\ loop = "broadcast" /\ current.e.kind = "request" =>
       flag # None /\ requests[flag] = current.e.what
  /\ loop = "store" =>
       /\ current.e.kind = "request"
       /\ flag = <<current.e.what[1], counter>>
       /\ flag \in Flags
       /\ requests[flag] = None

ToldExact ==
  /\ \A t \in toldIds : items[t[1]] # None
  /\ \A t \in toldIds \union recallIds : t[2] \in posted /\ t[1] = t[2][2]
  /\ \A t \in toldFlags : requests[t[1]] = t[2]

SentExact(w) ==
  IF call[w].op # "send" THEN pc[w] # "put" ELSE
    /\ pc[w] # "lookup"
    /\ pc[w] = "put" \/ (pc[w] = "respond" /\ call[w].code = "ok") =>
         \E m \in posted : call[w].ref = RefTo(m)
    /\ pc[w] = "respond" /\ call[w].code = "ok" =>
         items[call[w].ref.seq] # None

LookedUpExact(w) ==
  /\ call[w].op \in {"delete", "get"} =>
       /\ call[w].meant # None =>
            call[w].meant \in posted /\ call[w].meant[2] = call[w].arg
       /\ pc[w] = "upstream" =>
            \E m \in posted : call[w].ref = RefTo(m) /\ m[2] = call[w].arg
  /\ call[w].op \in Kinds =>
       /\ call[w].meant # None => requests[call[w].arg] = call[w].meant
       /\ pc[w] = "upstream" =>
            /\ call[w].ref # None
            /\ call[w].ref = requests[call[w].arg]
            /\ call[w].ref[1] = call[w].op

CallsExact ==
  \A w \in Workers : pc[w] # "idle" => SentExact(w) /\ LookedUpExact(w)

BridgeInv ==
  /\ TypeOK
  /\ NotifiedExists
  /\ Accounted
  /\ EntriesExact
  /\ AboutToTell
  /\ ToldExact
  /\ CallsExact

(* get_msg finds a message that the bot was told of, unless it is recalled. *)
GetMsgFinds ==
  \A w \in Workers :
    /\ pc[w] = "respond"
    /\ call[w].op = "get"
    /\ call[w].meant # None
    /\ call[w].code = "absent"
    => call[w].meant \in recalled

(* Broadcast is called for a notification that was emitted, unless the      *)
(* buffer was full, Run ends first, or a Broadcast never returns.           *)
EmittedIsTold ==
  \A n \in 1..(2 * Cardinality(Messages) + MaxRequests) :
    emitted >= n ~>
      \/ n \in DroppedNumbers \/ lastTold >= n
      \/ loop = "stopped"
      \/ [](loop = "writing")

(* RequestMap implements a directory of names: a flag is told as what it    *)
(* resolves to.                                                            *)
RequestFlags ==
  INSTANCE NameDirectory
    WITH Names <- Flags, names <- requests, told <- toldFlags

RequestFlagsSpec == RequestFlags!Spec

=============================================================================
