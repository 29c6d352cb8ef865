---------------------------- MODULE OneBotServer ----------------------------
(***************************************************************************)
(* The WebSocket side of internal/onebot/server.go: the registry of        *)
(* clientConns under Server.mu, Broadcast, the forward handlers            *)
(* (handleUniversalWS, handleAPIWS, handleEventWS), the reverse clients    *)
(* (runReverseClient, serveReverseConnection) and clientConn.write under   *)
(* clientConn.mu.                                                          *)
(*                                                                         *)
(* Goroutines: one per connection (pc) and the one goroutine that calls    *)
(* Broadcast (loop), the select loop of bridge.Service.Run. A connection   *)
(* slot is one remote peer; each time it connects the code makes a new     *)
(* clientConn, a session. Sockets and peers are the environment: a socket  *)
(* holds SockCap frames, and no write has a deadline, so a write to a full *)
(* socket waits until the peer reads or the connection breaks.             *)
(***************************************************************************)
EXTENDS Naturals, Sequences

CONSTANTS
  Conns,       \* connection slots
  Reverse,     \* the slots served by runReverseClient; the others are forward
  CanSend,     \* clientConn.canSend: takes lifecycle frames and events
  CanReceive,  \* clientConn.canReceive: its frames are API requests
  None,        \* no connection
  SockCap,     \* frames a socket holds for a peer that does not read
  NumEvents,   \* bound: calls of Broadcast
  MaxReq       \* bound: requests a peer sends in one session

ASSUME ConnsAssumption ==
  /\ Reverse \subseteq Conns
  /\ CanSend \subseteq Conns
  /\ CanReceive \subseteq Conns
  /\ None \notin Conns

ASSUME BoundsAssumption ==
  /\ SockCap \in Nat \ {0}
  /\ NumEvents \in Nat
  /\ MaxReq \in Nat

VARIABLES
  clients,   \* Server.clients
  pc,        \* where the goroutine of each connection is
  job,       \* the frame that goroutine is writing
  link,      \* the websocket of the current session, as the kernel knows it
  werr,      \* gorilla's sticky write error of the current session
  wmu,       \* clientConn.mu: who holds it
  sock,      \* frames written and not yet read by the peer
  asked,     \* requests the peer has sent in this session
  taken,     \* requests the connection's goroutine has read
  answered,  \* the last request whose reply the peer has read
  seen,      \* the last event the peer has read, at first the last before it joined
  loop,      \* where the goroutine that broadcasts is
  event,     \* number of the last event whose Broadcast ranges over clients
  todo,      \* recipients of that event that Broadcast has not finished with
  target,    \* the recipient Broadcast is writing to, or None
  sent,      \* the last event written to each connection
  done       \* ctx is cancelled

sessionVars == <<link, werr, sock, asked, taken, answered, seen, sent>>
connVars == <<pc, job, wmu>>
loopVars == <<loop, event, todo, target>>
vars == <<clients, pc, job, link, werr, wmu, sock, asked, taken, answered,
          seen, loop, event, todo, target, sent, done>>

PcStates == {"idle", "dialing", "sleeping", "stopped", "adding", "lock", "write",
             "reading", "closing", "removing", "dead"}
LoopStates == {"idle", "rlock", "held", "iter", "lock", "write", "exited"}
Replies == {"reply", "badreply"}
Jobs == {"lifecycle"} \union Replies
Frame == [kind : Jobs \union {"event"}, n : Nat]

(* In flight: what a peer has not read of a session, and its own requests. *)
InFlightLost(cs) ==
  /\ sock' = [c \in Conns |-> IF c \in cs THEN <<>> ELSE sock[c]]
  /\ asked' = [c \in Conns |-> IF c \in cs THEN 0 ELSE asked[c]]
  /\ taken' = [c \in Conns |-> IF c \in cs THEN 0 ELSE taken[c]]
  /\ answered' = [c \in Conns |-> IF c \in cs THEN 0 ELSE answered[c]]

-----------------------------------------------------------------------------
(* Server.mu, a sync.RWMutex. Broadcast is its only reader. A goroutine at *)
(* AddClient or RemoveClient has called Lock: it waits for the reader, and *)
(* a reader that comes after it waits for it and is let in by its Unlock.  *)

ReadLocked == loop \in {"held", "iter", "lock", "write"}

WriterWaiting == \E c \in Conns : pc[c] \in {"adding", "removing"}

UnlockRegistry == loop' = IF loop = "rlock" THEN "held" ELSE loop

(* A write on the session of c: it fails at once when an earlier one failed *)
(* or the socket is gone, completes when the socket has room, else waits.   *)
WriteFails(c) == werr[c] \/ link[c] \in {"reset", "closed"}

(* Seeded faults: an operator that says "Fault" is a copy of the next one  *)
(* with a bug in it; no specification uses it.                             *)

WriteFits(c) == ~WriteFails(c) /\ Len(sock[c]) < SockCap

Push(c, kind, n) ==
  sock' = [sock EXCEPT ![c] = Append(@, [kind |-> kind, n |-> n])]

(* What the connection's goroutine does when it is through with c. The     *)
(* forward handlers run conn.Close and then removeClient (their defers),   *)
(* runReverseClient calls removeClient and then conn.Close.                *)
(* Fault: nothing is deferred, the connection stays registered. *)
TeardownForgetsRegistry(c) == IF c \in Reverse THEN "sleeping" ELSE "idle"

(* Fault: the forward handlers remove the client before they close it. *)
TeardownRemovesFirst(c) == "removing"

Teardown(c) == IF c \in Reverse THEN "removing" ELSE "closing"

(* Back to ReadMessage; a reverse connection looks at ctx first. *)
Resume(c) == IF c \in Reverse /\ done THEN Teardown(c) ELSE "reading"

Goto(c, state) == pc' = [pc EXCEPT ![c] = state]

-----------------------------------------------------------------------------
(* A session begins with a new clientConn on a new websocket. *)
OpenSession(c) ==
  /\ Goto(c, "adding")
  /\ link' = [link EXCEPT ![c] = "up"]
  /\ werr' = [werr EXCEPT ![c] = FALSE]
  /\ UNCHANGED <<clients, job, wmu, sock, asked, taken, answered, seen, sent,
                 loopVars, done>>

(* A peer's request is authorized and upgraded by a forward handler. *)
Accept(c) ==
  /\ c \notin Reverse
  /\ pc[c] = "idle"
  /\ OpenSession(c)

(* dialReverse returns a connection. *)
DialSucceeds(c) ==
  /\ pc[c] = "dialing"
  /\ ~done
  /\ OpenSession(c)

(* dialReverse returns an error; runReverseClient waits before it retries. *)
DialFails(c) ==
  /\ pc[c] = "dialing"
  /\ Goto(c, "sleeping")
  /\ UNCHANGED <<clients, job, wmu, sessionVars, loopVars, done>>

(* sleepWithContext: the reconnect timer fires. *)
Wake(c) ==
  /\ pc[c] = "sleeping"
  /\ Goto(c, "dialing")
  /\ UNCHANGED <<clients, job, wmu, sessionVars, loopVars, done>>

(* runReverseClient returns: ctx is done at the top of its loop or asleep. *)
ReverseStops(c) ==
  /\ pc[c] \in {"dialing", "sleeping"}
  /\ done
  /\ Goto(c, "stopped")
  /\ UNCHANGED <<clients, job, wmu, sessionVars, loopVars, done>>

(* addClient; a connection that takes events next writes its lifecycle     *)
(* event (OnWSConnect), one that does not goes on to read.                 *)
AddClient(c) ==
  /\ pc[c] = "adding"
  /\ ~ReadLocked
  /\ clients' = clients \union {c}
  /\ sent' = [sent EXCEPT ![c] = event]
  /\ seen' = [seen EXCEPT ![c] = event]
  /\ IF c \in CanSend
       THEN Goto(c, "lock") /\ job' = [job EXCEPT ![c] = "lifecycle"]
       ELSE Goto(c, Resume(c)) /\ UNCHANGED job
  /\ UnlockRegistry
  /\ UNCHANGED <<link, werr, wmu, sock, asked, taken, answered, event, todo,
                 target, done>>

(* Fault: the mutex is not taken. *)
ConnLockWithoutMutex(c) ==
  /\ pc[c] = "lock"
  /\ Goto(c, "write")
  /\ UNCHANGED <<clients, job, wmu, sessionVars, loopVars, done>>

(* clientConn.write takes clientConn.mu ... *)
ConnLock(c) ==
  /\ pc[c] = "lock"
  /\ wmu[c] = "free"
  /\ wmu' = [wmu EXCEPT ![c] = "conn"]
  /\ Goto(c, "write")
  /\ UNCHANGED <<clients, job, sessionVars, loopVars, done>>

(* Fault: the mutex is not released. *)
ConnWriteKeepsMutex(c) ==
  /\ pc[c] = "write"
  /\ WriteFits(c)
  /\ Push(c, job[c], taken[c])
  /\ Goto(c, Resume(c))
  /\ job' = [job EXCEPT ![c] = "none"]
  /\ UNCHANGED <<clients, wmu, link, werr, asked, taken, answered, seen, sent,
                 loopVars, done>>

(* Fault: frames are queued without a limit, and none is waited for. *)
ConnWriteQueues(c) ==
  /\ pc[c] = "write"
  /\ ~WriteFails(c)
  /\ wmu' = [wmu EXCEPT ![c] = "free"]
  /\ job' = [job EXCEPT ![c] = "none"]
  /\ Push(c, job[c], taken[c])
  /\ Goto(c, Resume(c))
  /\ UNCHANGED <<clients, link, werr, asked, taken, answered, seen, sent,
                 loopVars, done>>

(* ... and writes one frame. A lifecycle frame may fail, the goroutine goes *)
(* on; a failed reply ends the session, except that the forward handlers    *)
(* ignore the error of a reply to a request they could not parse.           *)
ConnWrite(c) ==
  /\ pc[c] = "write"
  /\ wmu' = [wmu EXCEPT ![c] = "free"]
  /\ job' = [job EXCEPT ![c] = "none"]
  /\ \/ /\ WriteFits(c)
        /\ Push(c, job[c], taken[c])
        /\ Goto(c, Resume(c))
        /\ UNCHANGED werr
     \/ /\ WriteFails(c)
        /\ werr' = [werr EXCEPT ![c] = TRUE]
        /\ Goto(c, IF job[c] = "reply" \/ (job[c] = "badreply" /\ c \in Reverse)
                     THEN Teardown(c) ELSE Resume(c))
        /\ UNCHANGED sock
  /\ UNCHANGED <<clients, link, asked, taken, answered, seen, sent, loopVars,
                 done>>

(* Fault: a request that is not JSON gets no reply. *)
ReadRequestIgnoresBadJSON(c) ==
  /\ pc[c] = "reading"
  /\ link[c] \in {"up", "fin"}
  /\ taken[c] < asked[c]
  /\ taken' = [taken EXCEPT ![c] = @ + 1]
  /\ IF c \in CanReceive
       THEN \/ Goto(c, "lock") /\ job' = [job EXCEPT ![c] = "reply"]
            \/ Goto(c, Resume(c)) /\ UNCHANGED job
       ELSE Goto(c, Resume(c)) /\ UNCHANGED job
  /\ UNCHANGED <<clients, wmu, link, werr, sock, asked, answered, seen, sent,
                 loopVars, done>>

(* Fault: requests are answered on every connection. *)
ReadRequestOfAnyone(c) ==
  /\ pc[c] = "reading"
  /\ link[c] \in {"up", "fin"}
  /\ taken[c] < asked[c]
  /\ taken' = [taken EXCEPT ![c] = @ + 1]
  /\ Goto(c, "lock")
  /\ \E j \in Replies : job' = [job EXCEPT ![c] = j]
  /\ UNCHANGED <<clients, wmu, link, werr, sock, asked, answered, seen, sent,
                 loopVars, done>>

(* ReadMessage returns a request. A connection that receives answers it,   *)
(* with HandleAPI's response or, if it is not JSON, with a 1400 failure;   *)
(* one that does not drops it.                                             *)
ReadRequest(c) ==
  /\ pc[c] = "reading"
  /\ link[c] \in {"up", "fin"}
  /\ taken[c] < asked[c]
  /\ taken' = [taken EXCEPT ![c] = @ + 1]
  /\ IF c \in CanReceive
       THEN /\ Goto(c, "lock")
            /\ \E j \in Replies : job' = [job EXCEPT ![c] = j]
       ELSE Goto(c, Resume(c)) /\ UNCHANGED job
  /\ UNCHANGED <<clients, wmu, link, werr, sock, asked, answered, seen, sent,
                 loopVars, done>>

(* ReadMessage returns an error. If the peer sent a close frame, gorilla   *)
(* has answered it, after which every write on the session fails.          *)
ReadError(c) ==
  /\ pc[c] = "reading"
  /\ link[c] \in {"fin", "reset"}
  /\ taken[c] = asked[c]
  /\ \E e \in {TRUE, werr[c]} : werr' = [werr EXCEPT ![c] = e]
  /\ Goto(c, Teardown(c))
  /\ UNCHANGED <<clients, job, wmu, link, sock, asked, taken, answered, seen,
                 sent, loopVars, done>>

(* Fault: runReverseClient ends with its first session. *)
CloseEndsReverseClient(c) ==
  /\ pc[c] = "closing"
  /\ link' = [link EXCEPT ![c] = "closed"]
  /\ InFlightLost({c})
  /\ Goto(c, IF c \in Reverse THEN "stopped" ELSE "removing")
  /\ UNCHANGED <<clients, job, wmu, werr, seen, sent, loopVars, done>>

(* conn.Close. It comes first on a forward connection, last on a reverse. *)
Close(c) ==
  /\ pc[c] = "closing"
  /\ link' = [link EXCEPT ![c] = "closed"]
  /\ InFlightLost({c})
  /\ Goto(c, IF c \in Reverse THEN "sleeping" ELSE "removing")
  /\ UNCHANGED <<clients, job, wmu, werr, seen, sent, loopVars, done>>

(* Fault: the registry is changed without its lock. *)
RemoveClientUnlocked(c) ==
  /\ pc[c] = "removing"
  /\ clients' = clients \ {c}
  /\ Goto(c, IF c \in Reverse THEN "closing" ELSE "idle")
  /\ UnlockRegistry
  /\ UNCHANGED <<job, wmu, sessionVars, event, todo, target, done>>

(* removeClient. It comes last on a forward connection, first on a reverse. *)
RemoveClient(c) ==
  /\ pc[c] = "removing"
  /\ ~ReadLocked
  /\ clients' = clients \ {c}
  /\ Goto(c, IF c \in Reverse THEN "closing" ELSE "idle")
  /\ UnlockRegistry
  /\ UNCHANGED <<job, wmu, sessionVars, event, todo, target, done>>

-----------------------------------------------------------------------------
(* The select loop takes an event or a tick and calls Broadcast, which     *)
(* calls RLock.                                                            *)
BroadcastCall ==
  /\ loop = "idle"
  /\ event < NumEvents
  /\ loop' = IF WriterWaiting THEN "rlock" ELSE "held"
  /\ UNCHANGED <<clients, connVars, sessionVars, event, todo, target, done>>

(* Fault: a connection that is being written to is passed over. *)
RangeSkipsBusyClients ==
  /\ loop = "held"
  /\ loop' = "iter"
  /\ event' = event + 1
  /\ todo' = {c \in clients \intersect CanSend : wmu[c] = "free"}
  /\ UNCHANGED <<clients, connVars, sessionVars, target, done>>

(* The range over clients; connections that cannot send are skipped. *)
RangeClients ==
  /\ loop = "held"
  /\ loop' = "iter"
  /\ event' = event + 1
  /\ todo' = clients \intersect CanSend
  /\ UNCHANGED <<clients, connVars, sessionVars, target, done>>

(* The next recipient, in any order: Go does not fix that of a map. *)
NextRecipient(c) ==
  /\ loop = "iter"
  /\ c \in todo
  /\ target' = c
  /\ loop' = "lock"
  /\ UNCHANGED <<clients, connVars, sessionVars, event, todo, done>>

LoopLock ==
  /\ loop = "lock"
  /\ wmu[target] = "free"
  /\ wmu' = [wmu EXCEPT ![target] = "loop"]
  /\ loop' = "write"
  /\ UNCHANGED <<clients, pc, job, sessionVars, event, todo, target, done>>

(* Fault: an event that does not fit is dropped. *)
LoopWriteDropsWhenFull ==
  /\ loop = "write"
  /\ wmu' = [wmu EXCEPT ![target] = "free"]
  /\ loop' = "iter"
  /\ todo' = todo \ {target}
  /\ target' = None
  /\ IF WriteFits(target)
       THEN /\ Push(target, "event", event)
            /\ sent' = [sent EXCEPT ![target] = event]
       ELSE UNCHANGED <<sock, sent>>
  /\ UNCHANGED <<clients, pc, job, link, werr, asked, taken, answered, seen,
                 event, done>>

(* Fault: a failed write ends the Broadcast. *)
LoopWriteStopsAtError ==
  /\ loop = "write"
  /\ wmu' = [wmu EXCEPT ![target] = "free"]
  /\ loop' = "iter"
  /\ target' = None
  /\ \/ /\ WriteFits(target)
        /\ todo' = todo \ {target}
        /\ Push(target, "event", event)
        /\ sent' = [sent EXCEPT ![target] = event]
        /\ UNCHANGED werr
     \/ /\ WriteFails(target)
        /\ todo' = {}
        /\ werr' = [werr EXCEPT ![target] = TRUE]
        /\ UNCHANGED <<sock, sent>>
  /\ UNCHANGED <<clients, pc, job, link, asked, taken, answered, seen, event,
                 done>>

(* Broadcast only logs a failed write. *)
LoopWrite ==
  /\ loop = "write"
  /\ wmu' = [wmu EXCEPT ![target] = "free"]
  /\ loop' = "iter"
  /\ todo' = todo \ {target}
  /\ target' = None
  /\ \/ /\ WriteFits(target)
        /\ Push(target, "event", event)
        /\ sent' = [sent EXCEPT ![target] = event]
        /\ UNCHANGED werr
     \/ /\ WriteFails(target)
        /\ werr' = [werr EXCEPT ![target] = TRUE]
        /\ UNCHANGED <<sock, sent>>
  /\ UNCHANGED <<clients, pc, job, link, asked, taken, answered, seen, event,
                 done>>

(* The range is over: Broadcast returns and its deferred RUnlock runs. *)
BroadcastReturns ==
  /\ loop = "iter"
  /\ todo = {}
  /\ loop' = "idle"
  /\ UNCHANGED <<clients, connVars, sessionVars, event, todo, target, done>>

(* A signal cancels ctx. *)
Cancel ==
  /\ ~done
  /\ done' = TRUE
  /\ UNCHANGED <<clients, connVars, sessionVars, loopVars>>

(* Fault: the process waits for its connections. *)
ExitWaitsForClients ==
  /\ loop = "idle"
  /\ done
  /\ clients = {}
  /\ loop' = "exited"
  /\ UNCHANGED <<clients, connVars, sessionVars, event, todo, target, done>>

(* Run sees ctx.Done and returns, main returns: every goroutine is gone,   *)
(* and the kernel closes every socket.                                     *)
Exit ==
  /\ loop = "idle"
  /\ done
  /\ loop' = "exited"
  /\ clients' = {}
  /\ pc' = [c \in Conns |-> "dead"]
  /\ link' = [c \in Conns |-> "closed"]
  /\ wmu' = [c \in Conns |-> "free"]
  /\ InFlightLost(Conns)
  /\ UNCHANGED <<job, werr, seen, sent, event, todo, target, done>>

-----------------------------------------------------------------------------
(* The peers. None of them has to read, to send or to stay. *)

PeerSends(c) ==
  /\ link[c] = "up"
  /\ asked[c] < MaxReq
  /\ asked' = [asked EXCEPT ![c] = @ + 1]
  /\ UNCHANGED <<clients, connVars, link, werr, sock, taken, answered, seen,
                 sent, loopVars, done>>

PeerReads(c) ==
  /\ sock[c] # <<>>
  /\ sock' = [sock EXCEPT ![c] = Tail(@)]
  /\ LET f == Head(sock[c]) IN
       /\ seen' = IF f.kind = "event" THEN [seen EXCEPT ![c] = f.n] ELSE seen
       /\ answered' = IF f.kind \in Replies
                        THEN [answered EXCEPT ![c] = f.n] ELSE answered
  /\ UNCHANGED <<clients, connVars, link, werr, asked, taken, sent, loopVars,
                 done>>

(* A close frame or a half-close: the peer sends no more and may still read. *)
PeerHangsUp(c) ==
  /\ link[c] = "up"
  /\ link' = [link EXCEPT ![c] = "fin"]
  /\ UNCHANGED <<clients, connVars, werr, sock, asked, taken, answered, seen,
                 sent, loopVars, done>>

(* The connection breaks in both directions. *)
PeerResets(c) ==
  /\ link[c] \in {"up", "fin"}
  /\ link' = [link EXCEPT ![c] = "reset"]
  /\ InFlightLost({c})
  /\ UNCHANGED <<clients, connVars, werr, seen, sent, loopVars, done>>

-----------------------------------------------------------------------------
Init ==
  /\ clients = {}
  /\ pc = [c \in Conns |-> IF c \in Reverse THEN "dialing" ELSE "idle"]
  /\ job = [c \in Conns |-> "none"]
  /\ link = [c \in Conns |-> "closed"]
  /\ werr = [c \in Conns |-> FALSE]
  /\ wmu = [c \in Conns |-> "free"]
  /\ sock = [c \in Conns |-> <<>>]
  /\ asked = [c \in Conns |-> 0]
  /\ taken = [c \in Conns |-> 0]
  /\ answered = [c \in Conns |-> 0]
  /\ seen = [c \in Conns |-> 0]
  /\ sent = [c \in Conns |-> 0]
  /\ loop = "idle"
  /\ event = 0
  /\ todo = {}
  /\ target = None
  /\ done = FALSE

ConnStep(c) ==
  \/ AddClient(c)
  \/ ConnLock(c)
  \/ ConnWrite(c)
  \/ ReadRequest(c)
  \/ ReadError(c)
  \/ Close(c)
  \/ RemoveClient(c)
  \/ Wake(c)
  \/ ReverseStops(c)

LoopStep ==
  \/ RangeClients
  \/ \E c \in Conns : NextRecipient(c)
  \/ LoopLock
  \/ LoopWrite
  \/ BroadcastReturns
  \/ Exit

Next ==
  \/ \E c \in Conns : ConnStep(c)
  \/ LoopStep
  \/ BroadcastCall
  \/ Cancel
  \/ \E c \in Conns : Accept(c) \/ DialSucceeds(c) \/ DialFails(c)
  \/ \E c \in Conns : PeerSends(c) \/ PeerReads(c) \/ PeerHangsUp(c) \/ PeerResets(c)

Spec == Init /\ [][Next]_vars

(***************************************************************************)
(* Go runs every goroutine that can run; sync.Mutex and sync.RWMutex do    *)
(* not starve a waiter, and select picks at random among what is ready:    *)
(* those steps get strong fairness. Peers, new connections, dials and the  *)
(* signal get none.                                                        *)
(***************************************************************************)
GoroutineFairness ==
  /\ \A c \in Conns :
       /\ WF_vars(ConnWrite(c) \/ ReadRequest(c) \/ ReadError(c) \/ Close(c)
                  \/ Wake(c) \/ ReverseStops(c))
       /\ SF_vars(AddClient(c))
       /\ SF_vars(ConnLock(c))
       /\ SF_vars(RemoveClient(c))
  /\ WF_vars(RangeClients \/ LoopWrite \/ BroadcastReturns
             \/ \E c \in Conns : NextRecipient(c))
  /\ SF_vars(LoopLock)
  /\ SF_vars(Exit)

FairSpec == Spec /\ GoroutineFairness

(* The same with peers that go on reading what they are sent. *)
ReadingPeersSpec == FairSpec /\ \A c \in Conns : WF_vars(PeerReads(c))

-----------------------------------------------------------------------------
TypeOK ==
  /\ clients \subseteq Conns
  /\ pc \in [Conns -> PcStates]
  /\ job \in [Conns -> Jobs \union {"none"}]
  /\ link \in [Conns -> {"up", "fin", "reset", "closed"}]
  /\ werr \in [Conns -> BOOLEAN]
  /\ wmu \in [Conns -> {"free", "conn", "loop"}]
  /\ sock \in [Conns -> {s \in Seq(Frame) : Len(s) <= SockCap}]
  /\ asked \in [Conns -> 0..MaxReq]
  /\ taken \in [Conns -> Nat]
  /\ answered \in [Conns -> Nat]
  /\ seen \in [Conns -> Nat]
  /\ sent \in [Conns -> Nat]
  /\ loop \in LoopStates
  /\ event \in 0..NumEvents
  /\ todo \subseteq Conns
  /\ target \in Conns \union {None}
  /\ done \in BOOLEAN

(* gorilla panics on two concurrent WriteMessage calls on one connection:  *)
(* a connection's goroutine and Broadcast are never both inside one.       *)
WriteExclusion ==
  \A c \in Conns : ~(pc[c] = "write" /\ loop = "write" /\ target = c)

(* The registry holds exactly the connections that are being served: none  *)
(* leaks when a handler returns, whichever way it returns, and none is     *)
(* served without being in it.                                             *)
Served(c) ==
  \/ pc[c] \in {"lock", "write", "reading", "removing"}
  \/ pc[c] = "closing" /\ c \notin Reverse

RegistryExact == clients = {c \in Conns : Served(c)}

(* A registered connection that takes events and whose writes have not     *)
(* failed has been written every event broadcast since it was registered:  *)
(* all of them, except that the one being broadcast may still be ahead.    *)
Delivered ==
  \A c \in clients \intersect CanSend :
    ~werr[c] => sent[c] + (IF c \in todo THEN 1 ELSE 0) = event

(* Broadcast never holds a connection that has left the registry: what it  *)
(* is still to write goes to registered connections only.                  *)
RecipientsRegistered == todo \subseteq clients

(* An /api or reverse API connection is sent only replies, an /event or    *)
(* reverse Event connection is sent no reply.                              *)
FramesOfRole(c) ==
  \A i \in 1..Len(sock[c]) :
    IF sock[c][i].kind \in {"event", "lifecycle"}
      THEN c \in CanSend ELSE c \in CanReceive

RolesKept == \A c \in Conns : FramesOfRole(c)

(* A peer reads the events from the first one after its registration on,   *)
(* in order, each once and none left out.                                  *)
EventsGapFree ==
  [][\A c \in Conns :
       \/ seen'[c] = seen[c]
       \/ seen'[c] = seen[c] + 1 /\ seen'[c] <= sent[c]
       \/ pc[c] = "adding" /\ seen'[c] = event]_vars

(* On one connection replies come in the order of the requests, one each. *)
RepliesInOrder ==
  [][\A c \in Conns :
       \/ answered'[c] = answered[c]
       \/ answered'[c] = answered[c] + 1 /\ answered'[c] <= taken[c]
       \/ link'[c] # "up" /\ answered'[c] = 0]_vars

(* The inductive strengthening of the above: for the registry and what is   *)
(* written, and then for the frames that a peer has yet to read.           *)

JobAtHand == \A c \in Conns : pc[c] \in {"lock", "write"} => job[c] # "none"

MutexHeld ==
  \A c \in Conns :
    /\ pc[c] = "write" <=> wmu[c] = "conn"
    /\ loop = "write" /\ target = c <=> wmu[c] = "loop"

BroadcastState ==
  /\ loop \in {"rlock", "held"} => event < NumEvents
  /\ loop \notin {"iter", "lock", "write"} => todo = {}
  /\ loop \in {"lock", "write"} <=> target # None
  /\ target # None => target \in todo
  /\ todo \subseteq CanSend

FreshSession == \A c \in Conns : pc[c] = "adding" => ~werr[c]

(* What registration and delivery rest on. *)
RegistryInv ==
  /\ TypeOK
  /\ JobAtHand
  /\ MutexHeld
  /\ BroadcastState
  /\ FreshSession
  /\ RegistryExact
  /\ RecipientsRegistered
  /\ Delivered

(* Nothing is in flight on a broken or closed socket, and a goroutine       *)
(* between two sessions has closed the socket of the last.                 *)
NothingInFlight(c) == sock[c] = <<>> /\ taken[c] = 0 /\ answered[c] = 0

Between(c) ==
  \/ pc[c] \in {"idle", "dialing", "sleeping", "stopped", "dead"}
  \/ pc[c] = "removing" /\ c \notin Reverse

SocketState(c) ==
  /\ Between(c) => link[c] = "closed"
  /\ link[c] \in {"reset", "closed"} \/ pc[c] = "adding" => NothingInFlight(c)

(* A goroutine writes what its connection is for. *)
JobOfRole(c) ==
  /\ job[c] # "none" => pc[c] \in {"lock", "write", "dead"}
  /\ job[c] = "lifecycle" => c \in CanSend
  /\ job[c] \in Replies => c \in CanReceive

(* The frames of some kinds among s bear the numbers after low, in order,   *)
(* as far as high or less ...                                              *)
Numbered(s, kinds, low, high) ==
  \A i \in 1..Len(s) : s[i].kind \in kinds =>
    /\ low < s[i].n /\ s[i].n <= high
    /\ \A j \in 1..Len(s) : i < j /\ s[j].kind \in kinds => s[i].n < s[j].n
    /\ \A n \in (low + 1)..(s[i].n - 1) :
         \E j \in 1..Len(s) : s[j].kind \in kinds /\ s[j].n = n

(* ... and as far as high. *)
Complete(s, kinds, low, high) ==
  \A n \in (low + 1)..high : \E j \in 1..Len(s) : s[j].kind \in kinds /\ s[j].n = n

(* The requests whose replies have been written. *)
Replied(c) == IF job[c] \in Replies THEN taken[c] - 1 ELSE taken[c]

FramesInOrder(c) ==
  /\ Numbered(sock[c], {"event"}, seen[c], sent[c])
  /\ Numbered(sock[c], Replies, answered[c], Replied(c))
  /\ link[c] \in {"up", "fin"} /\ pc[c] # "adding" =>
       /\ seen[c] <= sent[c] /\ answered[c] <= Replied(c)
       /\ Complete(sock[c], {"event"}, seen[c], sent[c])
       /\ ~werr[c] /\ c \in CanReceive =>
            Complete(sock[c], Replies, answered[c], Replied(c))

(* What the order of the frames of one connection rests on. *)
ConnInv(c) ==
  /\ SocketState(c)
  /\ JobOfRole(c)
  /\ FramesOfRole(c)
  /\ FramesInOrder(c)

(* All of it holds in every reachable state, and every step keeps it. *)
HubInv == RegistryInv /\ \A c \in Conns : ConnInv(c)

-----------------------------------------------------------------------------
(* Broadcast returns, however slow its recipients are. *)
BroadcastEnds == ReadLocked ~> ~ReadLocked

(* A reverse client whose session ends dials again, unless the bridge      *)
(* shuts down (README: automatic reconnect).                               *)
AutoReconnect ==
  \A c \in Reverse :
    pc[c] = "removing" ~> pc[c] = "dialing" \/ done

(* A request on a connection that receives is answered, unless the session *)
(* ends first.                                                             *)
RequestAnswered ==
  \A c \in CanReceive : \A k \in 1..MaxReq :
    asked[c] = k /\ link[c] = "up" ~> answered[c] >= k \/ link[c] # "up"

(* After the signal the process ends. *)
ShutdownEnds == done ~> loop = "exited"

(* A connection whose peer hangs up while the bridge waits for its next    *)
(* frame leaves the registry.                                              *)
HangupReleases ==
  \A c \in Conns : pc[c] = "reading" /\ link[c] # "up" ~> c \notin clients

(* Forward connections, peers that may stall: a Broadcast that never       *)
(* returns waits for one recipient, and that one is still connected or its *)
(* own handler is stuck in a write to it. A recipient that hung up while   *)
(* its handler reads never holds the others up: the handler closes the     *)
(* socket before it asks for the registry.                                 *)
StuckBroadcastHasCause ==
  <>[]ReadLocked =>
    <>[](\E c \in Conns :
           target = c /\ (link[c] = "up" \/ pc[c] \in {"lock", "write"}))

(* What the server promises its subscribers: see EventFanout. *)
Subscribers ==
  {c \in clients \intersect CanSend : ~werr[c]}

Fanout == INSTANCE EventFanout
            WITH Conns <- CanSend, subs <- Subscribers, last <- event,
                 cursor <- [c \in CanSend |-> sent[c]]

FanoutSpec == Fanout!Spec

=============================================================================
