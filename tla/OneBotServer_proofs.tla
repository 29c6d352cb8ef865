------------------------ MODULE OneBotServer_proofs ------------------------
(***************************************************************************)
(* The safety of OneBotServer for every set of connections, every socket   *)
(* capacity and every number of events and requests. RegistryInv is inductive:  *)
(* one lemma per action shows that the action keeps it. The theorems at    *)
(* the end read the safety properties off it, and the refinement lemmas    *)
(* show that each step, seen through the subscribers, is a step of         *)
(* EventFanout.                                                            *)
(***************************************************************************)
EXTENDS OneBotServer, TLAPS

-----------------------------------------------------------------------------
(* A frame appended to a socket with room leaves it within its capacity. *)
LEMMA AppendFits ==
  ASSUME NEW s \in Seq(Frame), Len(s) < SockCap, NEW f \in Frame
  PROVE  Append(s, f) \in {t \in Seq(Frame) : Len(t) <= SockCap}
<1>1. Append(s, f) \in Seq(Frame) /\ Len(Append(s, f)) = Len(s) + 1
  OBVIOUS
<1> QED BY <1>1, BoundsAssumption

(* Reading a frame yields a frame and leaves a socket within its capacity. *)
LEMMA TailFits ==
  ASSUME NEW s \in Seq(Frame), Len(s) <= SockCap, s # <<>>
  PROVE  /\ Head(s) \in Frame
         /\ Tail(s) \in {t \in Seq(Frame) : Len(t) <= SockCap}
<1>1. Tail(s) \in Seq(Frame) /\ Len(Tail(s)) = Len(s) - 1 /\ Head(s) \in Frame
  OBVIOUS
<1> QED BY <1>1, BoundsAssumption

-----------------------------------------------------------------------------
(* The initial state satisfies the invariant. *)
LEMMA InitInv == Init => RegistryInv
<1> SUFFICES ASSUME Init PROVE RegistryInv
  OBVIOUS
<1>1. sock \in [Conns -> {s \in Seq(Frame) : Len(s) <= SockCap}]
  <2>1. << >> \in Seq(Frame) /\ Len(<< >>) = 0
    OBVIOUS
  <2> QED BY <2>1, BoundsAssumption DEF Init
<1>2. pc \in [Conns -> PcStates]
  BY DEF Init, PcStates
<1>3. event \in 0..NumEvents /\ asked \in [Conns -> 0..MaxReq]
  BY BoundsAssumption DEF Init
<1>4. TypeOK
  BY <1>1, <1>2, <1>3 DEF Init, TypeOK, LoopStates
<1>5. JobAtHand /\ MutexHeld /\ BroadcastState /\ FreshSession
  BY ConnsAssumption
     DEF Init, JobAtHand, MutexHeld, BroadcastState, FreshSession
<1>6. RegistryExact /\ RecipientsRegistered /\ Delivered
  BY DEF Init, RegistryExact, Served, RecipientsRegistered, Delivered
<1> QED BY <1>4, <1>5, <1>6 DEF RegistryInv

(* One lemma per action. The harder conjuncts of six of them come first. *)

(* addClient keeps every variable within its type. *)
LEMMA AddClientTypes ==
  ASSUME RegistryInv, NEW c \in Conns, AddClient(c)
  PROVE  TypeOK'
<1>1. PICK p \in {"lock", "reading", Teardown(c)} : pc' = [pc EXCEPT ![c] = p]
  BY DEF AddClient, Goto, Resume
<1>2. p \in PcStates
  BY <1>1 DEF Teardown, PcStates
<1>3. job' \in [Conns -> Jobs \union {"none"}]
  BY DEF RegistryInv, TypeOK, Jobs, Replies, AddClient
<1>4. event \in Nat /\ seen' \in [Conns -> Nat] /\ sent' \in [Conns -> Nat]
  BY BoundsAssumption DEF RegistryInv, TypeOK, AddClient
<1>5. loop' \in LoopStates
  BY DEF RegistryInv, TypeOK, LoopStates, AddClient, UnlockRegistry
<1> QED BY <1>1, <1>2, <1>3, <1>4, <1>5 DEF RegistryInv, TypeOK, AddClient

(* Reading a request keeps every variable within its type. *)
LEMMA ReadRequestTypes ==
  ASSUME RegistryInv, NEW c \in Conns, ReadRequest(c)
  PROVE  TypeOK'
<1>1. PICK p \in {"reading", "lock", Teardown(c)} : pc' = [pc EXCEPT ![c] = p]
  BY DEF ReadRequest, Goto, Resume
<1>2. job' \in [Conns -> Jobs \union {"none"}]
  BY DEF RegistryInv, TypeOK, Jobs, Replies, ReadRequest
<1>3. p \in PcStates
  BY <1>1 DEF Teardown, PcStates
<1>4. taken' \in [Conns -> Nat]
  BY DEF RegistryInv, TypeOK, ReadRequest
<1> QED BY <1>1, <1>2, <1>3, <1>4 DEF RegistryInv, TypeOK, ReadRequest, loopVars

(* A peer's read keeps every variable within its type. *)
LEMMA PeerReadsTypes ==
  ASSUME RegistryInv, NEW c \in Conns, PeerReads(c)
  PROVE  TypeOK'
<1>1. /\ Head(sock[c]) \in Frame
      /\ Tail(sock[c]) \in {s \in Seq(Frame) : Len(s) <= SockCap}
  BY TailFits DEF RegistryInv, TypeOK, PeerReads
<1>2. Head(sock[c]).n \in Nat
  BY <1>1 DEF Frame
<1>3. sock' \in [Conns -> {s \in Seq(Frame) : Len(s) <= SockCap}]
  BY <1>1 DEF RegistryInv, TypeOK, PeerReads
<1>4. seen' \in [Conns -> Nat] /\ answered' \in [Conns -> Nat]
  BY <1>2 DEF RegistryInv, TypeOK, PeerReads
<1> QED BY <1>3, <1>4 DEF RegistryInv, TypeOK, PeerReads, connVars, loopVars

(* A goroutine's write keeps the types, the jobs and the registry. *)
LEMMA ConnWriteTypes ==
  ASSUME RegistryInv, NEW c \in Conns, ConnWrite(c)
  PROVE  TypeOK' /\ JobAtHand' /\ FreshSession' /\ RegistryExact'
<1>1. PICK p \in {"reading", Teardown(c)} : pc' = [pc EXCEPT ![c] = p]
  BY DEF ConnWrite, Goto, Resume
<1>2. p \in PcStates /\ p \notin {"adding", "lock", "write"}
  BY <1>1 DEF Teardown, PcStates
<1>3. werr' \in [Conns -> BOOLEAN] /\ \A d \in Conns \ {c} : werr'[d] = werr[d]
  BY DEF RegistryInv, TypeOK, ConnWrite
<1>4. sock' \in [Conns -> {s \in Seq(Frame) : Len(s) <= SockCap}]
  <2>1. CASE UNCHANGED sock
    BY <2>1 DEF RegistryInv, TypeOK
  <2>2. CASE WriteFits(c) /\ Push(c, job[c], taken[c])
    <3>1. [kind |-> job[c], n |-> taken[c]] \in Frame
      BY DEF RegistryInv, TypeOK, JobAtHand, ConnWrite, Frame
    <3>2. Append(sock[c], [kind |-> job[c], n |-> taken[c]])
            \in {s \in Seq(Frame) : Len(s) <= SockCap}
      BY <2>2, <3>1, AppendFits DEF RegistryInv, TypeOK, WriteFits
    <3> QED BY <2>2, <3>2 DEF RegistryInv, TypeOK, Push
  <2> QED BY <2>1, <2>2 DEF ConnWrite
<1>5. TypeOK'
  BY <1>1, <1>2, <1>3, <1>4
     DEF RegistryInv, TypeOK, Jobs, Replies, ConnWrite, sessionVars, loopVars
<1>6. JobAtHand' /\ FreshSession'
  BY <1>1, <1>2, <1>3 DEF RegistryInv, TypeOK, JobAtHand, FreshSession,
         ConnWrite
<1>7. RegistryExact'
  <2>1. Served(c)
    BY DEF ConnWrite, Served
  <2>2. p \in {"reading", "removing"} \/ (p = "closing" /\ c \notin Reverse)
    BY <1>1 DEF Teardown
  <2>3. \A d \in Conns : Served(d)' <=> Served(d)
    BY <1>1, <2>1, <2>2 DEF RegistryInv, TypeOK, Served
  <2> QED BY <2>3 DEF RegistryInv, RegistryExact, ConnWrite
<1> QED BY <1>5, <1>6, <1>7

(* A read error, which may set the write error, keeps what was delivered. *)
LEMMA ReadErrorTypes ==
  ASSUME RegistryInv, NEW c \in Conns, ReadError(c)
  PROVE  TypeOK' /\ RecipientsRegistered' /\ Delivered'
<1>1. werr' \in [Conns -> BOOLEAN] /\ \A d \in Conns : ~werr'[d] => ~werr[d]
  <2>1. PICK e \in {TRUE, werr[c]} : werr' = [werr EXCEPT ![c] = e]
    BY DEF ReadError
  <2>2. e \in BOOLEAN /\ (~e => ~werr[c])
    BY <2>1 DEF RegistryInv, TypeOK
  <2> QED BY <2>1, <2>2, Zenon DEF RegistryInv, TypeOK
<1>2. TypeOK'
  BY <1>1 DEF RegistryInv, TypeOK, PcStates, ReadError, Goto, Teardown, loopVars
<1>3. RecipientsRegistered' /\ Delivered'
  BY <1>1
     DEF RegistryInv, TypeOK, RegistryExact, RecipientsRegistered, Delivered,
         ReadError, loopVars
<1> QED BY <1>2, <1>3

(* Broadcast's write keeps the types and touches no new session. *)
LEMMA LoopWriteTypes ==
  ASSUME RegistryInv, LoopWrite
  PROVE  TypeOK' /\ JobAtHand' /\ FreshSession'
<1>1. target \in Conns /\ target \in clients /\ pc[target] # "adding"
  BY ConnsAssumption
     DEF RegistryInv, TypeOK, BroadcastState, RecipientsRegistered,
         RegistryExact,
         Served, LoopWrite
<1>2. /\ werr' \in [Conns -> BOOLEAN]
      /\ \A d \in Conns \ {target} : werr'[d] = werr[d]
  BY <1>1 DEF RegistryInv, TypeOK, LoopWrite
<1>3. sock' \in [Conns -> {s \in Seq(Frame) : Len(s) <= SockCap}]
  <2>1. CASE UNCHANGED sock
    BY <2>1 DEF RegistryInv, TypeOK
  <2>2. CASE WriteFits(target) /\ Push(target, "event", event)
    <3>1. [kind |-> "event", n |-> event] \in Frame
      BY BoundsAssumption DEF RegistryInv, TypeOK, Frame
    <3>2. Append(sock[target], [kind |-> "event", n |-> event])
            \in {s \in Seq(Frame) : Len(s) <= SockCap}
      BY <1>1, <2>2, <3>1, AppendFits DEF RegistryInv, TypeOK, WriteFits
    <3> QED BY <1>1, <2>2, <3>2 DEF RegistryInv, TypeOK, Push
  <2> QED BY <2>1, <2>2 DEF LoopWrite
<1>4. TypeOK'
  <2>1. sent' \in [Conns -> Nat]
    <3>1. event \in Nat
      BY BoundsAssumption DEF RegistryInv, TypeOK
    <3> QED BY <1>1, <3>1 DEF RegistryInv, TypeOK, LoopWrite
  <2>2. wmu' \in [Conns -> {"free", "conn", "loop"}]
    BY DEF RegistryInv, TypeOK, LoopWrite
  <2> QED BY <1>2, <1>3, <2>1, <2>2 DEF RegistryInv, TypeOK, LoopStates, LoopWrite
<1>5. JobAtHand' /\ FreshSession'
  BY <1>1, <1>2 DEF RegistryInv, JobAtHand, FreshSession, LoopWrite
<1> QED BY <1>4, <1>5

(* Accept keeps the invariant. *)
LEMMA AcceptInv ==
  ASSUME RegistryInv, NEW c \in Conns, Accept(c)
  PROVE  RegistryInv'
<1>1. TypeOK'
  BY ConnsAssumption, BoundsAssumption
     DEF RegistryInv, TypeOK, PcStates, LoopStates, Jobs, Replies, Frame,
         JobAtHand,
         BroadcastState, sessionVars, connVars, loopVars, Accept, OpenSession,
         Goto
<1>2. JobAtHand' /\ FreshSession'
  BY DEF RegistryInv, TypeOK, Jobs, Replies, JobAtHand, FreshSession,
         sessionVars, connVars,
         loopVars, Accept, OpenSession, Goto
<1>3. MutexHeld' /\ BroadcastState'
  BY ConnsAssumption, BoundsAssumption
     DEF RegistryInv, TypeOK, MutexHeld, BroadcastState, sessionVars, connVars,
         loopVars, Accept, OpenSession, Goto
<1>4. RegistryExact'
  BY DEF RegistryInv, TypeOK, RegistryExact, Served, sessionVars, connVars,
         loopVars,
         Accept, OpenSession, Goto
<1>5. RecipientsRegistered' /\ Delivered'
  BY ConnsAssumption
     DEF RegistryInv, TypeOK, BroadcastState, RegistryExact, Served,
         RecipientsRegistered, Delivered, sessionVars, connVars, loopVars,
         Accept, OpenSession, Goto
<1> QED BY <1>1, <1>2, <1>3, <1>4, <1>5 DEF RegistryInv

(* DialSucceeds keeps the invariant. *)
LEMMA DialSucceedsInv ==
  ASSUME RegistryInv, NEW c \in Conns, DialSucceeds(c)
  PROVE  RegistryInv'
<1>1. TypeOK'
  BY ConnsAssumption, BoundsAssumption
     DEF RegistryInv, TypeOK, PcStates, LoopStates, Jobs, Replies, Frame,
         JobAtHand,
         BroadcastState, sessionVars, connVars, loopVars, DialSucceeds,
         OpenSession, Goto
<1>2. JobAtHand' /\ FreshSession'
  BY DEF RegistryInv, TypeOK, Jobs, Replies, JobAtHand, FreshSession,
         sessionVars, connVars,
         loopVars, DialSucceeds, OpenSession, Goto
<1>3. MutexHeld' /\ BroadcastState'
  BY ConnsAssumption, BoundsAssumption
     DEF RegistryInv, TypeOK, MutexHeld, BroadcastState, sessionVars, connVars,
         loopVars, DialSucceeds, OpenSession, Goto
<1>4. RegistryExact'
  BY DEF RegistryInv, TypeOK, RegistryExact, Served, sessionVars, connVars,
         loopVars,
         DialSucceeds, OpenSession, Goto
<1>5. RecipientsRegistered' /\ Delivered'
  BY ConnsAssumption
     DEF RegistryInv, TypeOK, BroadcastState, RegistryExact, Served,
         RecipientsRegistered, Delivered, sessionVars, connVars, loopVars,
         DialSucceeds, OpenSession, Goto
<1> QED BY <1>1, <1>2, <1>3, <1>4, <1>5 DEF RegistryInv

(* DialFails keeps the invariant. *)
LEMMA DialFailsInv ==
  ASSUME RegistryInv, NEW c \in Conns, DialFails(c)
  PROVE  RegistryInv'
<1>1. TypeOK'
  BY ConnsAssumption, BoundsAssumption
     DEF RegistryInv, TypeOK, PcStates, LoopStates, Jobs, Replies, Frame,
         JobAtHand,
         BroadcastState, sessionVars, connVars, loopVars, DialFails, Goto
<1>2. JobAtHand' /\ FreshSession'
  BY DEF RegistryInv, TypeOK, Jobs, Replies, JobAtHand, FreshSession,
         sessionVars, connVars,
         loopVars, DialFails, Goto
<1>3. MutexHeld' /\ BroadcastState'
  BY ConnsAssumption, BoundsAssumption
     DEF RegistryInv, TypeOK, MutexHeld, BroadcastState, sessionVars, connVars,
         loopVars, DialFails, Goto
<1>4. RegistryExact'
  BY DEF RegistryInv, TypeOK, RegistryExact, Served, sessionVars, connVars,
         loopVars,
         DialFails, Goto
<1>5. RecipientsRegistered' /\ Delivered'
  BY ConnsAssumption
     DEF RegistryInv, TypeOK, BroadcastState, RegistryExact, Served,
         RecipientsRegistered, Delivered, sessionVars, connVars, loopVars,
         DialFails, Goto
<1> QED BY <1>1, <1>2, <1>3, <1>4, <1>5 DEF RegistryInv

(* Wake keeps the invariant. *)
LEMMA WakeInv ==
  ASSUME RegistryInv, NEW c \in Conns, Wake(c)
  PROVE  RegistryInv'
<1>1. TypeOK'
  BY ConnsAssumption, BoundsAssumption
     DEF RegistryInv, TypeOK, PcStates, LoopStates, Jobs, Replies, Frame,
         JobAtHand,
         BroadcastState, sessionVars, connVars, loopVars, Wake, Goto
<1>2. JobAtHand' /\ FreshSession'
  BY DEF RegistryInv, TypeOK, Jobs, Replies, JobAtHand, FreshSession,
         sessionVars, connVars,
         loopVars, Wake, Goto
<1>3. MutexHeld' /\ BroadcastState'
  BY ConnsAssumption, BoundsAssumption
     DEF RegistryInv, TypeOK, MutexHeld, BroadcastState, sessionVars, connVars,
         loopVars, Wake, Goto
<1>4. RegistryExact'
  BY DEF RegistryInv, TypeOK, RegistryExact, Served, sessionVars, connVars,
         loopVars,
         Wake, Goto
<1>5. RecipientsRegistered' /\ Delivered'
  BY ConnsAssumption
     DEF RegistryInv, TypeOK, BroadcastState, RegistryExact, Served,
         RecipientsRegistered, Delivered, sessionVars, connVars, loopVars, Wake,
         Goto
<1> QED BY <1>1, <1>2, <1>3, <1>4, <1>5 DEF RegistryInv

(* ReverseStops keeps the invariant. *)
LEMMA ReverseStopsInv ==
  ASSUME RegistryInv, NEW c \in Conns, ReverseStops(c)
  PROVE  RegistryInv'
<1>1. TypeOK'
  BY ConnsAssumption, BoundsAssumption
     DEF RegistryInv, TypeOK, PcStates, LoopStates, Jobs, Replies, Frame,
         JobAtHand,
         BroadcastState, sessionVars, connVars, loopVars, ReverseStops, Goto
<1>2. JobAtHand' /\ FreshSession'
  BY DEF RegistryInv, TypeOK, Jobs, Replies, JobAtHand, FreshSession,
         sessionVars, connVars,
         loopVars, ReverseStops, Goto
<1>3. MutexHeld' /\ BroadcastState'
  BY ConnsAssumption, BoundsAssumption
     DEF RegistryInv, TypeOK, MutexHeld, BroadcastState, sessionVars, connVars,
         loopVars, ReverseStops, Goto
<1>4. RegistryExact'
  BY DEF RegistryInv, TypeOK, RegistryExact, Served, sessionVars, connVars,
         loopVars,
         ReverseStops, Goto
<1>5. RecipientsRegistered' /\ Delivered'
  BY ConnsAssumption
     DEF RegistryInv, TypeOK, BroadcastState, RegistryExact, Served,
         RecipientsRegistered, Delivered, sessionVars, connVars, loopVars,
         ReverseStops, Goto
<1> QED BY <1>1, <1>2, <1>3, <1>4, <1>5 DEF RegistryInv

(* AddClient keeps the invariant. *)
LEMMA AddClientInv ==
  ASSUME RegistryInv, NEW c \in Conns, AddClient(c)
  PROVE  RegistryInv'
<1>1. TypeOK'
  BY AddClientTypes
<1>2. JobAtHand' /\ FreshSession'
  BY DEF RegistryInv, TypeOK, Jobs, Replies, JobAtHand, FreshSession,
         sessionVars, connVars,
         loopVars, AddClient, Goto, Resume, Teardown, UnlockRegistry, ReadLocked
<1>3. MutexHeld' /\ BroadcastState'
  BY ConnsAssumption, BoundsAssumption
     DEF RegistryInv, TypeOK, MutexHeld, BroadcastState, sessionVars, connVars,
         loopVars, AddClient, Goto, Resume, Teardown, UnlockRegistry, ReadLocked
<1>4. RegistryExact'
  BY DEF RegistryInv, TypeOK, RegistryExact, Served, sessionVars, connVars,
         loopVars,
         AddClient, Goto, Resume, Teardown, UnlockRegistry, ReadLocked
<1>5. RecipientsRegistered' /\ Delivered'
  BY ConnsAssumption
     DEF RegistryInv, TypeOK, BroadcastState, RegistryExact, Served,
         RecipientsRegistered, Delivered, sessionVars, connVars, loopVars,
         AddClient, Goto, Resume, Teardown, UnlockRegistry, ReadLocked
<1> QED BY <1>1, <1>2, <1>3, <1>4, <1>5 DEF RegistryInv

(* ConnLock keeps the invariant. *)
LEMMA ConnLockInv ==
  ASSUME RegistryInv, NEW c \in Conns, ConnLock(c)
  PROVE  RegistryInv'
<1>1. TypeOK'
  BY ConnsAssumption, BoundsAssumption
     DEF RegistryInv, TypeOK, PcStates, LoopStates, Jobs, Replies, Frame,
         JobAtHand,
         BroadcastState, sessionVars, connVars, loopVars, ConnLock, Goto
<1>2. JobAtHand' /\ FreshSession'
  BY DEF RegistryInv, TypeOK, Jobs, Replies, JobAtHand, FreshSession,
         sessionVars, connVars,
         loopVars, ConnLock, Goto
<1>3. MutexHeld' /\ BroadcastState'
  BY ConnsAssumption, BoundsAssumption
     DEF RegistryInv, TypeOK, MutexHeld, BroadcastState, sessionVars, connVars,
         loopVars, ConnLock, Goto
<1>4. RegistryExact'
  BY DEF RegistryInv, TypeOK, RegistryExact, Served, sessionVars, connVars,
         loopVars,
         ConnLock, Goto
<1>5. RecipientsRegistered' /\ Delivered'
  BY ConnsAssumption
     DEF RegistryInv, TypeOK, BroadcastState, RegistryExact, Served,
         RecipientsRegistered, Delivered, sessionVars, connVars, loopVars,
         ConnLock, Goto
<1> QED BY <1>1, <1>2, <1>3, <1>4, <1>5 DEF RegistryInv

(* ConnWrite keeps the invariant. *)
LEMMA ConnWriteInv ==
  ASSUME RegistryInv, NEW c \in Conns, ConnWrite(c)
  PROVE  RegistryInv'
<1>1. TypeOK'
  BY ConnWriteTypes
<1>2. JobAtHand' /\ FreshSession'
  BY ConnWriteTypes
<1>3. MutexHeld' /\ BroadcastState'
  <2>1. pc[c] = "write" /\ wmu[c] = "conn" /\ wmu' = [wmu EXCEPT ![c] = "free"]
    BY DEF RegistryInv, MutexHeld, ConnWrite
  <2>2. PICK p \in PcStates \ {"write"} : pc' = [pc EXCEPT ![c] = p]
    BY DEF ConnWrite, Goto, Resume, Teardown, PcStates
  <2>3. UNCHANGED loopVars
    BY DEF ConnWrite
  <2>4. MutexHeld'
    BY <2>1, <2>2, <2>3 DEF RegistryInv, TypeOK, MutexHeld, loopVars
  <2> QED BY <2>3, <2>4 DEF RegistryInv, BroadcastState, loopVars
<1>4. RegistryExact'
  BY ConnWriteTypes
<1>5. RecipientsRegistered' /\ Delivered'
  BY ConnsAssumption
     DEF RegistryInv, TypeOK, BroadcastState, RegistryExact, Served,
         RecipientsRegistered, Delivered, sessionVars, connVars, loopVars,
         ConnWrite, Goto, Push, Resume, Teardown, WriteFits, WriteFails
<1> QED BY <1>1, <1>2, <1>3, <1>4, <1>5 DEF RegistryInv

(* ReadRequest keeps the invariant. *)
LEMMA ReadRequestInv ==
  ASSUME RegistryInv, NEW c \in Conns, ReadRequest(c)
  PROVE  RegistryInv'
<1>1. TypeOK'
  BY ReadRequestTypes
<1>2. JobAtHand' /\ FreshSession'
  BY DEF RegistryInv, TypeOK, Jobs, Replies, JobAtHand, FreshSession,
         sessionVars, connVars,
         loopVars, ReadRequest, Goto, Resume, Teardown
<1>3. MutexHeld' /\ BroadcastState'
  BY ConnsAssumption, BoundsAssumption
     DEF RegistryInv, TypeOK, MutexHeld, BroadcastState, sessionVars, connVars,
         loopVars, ReadRequest, Goto, Resume, Teardown
<1>4. RegistryExact'
  BY DEF RegistryInv, TypeOK, RegistryExact, Served, sessionVars, connVars,
         loopVars,
         ReadRequest, Goto, Resume, Teardown
<1>5. RecipientsRegistered' /\ Delivered'
  BY ConnsAssumption
     DEF RegistryInv, TypeOK, BroadcastState, RegistryExact, Served,
         RecipientsRegistered, Delivered, sessionVars, connVars, loopVars,
         ReadRequest, Goto, Resume, Teardown
<1> QED BY <1>1, <1>2, <1>3, <1>4, <1>5 DEF RegistryInv

(* ReadError keeps the invariant. *)
LEMMA ReadErrorInv ==
  ASSUME RegistryInv, NEW c \in Conns, ReadError(c)
  PROVE  RegistryInv'
<1>1. TypeOK'
  BY ReadErrorTypes
<1>2. JobAtHand' /\ FreshSession'
  BY DEF RegistryInv, TypeOK, Jobs, Replies, JobAtHand, FreshSession,
         sessionVars, connVars,
         loopVars, ReadError, Goto, Teardown
<1>3. MutexHeld' /\ BroadcastState'
  BY ConnsAssumption, BoundsAssumption
     DEF RegistryInv, TypeOK, MutexHeld, BroadcastState, sessionVars, connVars,
         loopVars, ReadError, Goto, Teardown
<1>4. RegistryExact'
  BY DEF RegistryInv, TypeOK, RegistryExact, Served, sessionVars, connVars,
         loopVars,
         ReadError, Goto, Teardown
<1>5. RecipientsRegistered' /\ Delivered'
  BY ReadErrorTypes
<1> QED BY <1>1, <1>2, <1>3, <1>4, <1>5 DEF RegistryInv

(* Close keeps the invariant. *)
LEMMA CloseInv ==
  ASSUME RegistryInv, NEW c \in Conns, Close(c)
  PROVE  RegistryInv'
<1>1. TypeOK'
  BY ConnsAssumption, BoundsAssumption
     DEF RegistryInv, TypeOK, PcStates, LoopStates, Jobs, Replies, Frame,
         JobAtHand,
         BroadcastState, sessionVars, connVars, loopVars, Close, Goto,
         InFlightLost
<1>2. JobAtHand' /\ FreshSession'
  BY DEF RegistryInv, TypeOK, Jobs, Replies, JobAtHand, FreshSession,
         sessionVars, connVars,
         loopVars, Close, Goto, InFlightLost
<1>3. MutexHeld' /\ BroadcastState'
  BY ConnsAssumption, BoundsAssumption
     DEF RegistryInv, TypeOK, MutexHeld, BroadcastState, sessionVars, connVars,
         loopVars, Close, Goto, InFlightLost
<1>4. RegistryExact'
  BY DEF RegistryInv, TypeOK, RegistryExact, Served, sessionVars, connVars,
         loopVars,
         Close, Goto, InFlightLost
<1>5. RecipientsRegistered' /\ Delivered'
  BY ConnsAssumption
     DEF RegistryInv, TypeOK, BroadcastState, RegistryExact, Served,
         RecipientsRegistered, Delivered, sessionVars, connVars, loopVars,
         Close, Goto, InFlightLost
<1> QED BY <1>1, <1>2, <1>3, <1>4, <1>5 DEF RegistryInv

(* RemoveClient keeps the invariant. *)
LEMMA RemoveClientInv ==
  ASSUME RegistryInv, NEW c \in Conns, RemoveClient(c)
  PROVE  RegistryInv'
<1>1. TypeOK'
  BY ConnsAssumption, BoundsAssumption
     DEF RegistryInv, TypeOK, PcStates, LoopStates, Jobs, Replies, Frame,
         JobAtHand,
         BroadcastState, sessionVars, connVars, loopVars, RemoveClient, Goto,
         UnlockRegistry, ReadLocked
<1>2. JobAtHand' /\ FreshSession'
  BY DEF RegistryInv, TypeOK, Jobs, Replies, JobAtHand, FreshSession,
         sessionVars, connVars,
         loopVars, RemoveClient, Goto, UnlockRegistry, ReadLocked
<1>3. MutexHeld' /\ BroadcastState'
  BY ConnsAssumption, BoundsAssumption
     DEF RegistryInv, TypeOK, MutexHeld, BroadcastState, sessionVars, connVars,
         loopVars, RemoveClient, Goto, UnlockRegistry, ReadLocked
<1>4. RegistryExact'
  BY DEF RegistryInv, TypeOK, RegistryExact, Served, sessionVars, connVars,
         loopVars,
         RemoveClient, Goto, UnlockRegistry, ReadLocked
<1>5. RecipientsRegistered' /\ Delivered'
  BY ConnsAssumption
     DEF RegistryInv, TypeOK, BroadcastState, RegistryExact, Served,
         RecipientsRegistered, Delivered, sessionVars, connVars, loopVars,
         RemoveClient, Goto, UnlockRegistry, ReadLocked
<1> QED BY <1>1, <1>2, <1>3, <1>4, <1>5 DEF RegistryInv

(* BroadcastCall keeps the invariant. *)
LEMMA BroadcastCallInv ==
  ASSUME RegistryInv, BroadcastCall
  PROVE  RegistryInv'
<1>1. TypeOK'
  BY ConnsAssumption, BoundsAssumption
     DEF RegistryInv, TypeOK, PcStates, LoopStates, Jobs, Replies, Frame,
         JobAtHand,
         BroadcastState, sessionVars, connVars, loopVars, BroadcastCall,
         WriterWaiting
<1>2. JobAtHand' /\ FreshSession'
  BY DEF RegistryInv, TypeOK, Jobs, Replies, JobAtHand, FreshSession,
         sessionVars, connVars,
         loopVars, BroadcastCall, WriterWaiting
<1>3. MutexHeld' /\ BroadcastState'
  BY ConnsAssumption, BoundsAssumption
     DEF RegistryInv, TypeOK, MutexHeld, BroadcastState, sessionVars, connVars,
         loopVars, BroadcastCall, WriterWaiting
<1>4. RegistryExact'
  BY DEF RegistryInv, TypeOK, RegistryExact, Served, sessionVars, connVars,
         loopVars,
         BroadcastCall, WriterWaiting
<1>5. RecipientsRegistered' /\ Delivered'
  BY ConnsAssumption
     DEF RegistryInv, TypeOK, BroadcastState, RegistryExact, Served,
         RecipientsRegistered, Delivered, sessionVars, connVars, loopVars,
         BroadcastCall, WriterWaiting
<1> QED BY <1>1, <1>2, <1>3, <1>4, <1>5 DEF RegistryInv

(* RangeClients keeps the invariant. *)
LEMMA RangeClientsInv ==
  ASSUME RegistryInv, RangeClients
  PROVE  RegistryInv'
<1>1. TypeOK'
  BY ConnsAssumption, BoundsAssumption
     DEF RegistryInv, TypeOK, PcStates, LoopStates, Jobs, Replies, Frame,
         JobAtHand,
         BroadcastState, sessionVars, connVars, loopVars, RangeClients
<1>2. JobAtHand' /\ FreshSession'
  BY DEF RegistryInv, TypeOK, Jobs, Replies, JobAtHand, FreshSession,
         sessionVars, connVars,
         loopVars, RangeClients
<1>3. MutexHeld' /\ BroadcastState'
  BY ConnsAssumption, BoundsAssumption
     DEF RegistryInv, TypeOK, MutexHeld, BroadcastState, sessionVars, connVars,
         loopVars, RangeClients
<1>4. RegistryExact'
  BY DEF RegistryInv, TypeOK, RegistryExact, Served, sessionVars, connVars,
         loopVars,
         RangeClients
<1>5. RecipientsRegistered' /\ Delivered'
  BY ConnsAssumption
     DEF RegistryInv, TypeOK, BroadcastState, RegistryExact, Served,
         RecipientsRegistered, Delivered, sessionVars, connVars, loopVars,
         RangeClients
<1> QED BY <1>1, <1>2, <1>3, <1>4, <1>5 DEF RegistryInv

(* NextRecipient keeps the invariant. *)
LEMMA NextRecipientInv ==
  ASSUME RegistryInv, NEW c \in Conns, NextRecipient(c)
  PROVE  RegistryInv'
<1>1. TypeOK'
  BY ConnsAssumption, BoundsAssumption
     DEF RegistryInv, TypeOK, PcStates, LoopStates, Jobs, Replies, Frame,
         JobAtHand,
         BroadcastState, sessionVars, connVars, loopVars, NextRecipient
<1>2. JobAtHand' /\ FreshSession'
  BY DEF RegistryInv, TypeOK, Jobs, Replies, JobAtHand, FreshSession,
         sessionVars, connVars,
         loopVars, NextRecipient
<1>3. MutexHeld' /\ BroadcastState'
  BY ConnsAssumption, BoundsAssumption
     DEF RegistryInv, TypeOK, MutexHeld, BroadcastState, sessionVars, connVars,
         loopVars, NextRecipient
<1>4. RegistryExact'
  BY DEF RegistryInv, TypeOK, RegistryExact, Served, sessionVars, connVars,
         loopVars,
         NextRecipient
<1>5. RecipientsRegistered' /\ Delivered'
  BY ConnsAssumption
     DEF RegistryInv, TypeOK, BroadcastState, RegistryExact, Served,
         RecipientsRegistered, Delivered, sessionVars, connVars, loopVars,
         NextRecipient
<1> QED BY <1>1, <1>2, <1>3, <1>4, <1>5 DEF RegistryInv

(* LoopLock keeps the invariant. *)
LEMMA LoopLockInv ==
  ASSUME RegistryInv, LoopLock
  PROVE  RegistryInv'
<1>1. TypeOK'
  BY ConnsAssumption, BoundsAssumption
     DEF RegistryInv, TypeOK, PcStates, LoopStates, Jobs, Replies, Frame,
         JobAtHand,
         BroadcastState, sessionVars, connVars, loopVars, LoopLock
<1>2. JobAtHand' /\ FreshSession'
  BY DEF RegistryInv, TypeOK, Jobs, Replies, JobAtHand, FreshSession,
         sessionVars, connVars,
         loopVars, LoopLock
<1>3. MutexHeld' /\ BroadcastState'
  BY ConnsAssumption, BoundsAssumption
     DEF RegistryInv, TypeOK, MutexHeld, BroadcastState, sessionVars, connVars,
         loopVars, LoopLock
<1>4. RegistryExact'
  BY DEF RegistryInv, TypeOK, RegistryExact, Served, sessionVars, connVars,
         loopVars,
         LoopLock
<1>5. RecipientsRegistered' /\ Delivered'
  BY ConnsAssumption
     DEF RegistryInv, TypeOK, BroadcastState, RegistryExact, Served,
         RecipientsRegistered, Delivered, sessionVars, connVars, loopVars,
         LoopLock
<1> QED BY <1>1, <1>2, <1>3, <1>4, <1>5 DEF RegistryInv

(* LoopWrite keeps the invariant. *)
LEMMA LoopWriteInv ==
  ASSUME RegistryInv, LoopWrite
  PROVE  RegistryInv'
<1>1. TypeOK'
  BY LoopWriteTypes
<1>2. JobAtHand' /\ FreshSession'
  BY LoopWriteTypes
<1>3. MutexHeld' /\ BroadcastState'
  BY ConnsAssumption, BoundsAssumption
     DEF RegistryInv, TypeOK, MutexHeld, BroadcastState, sessionVars, connVars,
         loopVars, LoopWrite, Push, WriteFits, WriteFails
<1>4. RegistryExact'
  BY DEF RegistryInv, TypeOK, RegistryExact, Served, sessionVars, connVars,
         loopVars,
         LoopWrite, Push, WriteFits, WriteFails
<1>5. RecipientsRegistered' /\ Delivered'
  BY ConnsAssumption
     DEF RegistryInv, TypeOK, BroadcastState, RegistryExact, Served,
         RecipientsRegistered, Delivered, sessionVars, connVars, loopVars,
         LoopWrite, Push, WriteFits, WriteFails
<1> QED BY <1>1, <1>2, <1>3, <1>4, <1>5 DEF RegistryInv

(* BroadcastReturns keeps the invariant. *)
LEMMA BroadcastReturnsInv ==
  ASSUME RegistryInv, BroadcastReturns
  PROVE  RegistryInv'
<1>1. TypeOK'
  BY ConnsAssumption, BoundsAssumption
     DEF RegistryInv, TypeOK, PcStates, LoopStates, Jobs, Replies, Frame,
         JobAtHand,
         BroadcastState, sessionVars, connVars, loopVars, BroadcastReturns
<1>2. JobAtHand' /\ FreshSession'
  BY DEF RegistryInv, TypeOK, Jobs, Replies, JobAtHand, FreshSession,
         sessionVars, connVars,
         loopVars, BroadcastReturns
<1>3. MutexHeld' /\ BroadcastState'
  BY ConnsAssumption, BoundsAssumption
     DEF RegistryInv, TypeOK, MutexHeld, BroadcastState, sessionVars, connVars,
         loopVars, BroadcastReturns
<1>4. RegistryExact'
  BY DEF RegistryInv, TypeOK, RegistryExact, Served, sessionVars, connVars,
         loopVars,
         BroadcastReturns
<1>5. RecipientsRegistered' /\ Delivered'
  BY ConnsAssumption
     DEF RegistryInv, TypeOK, BroadcastState, RegistryExact, Served,
         RecipientsRegistered, Delivered, sessionVars, connVars, loopVars,
         BroadcastReturns
<1> QED BY <1>1, <1>2, <1>3, <1>4, <1>5 DEF RegistryInv

(* Cancel keeps the invariant. *)
LEMMA CancelInv ==
  ASSUME RegistryInv, Cancel
  PROVE  RegistryInv'
<1>1. TypeOK'
  BY ConnsAssumption, BoundsAssumption
     DEF RegistryInv, TypeOK, PcStates, LoopStates, Jobs, Replies, Frame,
         JobAtHand,
         BroadcastState, sessionVars, connVars, loopVars, Cancel
<1>2. JobAtHand' /\ FreshSession'
  BY DEF RegistryInv, TypeOK, Jobs, Replies, JobAtHand, FreshSession,
         sessionVars, connVars,
         loopVars, Cancel
<1>3. MutexHeld' /\ BroadcastState'
  BY ConnsAssumption, BoundsAssumption
     DEF RegistryInv, TypeOK, MutexHeld, BroadcastState, sessionVars, connVars,
         loopVars, Cancel
<1>4. RegistryExact'
  BY DEF RegistryInv, TypeOK, RegistryExact, Served, sessionVars, connVars,
         loopVars,
         Cancel
<1>5. RecipientsRegistered' /\ Delivered'
  BY ConnsAssumption
     DEF RegistryInv, TypeOK, BroadcastState, RegistryExact, Served,
         RecipientsRegistered, Delivered, sessionVars, connVars, loopVars,
         Cancel
<1> QED BY <1>1, <1>2, <1>3, <1>4, <1>5 DEF RegistryInv

(* Exit keeps the invariant. *)
LEMMA ExitInv ==
  ASSUME RegistryInv, Exit
  PROVE  RegistryInv'
<1>1. TypeOK'
  BY ConnsAssumption, BoundsAssumption
     DEF RegistryInv, TypeOK, PcStates, LoopStates, Jobs, Replies, Frame,
         JobAtHand,
         BroadcastState, sessionVars, connVars, loopVars, Exit, InFlightLost
<1>2. JobAtHand' /\ FreshSession'
  BY DEF RegistryInv, TypeOK, Jobs, Replies, JobAtHand, FreshSession,
         sessionVars, connVars,
         loopVars, Exit, InFlightLost
<1>3. MutexHeld' /\ BroadcastState'
  BY ConnsAssumption, BoundsAssumption
     DEF RegistryInv, TypeOK, MutexHeld, BroadcastState, sessionVars, connVars,
         loopVars, Exit, InFlightLost
<1>4. RegistryExact'
  BY DEF RegistryInv, TypeOK, RegistryExact, Served, sessionVars, connVars,
         loopVars,
         Exit, InFlightLost
<1>5. RecipientsRegistered' /\ Delivered'
  BY ConnsAssumption
     DEF RegistryInv, TypeOK, BroadcastState, RegistryExact, Served,
         RecipientsRegistered, Delivered, sessionVars, connVars, loopVars, Exit,
         InFlightLost
<1> QED BY <1>1, <1>2, <1>3, <1>4, <1>5 DEF RegistryInv

(* PeerSends keeps the invariant. *)
LEMMA PeerSendsInv ==
  ASSUME RegistryInv, NEW c \in Conns, PeerSends(c)
  PROVE  RegistryInv'
<1>1. TypeOK'
  BY ConnsAssumption, BoundsAssumption
     DEF RegistryInv, TypeOK, PcStates, LoopStates, Jobs, Replies, Frame,
         JobAtHand,
         BroadcastState, sessionVars, connVars, loopVars, PeerSends
<1>2. JobAtHand' /\ FreshSession'
  BY DEF RegistryInv, TypeOK, Jobs, Replies, JobAtHand, FreshSession,
         sessionVars, connVars,
         loopVars, PeerSends
<1>3. MutexHeld' /\ BroadcastState'
  BY ConnsAssumption, BoundsAssumption
     DEF RegistryInv, TypeOK, MutexHeld, BroadcastState, sessionVars, connVars,
         loopVars, PeerSends
<1>4. RegistryExact'
  BY DEF RegistryInv, TypeOK, RegistryExact, Served, sessionVars, connVars,
         loopVars,
         PeerSends
<1>5. RecipientsRegistered' /\ Delivered'
  BY ConnsAssumption
     DEF RegistryInv, TypeOK, BroadcastState, RegistryExact, Served,
         RecipientsRegistered, Delivered, sessionVars, connVars, loopVars,
         PeerSends
<1> QED BY <1>1, <1>2, <1>3, <1>4, <1>5 DEF RegistryInv

(* PeerReads keeps the invariant. *)
LEMMA PeerReadsInv ==
  ASSUME RegistryInv, NEW c \in Conns, PeerReads(c)
  PROVE  RegistryInv'
<1>1. TypeOK'
  BY PeerReadsTypes
<1>2. JobAtHand' /\ FreshSession'
  BY DEF RegistryInv, TypeOK, Jobs, Replies, JobAtHand, FreshSession,
         sessionVars, connVars,
         loopVars, PeerReads
<1>3. MutexHeld' /\ BroadcastState'
  BY ConnsAssumption, BoundsAssumption
     DEF RegistryInv, TypeOK, MutexHeld, BroadcastState, sessionVars, connVars,
         loopVars, PeerReads
<1>4. RegistryExact'
  BY DEF RegistryInv, TypeOK, RegistryExact, Served, sessionVars, connVars,
         loopVars,
         PeerReads
<1>5. RecipientsRegistered' /\ Delivered'
  BY ConnsAssumption
     DEF RegistryInv, TypeOK, BroadcastState, RegistryExact, Served,
         RecipientsRegistered, Delivered, sessionVars, connVars, loopVars,
         PeerReads
<1> QED BY <1>1, <1>2, <1>3, <1>4, <1>5 DEF RegistryInv

(* PeerHangsUp keeps the invariant. *)
LEMMA PeerHangsUpInv ==
  ASSUME RegistryInv, NEW c \in Conns, PeerHangsUp(c)
  PROVE  RegistryInv'
<1>1. TypeOK'
  BY ConnsAssumption, BoundsAssumption
     DEF RegistryInv, TypeOK, PcStates, LoopStates, Jobs, Replies, Frame,
         JobAtHand,
         BroadcastState, sessionVars, connVars, loopVars, PeerHangsUp
<1>2. JobAtHand' /\ FreshSession'
  BY DEF RegistryInv, TypeOK, Jobs, Replies, JobAtHand, FreshSession,
         sessionVars, connVars,
         loopVars, PeerHangsUp
<1>3. MutexHeld' /\ BroadcastState'
  BY ConnsAssumption, BoundsAssumption
     DEF RegistryInv, TypeOK, MutexHeld, BroadcastState, sessionVars, connVars,
         loopVars, PeerHangsUp
<1>4. RegistryExact'
  BY DEF RegistryInv, TypeOK, RegistryExact, Served, sessionVars, connVars,
         loopVars,
         PeerHangsUp
<1>5. RecipientsRegistered' /\ Delivered'
  BY ConnsAssumption
     DEF RegistryInv, TypeOK, BroadcastState, RegistryExact, Served,
         RecipientsRegistered, Delivered, sessionVars, connVars, loopVars,
         PeerHangsUp
<1> QED BY <1>1, <1>2, <1>3, <1>4, <1>5 DEF RegistryInv

(* PeerResets keeps the invariant. *)
LEMMA PeerResetsInv ==
  ASSUME RegistryInv, NEW c \in Conns, PeerResets(c)
  PROVE  RegistryInv'
<1>1. TypeOK'
  BY ConnsAssumption, BoundsAssumption
     DEF RegistryInv, TypeOK, PcStates, LoopStates, Jobs, Replies, Frame,
         JobAtHand,
         BroadcastState, sessionVars, connVars, loopVars, PeerResets,
         InFlightLost
<1>2. JobAtHand' /\ FreshSession'
  BY DEF RegistryInv, TypeOK, Jobs, Replies, JobAtHand, FreshSession,
         sessionVars, connVars,
         loopVars, PeerResets, InFlightLost
<1>3. MutexHeld' /\ BroadcastState'
  BY ConnsAssumption, BoundsAssumption
     DEF RegistryInv, TypeOK, MutexHeld, BroadcastState, sessionVars, connVars,
         loopVars, PeerResets, InFlightLost
<1>4. RegistryExact'
  BY DEF RegistryInv, TypeOK, RegistryExact, Served, sessionVars, connVars,
         loopVars,
         PeerResets, InFlightLost
<1>5. RecipientsRegistered' /\ Delivered'
  BY ConnsAssumption
     DEF RegistryInv, TypeOK, BroadcastState, RegistryExact, Served,
         RecipientsRegistered, Delivered, sessionVars, connVars, loopVars,
         PeerResets, InFlightLost
<1> QED BY <1>1, <1>2, <1>3, <1>4, <1>5 DEF RegistryInv

(* Every step keeps the invariant. *)
LEMMA NextInv == RegistryInv /\ [Next]_vars => RegistryInv'
<1> SUFFICES ASSUME RegistryInv, [Next]_vars PROVE RegistryInv'
  OBVIOUS
<1>1. CASE UNCHANGED vars
  BY <1>1 DEF RegistryInv, TypeOK, JobAtHand, MutexHeld, BroadcastState,
              FreshSession, RegistryExact, Served, RecipientsRegistered,
              Delivered, vars
<1>2. CASE \E c \in Conns : ConnStep(c)
  BY <1>2, AddClientInv, ConnLockInv, ConnWriteInv, ReadRequestInv,
     ReadErrorInv, CloseInv, RemoveClientInv, WakeInv, ReverseStopsInv
     DEF ConnStep
<1>3. CASE LoopStep
  BY <1>3, RangeClientsInv, NextRecipientInv, LoopLockInv, LoopWriteInv,
     BroadcastReturnsInv, ExitInv DEF LoopStep
<1>4. CASE \E c \in Conns : Accept(c) \/ DialSucceeds(c) \/ DialFails(c)
  BY <1>4, AcceptInv, DialSucceedsInv, DialFailsInv
<1>5. CASE \E c \in Conns :
             PeerSends(c) \/ PeerReads(c) \/ PeerHangsUp(c) \/ PeerResets(c)
  BY <1>5, PeerSendsInv, PeerReadsInv, PeerHangsUpInv, PeerResetsInv
<1> QED
  BY <1>1, <1>2, <1>3, <1>4, <1>5, BroadcastCallInv, CancelInv DEF Next

-----------------------------------------------------------------------------
(* Refinement: the steps that a subscriber does not see. *)
LEMMA QuietStep ==
  ASSUME UNCHANGED <<clients, werr, event, sent>>
  PROVE  UNCHANGED Fanout!fanoutVars
  BY DEF Fanout!fanoutVars, Subscribers

(* A step that only loses a subscriber is a Leave, or nothing. *)
LEMMA LeaveStep ==
  ASSUME RegistryInv, NEW c \in Conns,
         UNCHANGED <<event, sent>>,
         Subscribers' = Subscribers \/ Subscribers' = Subscribers \ {c}
  PROVE  [Fanout!Next]_(Fanout!fanoutVars)
<1>1. CASE Subscribers' = Subscribers \ {c} /\ c \in Subscribers
  <2>1. c \in CanSend
    BY <1>1 DEF Subscribers
  <2>2. Fanout!Leave(c)
    BY <1>1 DEF Fanout!Leave
  <2> QED BY <2>1, <2>2 DEF Fanout!Next
<1>2. CASE Subscribers' = Subscribers
  BY <1>2 DEF Fanout!fanoutVars
<1>3. CASE Subscribers' = Subscribers \ {c} /\ c \notin Subscribers
  BY <1>3, <1>2
<1> QED BY <1>1, <1>2, <1>3

(* addClient of a connection that takes events is a Join, any other nothing. *)
LEMMA JoinStep ==
  ASSUME RegistryInv, NEW c \in Conns, AddClient(c)
  PROVE  [Fanout!Next]_(Fanout!fanoutVars)
<1>1. c \notin clients /\ ~werr[c] /\ UNCHANGED <<event, werr>>
  BY DEF RegistryInv, RegistryExact, Served, FreshSession, AddClient
<1>2. CASE c \in CanSend
  <2>1. c \notin Subscribers /\ Subscribers' = Subscribers \union {c}
    BY <1>1, <1>2 DEF Subscribers, AddClient
  <2>2. [d \in CanSend |-> sent[d]]'
        = [[d \in CanSend |-> sent[d]] EXCEPT ![c] = event]
    BY <1>2, ConnsAssumption DEF RegistryInv, TypeOK, AddClient
  <2>3. Fanout!Join(c)
    BY <1>1, <2>1, <2>2 DEF Fanout!Join
  <2> QED BY <1>2, <2>3 DEF Fanout!Next
<1>3. CASE c \notin CanSend
  <2>1. Subscribers' = Subscribers
    BY <1>1, <1>3 DEF Subscribers, AddClient
  <2>2. [d \in CanSend |-> sent[d]]' = [d \in CanSend |-> sent[d]]
    BY <1>3, ConnsAssumption DEF RegistryInv, TypeOK, AddClient
  <2> QED BY <1>1, <2>1, <2>2 DEF Fanout!fanoutVars
<1> QED BY <1>2, <1>3

(* The start of the range over clients is a Publish: nobody misses an event. *)
LEMMA PublishStep ==
  ASSUME RegistryInv, RangeClients
  PROVE  [Fanout!Next]_(Fanout!fanoutVars)
<1>1. \A c \in Subscribers : sent[c] = event
  BY ConnsAssumption
     DEF RegistryInv, TypeOK, BroadcastState, Delivered, Subscribers,
         RangeClients
<1>2. Subscribers' = Subscribers /\ UNCHANGED sent
  BY DEF Subscribers, RangeClients, sessionVars
<1>3. Fanout!Publish
  BY <1>1, <1>2 DEF Fanout!Publish, Subscribers, RangeClients
<1> QED BY <1>3 DEF Fanout!Next

(* Broadcast's write is a Deliver, or a Leave when it fails. *)
LEMMA DeliverStep ==
  ASSUME RegistryInv, LoopWrite
  PROVE  [Fanout!Next]_(Fanout!fanoutVars)
<1>1. PICK c \in Conns : c = target
  BY DEF RegistryInv, TypeOK, BroadcastState, LoopWrite
<1>2. c \in clients /\ c \in CanSend /\ c \in todo
  BY <1>1, ConnsAssumption
     DEF RegistryInv, BroadcastState, RecipientsRegistered, LoopWrite
<1>3. CASE /\ WriteFits(target)
           /\ sent' = [sent EXCEPT ![target] = event]
           /\ UNCHANGED werr
  <2>1. c \in Subscribers /\ sent[c] + 1 = event
    BY <1>1, <1>2, <1>3
       DEF RegistryInv, Delivered, Subscribers, WriteFits, WriteFails
  <2>2. Subscribers' = Subscribers /\ UNCHANGED event
    BY <1>3 DEF Subscribers, LoopWrite
  <2>3. [d \in CanSend |-> sent[d]]'
        = [[d \in CanSend |-> sent[d]] EXCEPT ![c] = event]
    BY <1>1, <1>3, ConnsAssumption DEF RegistryInv, TypeOK
  <2>4. Fanout!Deliver(c)
    BY <1>2, <2>1, <2>2, <2>3 DEF Fanout!Deliver
  <2> QED BY <1>2, <2>4 DEF Fanout!Next
<1>4. CASE werr' = [werr EXCEPT ![target] = TRUE] /\ UNCHANGED sent
  <2>1. Subscribers' = Subscribers \ {c}
    BY <1>1, <1>4 DEF RegistryInv, TypeOK, Subscribers, LoopWrite
  <2> QED BY <1>4, <2>1, LeaveStep DEF LoopWrite
<1> QED BY <1>3, <1>4 DEF LoopWrite

(* Every step of the server is a step of EventFanout or a stutter. *)
LEMMA FanoutStep ==
  ASSUME RegistryInv, [Next]_vars
  PROVE  [Fanout!Next]_(Fanout!fanoutVars)
<1>1. CASE UNCHANGED <<clients, werr, event, sent>>
  BY <1>1, QuietStep
<1>2. ASSUME NEW c \in Conns, Accept(c) \/ DialSucceeds(c)
      PROVE  [Fanout!Next]_(Fanout!fanoutVars)
  <2>1. c \notin clients
    BY <1>2 DEF RegistryInv, RegistryExact, Served, Accept, DialSucceeds
  <2>2. werr' = [werr EXCEPT ![c] = FALSE] /\ UNCHANGED <<clients, event, sent>>
    BY <1>2 DEF Accept, DialSucceeds, OpenSession, loopVars
  <2>3. Subscribers' = Subscribers
    BY <2>1, <2>2 DEF RegistryInv, TypeOK, Subscribers
  <2> QED BY <2>2, <2>3, LeaveStep
<1>3. ASSUME NEW c \in Conns, ConnWrite(c) \/ ReadError(c)
      PROVE  [Fanout!Next]_(Fanout!fanoutVars)
  <2>1. UNCHANGED <<clients, event, sent>>
    BY <1>3 DEF ConnWrite, ReadError, loopVars
  <2>2. /\ \A d \in Conns \ {c} : werr'[d] = werr[d]
        /\ werr'[c] = werr[c] \/ werr'[c] = TRUE
    BY <1>3 DEF RegistryInv, TypeOK, ConnWrite, ReadError
  <2>3. CASE werr'[c] = werr[c]
    <3>1. Subscribers' = Subscribers
      BY <2>1, <2>2, <2>3 DEF RegistryInv, TypeOK, Subscribers
    <3> QED BY <2>1, <3>1, LeaveStep
  <2>4. CASE werr'[c] = TRUE
    <3>1. Subscribers' = Subscribers \ {c}
      BY <2>1, <2>2, <2>4 DEF RegistryInv, TypeOK, Subscribers
    <3> QED BY <2>1, <3>1, LeaveStep
  <2> QED BY <2>2, <2>3, <2>4
<1>4. ASSUME NEW c \in Conns, RemoveClient(c)
      PROVE  [Fanout!Next]_(Fanout!fanoutVars)
  <2>1. Subscribers' = Subscribers \ {c} /\ UNCHANGED <<event, sent>>
    BY <1>4 DEF Subscribers, RemoveClient, sessionVars
  <2> QED BY <2>1, LeaveStep
<1>5. CASE Exit
  <2>1. Subscribers' = {} /\ UNCHANGED <<event, sent>>
    BY <1>5 DEF Subscribers, Exit
  <2>2. CASE Subscribers = {}
    BY <2>1, <2>2 DEF Fanout!fanoutVars
  <2>3. CASE Subscribers # {}
    <3>1. Fanout!Stop
      BY <2>1, <2>3 DEF Fanout!Stop
    <3> QED BY <3>1 DEF Fanout!Next
  <2> QED BY <2>2, <2>3
<1>6. ASSUME NEW c \in Conns,
             \/ DialFails(c) \/ Wake(c) \/ ReverseStops(c) \/ ConnLock(c)
             \/ ReadRequest(c) \/ Close(c) \/ NextRecipient(c)
             \/ PeerSends(c) \/ PeerReads(c) \/ PeerHangsUp(c) \/ PeerResets(c)
      PROVE  UNCHANGED <<clients, werr, event, sent>>
  BY <1>6 DEF DialFails, Wake, ReverseStops, ConnLock, ReadRequest, Close,
              NextRecipient, PeerSends, PeerReads, PeerHangsUp, PeerResets,
              sessionVars, loopVars
<1>7. ASSUME BroadcastCall \/ LoopLock \/ BroadcastReturns \/ Cancel \/
    UNCHANGED vars
      PROVE  UNCHANGED <<clients, werr, event, sent>>
  BY <1>7
     DEF BroadcastCall, LoopLock, BroadcastReturns, Cancel, vars, sessionVars,
         loopVars
<1> QED
  BY <1>1, <1>2, <1>3, <1>4, <1>5, <1>6, <1>7, JoinStep, PublishStep,
      DeliverStep
     DEF Next, ConnStep, LoopStep

-----------------------------------------------------------------------------
(* The inductive invariant holds in every reachable state. *)
THEOREM RegistryInvariant == Spec => []RegistryInv
BY InitInv, NextInv, PTL DEF Spec

(* Every variable keeps its type: sockets within their capacity, the event *)
(* and request counters within their bounds.                               *)
THEOREM TypeCorrect == Spec => []TypeOK
<1>1. RegistryInv => TypeOK
  BY DEF RegistryInv
<1> QED BY <1>1, RegistryInvariant, PTL

(* clientConn.write is never entered by a connection's goroutine and by    *)
(* Broadcast at the same time: clientConn.mu covers every WriteMessage.    *)
THEOREM WritesExclusive == Spec => []WriteExclusion
<1>1. RegistryInv => WriteExclusion
  BY DEF RegistryInv, MutexHeld, WriteExclusion
<1> QED BY <1>1, RegistryInvariant, PTL

(* Server.clients holds exactly the connections being served, whichever    *)
(* way a handler or runReverseClient leaves a session.                     *)
THEOREM RegistryIsExact == Spec => []RegistryExact
<1>1. RegistryInv => RegistryExact
  BY DEF RegistryInv
<1> QED BY <1>1, RegistryInvariant, PTL

(* Broadcast only ever has registered connections ahead of it: removeClient *)
(* waits for the end of the range.                                          *)
THEOREM RecipientsStayRegistered == Spec => []RecipientsRegistered
<1>1. RegistryInv => RecipientsRegistered
  BY DEF RegistryInv
<1> QED BY <1>1, RegistryInvariant, PTL

(* No registered connection whose writes succeed misses an event.           *)
THEOREM NobodyLeftOut == Spec => []Delivered
<1>1. RegistryInv => Delivered
  BY DEF RegistryInv
<1> QED BY <1>1, RegistryInvariant, PTL

(* The server with its locks, sockets and goroutines implements the event   *)
(* fan-out: in order, without gaps, one event at a time.                    *)
THEOREM ImplementsFanout == Spec => FanoutSpec
<1>1. Init => Fanout!Init
  BY ConnsAssumption DEF Init, Fanout!Init, Subscribers
<1>2. RegistryInv /\ [Next]_vars => [Fanout!Next]_(Fanout!fanoutVars)
  BY FanoutStep
<1> QED BY <1>1, <1>2, RegistryInvariant, PTL DEF Spec, FanoutSpec, Fanout!Spec

=============================================================================
