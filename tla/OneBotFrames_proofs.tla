------------------------ MODULE OneBotFrames_proofs ------------------------
(***************************************************************************)
(* What a peer reads, for every set of connections, every socket capacity  *)
(* and every number of events and requests: the frames of its roles, events *)
(* without a gap and replies in order. FramesInv says it of the frames that *)
(* wait in the sockets; with RegistryInv it is inductive.                   *)
(***************************************************************************)
EXTENDS OneBotServer_proofs, Integers

-----------------------------------------------------------------------------
(* The frames of a sequence of frames, and their numbers. *)
LEMMA FramesOf ==
  ASSUME NEW s \in Seq(Frame)
  PROVE  /\ Len(s) \in Nat
         /\ \A i \in 1..Len(s) : s[i].n \in Nat
<1>1. \A i \in 1..Len(s) : s[i] \in Frame
  OBVIOUS
<1>2. \A f \in Frame : f.n \in Nat
  BY DEF Frame
<1> QED BY <1>1, <1>2

(* What is left of a sequence without its first frame. *)
LEMMA TailFrames ==
  ASSUME NEW s \in Seq(Frame), s # <<>>
  PROVE  /\ Len(Tail(s)) = Len(s) - 1
         /\ Len(s) \in Nat \ {0}
         /\ Head(s) = s[1]
         /\ \A i \in 1..Len(Tail(s)) : Tail(s)[i] = s[i + 1]
<1>1. Len(s) \in Nat \ {0}
  OBVIOUS
<1>2. Head(s) = s[1]
  OBVIOUS
<1>3. Len(Tail(s)) = Len(s) - 1
  OBVIOUS
<1>4. \A i \in 1..Len(Tail(s)) : Tail(s)[i] = s[i + 1]
  OBVIOUS
<1> QED BY <1>1, <1>2, <1>3, <1>4

(* Nothing is out of order in a socket that holds nothing. *)
LEMMA NothingNumbered ==
  ASSUME NEW kinds, NEW low \in Int, NEW high \in Int
  PROVE  /\ Numbered(<<>>, kinds, low, high)
         /\ high <= low => Complete(<<>>, kinds, low, high)
BY DEF Numbered, Complete

(* The bound of the numbers may rise. *)
LEMMA NumberedUpTo ==
  ASSUME NEW s \in Seq(Frame), NEW kinds, NEW low \in Int, NEW high \in Int,
         NEW higher \in Int, high <= higher, Numbered(s, kinds, low, high)
  PROVE  Numbered(s, kinds, low, higher)
<1>1. \A i \in 1..Len(s) : s[i].kind \in kinds => s[i].n <= higher
  BY FramesOf DEF Numbered
<1> QED BY <1>1 DEF Numbered

(* A frame of another kind changes nothing. *)
LEMMA AppendOther ==
  ASSUME NEW s \in Seq(Frame), NEW kinds, NEW low \in Int, NEW high \in Int,
         NEW f \in Frame, f.kind \notin kinds,
         Numbered(s, kinds, low, high)
  PROVE  /\ Numbered(Append(s, f), kinds, low, high)
         /\ Complete(s, kinds, low, high) => Complete(Append(s, f), kinds, low, high)
<1> DEFINE t == Append(s, f)
<1>1. /\ Len(t) = Len(s) + 1 /\ Len(s) \in Nat
      /\ t[Len(s) + 1] = f
      /\ \A i \in 1..Len(s) : t[i] = s[i]
  OBVIOUS
<1>2. \A i \in 1..Len(t) : t[i].kind \in kinds => i \in 1..Len(s)
  BY <1>1
<1>3. 1..Len(s) \subseteq 1..Len(t)
  BY <1>1
<1> HIDE DEF t
<1>4. Numbered(t, kinds, low, high)
  BY <1>1, <1>2, <1>3 DEF Numbered
<1>5. Complete(s, kinds, low, high) => Complete(t, kinds, low, high)
  BY <1>1, <1>3 DEF Complete
<1> QED BY <1>4, <1>5 DEF t

(* The next number keeps the order, if none was missing. *)
LEMMA AppendNext ==
  ASSUME NEW s \in Seq(Frame), NEW kinds, NEW low \in Int, NEW high \in Int,
         NEW f \in Frame, f.kind \in kinds, f.n = high + 1, low <= high,
         Numbered(s, kinds, low, high), Complete(s, kinds, low, high)
  PROVE  /\ Numbered(Append(s, f), kinds, low, high + 1)
         /\ Complete(Append(s, f), kinds, low, high + 1)
<1> DEFINE t == Append(s, f)
<1>1. /\ Len(t) = Len(s) + 1 /\ Len(s) \in Nat
      /\ t[Len(s) + 1] = f
      /\ \A i \in 1..Len(s) : t[i] = s[i]
      /\ \A i \in 1..Len(s) : s[i].n \in Nat
  BY FramesOf
<1>2. \A i \in 1..Len(t) : i \in 1..Len(s) \/ i = Len(s) + 1
  BY <1>1
<1>3. 1..Len(s) \subseteq 1..Len(t) /\ Len(s) + 1 \in 1..Len(t)
  BY <1>1
<1> HIDE DEF t
<1>4. \A n \in (low + 1)..high :
        \E j \in 1..Len(t) : t[j].kind \in kinds /\ t[j].n = n
  BY <1>1, <1>3 DEF Complete
<1>5. Complete(t, kinds, low, high + 1)
  <2> SUFFICES ASSUME NEW n \in (low + 1)..(high + 1)
               PROVE  \E j \in 1..Len(t) : t[j].kind \in kinds /\ t[j].n = n
    BY DEF Complete
  <2>1. CASE n = high + 1
    BY <1>1, <1>3, <2>1
  <2>2. CASE n # high + 1
    BY <1>4, <2>2
  <2> QED BY <2>1, <2>2
<1>6. Numbered(t, kinds, low, high + 1)
  <2> SUFFICES ASSUME NEW i \in 1..Len(t), t[i].kind \in kinds
               PROVE  /\ low < t[i].n /\ t[i].n <= high + 1
                      /\ \A j \in 1..Len(t) :
                           i < j /\ t[j].kind \in kinds => t[i].n < t[j].n
                      /\ \A n \in (low + 1)..(t[i].n - 1) :
                           \E j \in 1..Len(t) : t[j].kind \in kinds /\ t[j].n = n
    BY DEF Numbered
  <2>1. CASE i \in 1..Len(s)
    <3>1. low < s[i].n /\ s[i].n <= high
      BY <1>1, <2>1 DEF Numbered
    <3>2. ASSUME NEW j \in 1..Len(t), i < j, t[j].kind \in kinds
          PROVE  t[i].n < t[j].n
      BY <1>1, <1>2, <2>1, <3>1, <3>2 DEF Numbered
    <3>3. \A n \in (low + 1)..(t[i].n - 1) : n \in (low + 1)..high
      BY <1>1, <2>1, <3>1
    <3> QED BY <1>1, <1>4, <2>1, <3>1, <3>2, <3>3
  <2>2. CASE i = Len(s) + 1
    BY <1>1, <1>2, <1>4, <2>2
  <2> QED BY <1>2, <2>1, <2>2
<1> QED BY <1>5, <1>6 DEF t

(* A frame of another kind may be read. *)
LEMMA TailOther ==
  ASSUME NEW s \in Seq(Frame), s # <<>>, NEW kinds, NEW low \in Int,
         NEW high \in Int, Head(s).kind \notin kinds,
         Numbered(s, kinds, low, high)
  PROVE  /\ Numbered(Tail(s), kinds, low, high)
         /\ Complete(s, kinds, low, high) => Complete(Tail(s), kinds, low, high)
<1> DEFINE t == Tail(s)
<1>1. /\ Len(t) = Len(s) - 1 /\ Len(s) \in Nat
      /\ s[1] = Head(s)
      /\ \A i \in 1..Len(t) : t[i] = s[i + 1]
      /\ \A i \in 1..Len(s) : s[i].n \in Nat
  BY FramesOf, TailFrames
<1>2. \A i \in 1..Len(t) : i + 1 \in 1..Len(s)
  BY <1>1
<1>3. \A i \in 1..Len(s) : i = 1 \/ (i - 1 \in 1..Len(t) /\ t[i - 1] = s[i])
  BY <1>1
<1> HIDE DEF t
<1>4. ASSUME NEW n \in Int, \E j \in 1..Len(s) : s[j].kind \in kinds /\ s[j].n = n
      PROVE  \E j \in 1..Len(t) : t[j].kind \in kinds /\ t[j].n = n
  BY <1>1, <1>3, <1>4
<1>5. ASSUME Complete(s, kinds, low, high)
      PROVE  Complete(t, kinds, low, high)
  <2>1. ASSUME NEW n \in (low + 1)..high
        PROVE  \E j \in 1..Len(t) : t[j].kind \in kinds /\ t[j].n = n
    <3>1. \E j \in 1..Len(s) : s[j].kind \in kinds /\ s[j].n = n
      BY <1>5, <2>1 DEF Complete
    <3>2. n \in Int
      OBVIOUS
    <3> QED BY <1>4, <3>1, <3>2, Zenon
  <2> QED BY <2>1 DEF Complete
<1>6. Numbered(t, kinds, low, high)
  <2> SUFFICES ASSUME NEW i \in 1..Len(t), t[i].kind \in kinds
               PROVE  /\ low < t[i].n /\ t[i].n <= high
                      /\ \A j \in 1..Len(t) :
                           i < j /\ t[j].kind \in kinds => t[i].n < t[j].n
                      /\ \A n \in (low + 1)..(t[i].n - 1) :
                           \E j \in 1..Len(t) : t[j].kind \in kinds /\ t[j].n = n
    BY DEF Numbered
  <2>1. /\ low < s[i + 1].n /\ s[i + 1].n <= high
        /\ \A j \in 1..Len(s) : i + 1 < j /\ s[j].kind \in kinds => s[i + 1].n < s[j].n
        /\ \A n \in (low + 1)..(s[i + 1].n - 1) :
             \E j \in 1..Len(s) : s[j].kind \in kinds /\ s[j].n = n
    BY <1>1, <1>2 DEF Numbered
  <2>2. \A j \in 1..Len(t) : i < j /\ t[j].kind \in kinds => t[i].n < t[j].n
    BY <1>1, <1>2, <2>1
  <2>3. t[i] = s[i + 1]
    BY <1>1
  <2> QED BY <1>4, <2>1, <2>2, <2>3
<1> QED BY <1>5, <1>6 DEF t

(* The first frame of its kind bears the next number. *)
LEMMA TailNext ==
  ASSUME NEW s \in Seq(Frame), s # <<>>, NEW kinds, NEW low \in Int,
         NEW high \in Int, Head(s).kind \in kinds,
         Numbered(s, kinds, low, high)
  PROVE  /\ Head(s).n = low + 1 /\ Head(s).n <= high
         /\ Numbered(Tail(s), kinds, low + 1, high)
         /\ Complete(s, kinds, low, high) => Complete(Tail(s), kinds, low + 1, high)
<1> DEFINE t == Tail(s)
<1>1. /\ Len(t) = Len(s) - 1 /\ Len(s) \in Nat /\ 1 \in 1..Len(s)
      /\ s[1] = Head(s)
      /\ \A i \in 1..Len(t) : t[i] = s[i + 1]
      /\ \A i \in 1..Len(s) : s[i].n \in Nat
  BY FramesOf, TailFrames
<1>2. \A i \in 1..Len(t) : i + 1 \in 1..Len(s)
  BY <1>1
<1>3. \A i \in 1..Len(s) : i = 1 \/ (i - 1 \in 1..Len(t) /\ t[i - 1] = s[i])
  BY <1>1
<1> HIDE DEF t
<1>4. low < s[1].n /\ s[1].n <= high
  BY <1>1 DEF Numbered
<1>5. \A j \in 1..Len(s) : j # 1 /\ s[j].kind \in kinds => s[1].n < s[j].n
  BY <1>1 DEF Numbered
<1>6. s[1].n = low + 1
  <2>1. SUFFICES ASSUME low + 1 # s[1].n PROVE FALSE
    OBVIOUS
  <2>2. low + 1 \in (low + 1)..(s[1].n - 1)
    BY <1>1, <1>4, <2>1
  <2>3. PICK j \in 1..Len(s) : s[j].kind \in kinds /\ s[j].n = low + 1
    BY <1>1, <2>2 DEF Numbered
  <2> QED BY <1>1, <1>4, <1>5, <2>1, <2>3
<1>7. ASSUME NEW n \in Int, n > low + 1,
             \E j \in 1..Len(s) : s[j].kind \in kinds /\ s[j].n = n
      PROVE  \E j \in 1..Len(t) : t[j].kind \in kinds /\ t[j].n = n
  BY <1>3, <1>6, <1>7
<1>8. Complete(s, kinds, low, high) => Complete(t, kinds, low + 1, high)
  BY <1>7 DEF Complete
<1>9. Numbered(t, kinds, low + 1, high)
  <2> SUFFICES ASSUME NEW i \in 1..Len(t), t[i].kind \in kinds
               PROVE  /\ low + 1 < t[i].n /\ t[i].n <= high
                      /\ \A j \in 1..Len(t) :
                           i < j /\ t[j].kind \in kinds => t[i].n < t[j].n
                      /\ \A n \in (low + 1 + 1)..(t[i].n - 1) :
                           \E j \in 1..Len(t) : t[j].kind \in kinds /\ t[j].n = n
    BY DEF Numbered
  <2>1. /\ s[i + 1].n <= high
        /\ \A j \in 1..Len(s) : i + 1 < j /\ s[j].kind \in kinds => s[i + 1].n < s[j].n
        /\ \A n \in (low + 1)..(s[i + 1].n - 1) :
             \E j \in 1..Len(s) : s[j].kind \in kinds /\ s[j].n = n
    BY <1>1, <1>2 DEF Numbered
  <2>2. \A j \in 1..Len(t) : i < j /\ t[j].kind \in kinds => t[i].n < t[j].n
    BY <1>1, <1>2, <2>1
  <2>3. t[i] = s[i + 1] /\ s[i + 1].n \in Nat /\ low + 1 < s[i + 1].n
    BY <1>1, <1>2, <1>5, <1>6
  <2>4. \A n \in (low + 1 + 1)..(t[i].n - 1) :
          \E j \in 1..Len(t) : t[j].kind \in kinds /\ t[j].n = n
    BY <1>7, <2>1, <2>3
  <2> QED BY <2>1, <2>2, <2>3, <2>4
<1> QED BY <1>1, <1>4, <1>6, <1>8, <1>9 DEF t

-----------------------------------------------------------------------------
(* What a connection's part of the invariant depends on. *)
frameVars(c) ==
  <<pc[c], job[c], link[c], werr[c], sock[c], taken[c], answered[c], seen[c], sent[c]>>

(* A step that leaves a connection alone keeps its part. *)
LEMMA ConnUntouched ==
  ASSUME NEW c \in Conns, ConnInv(c), UNCHANGED frameVars(c)
  PROVE  ConnInv(c)'
BY DEF ConnInv, SocketState, Between, NothingInFlight, JobOfRole, FramesOfRole,
       FramesInOrder, Replied, frameVars

(* After a step, an empty socket is in order and has frames of every role. *)
LEMMA EmptySocket ==
  ASSUME NEW c \in Conns, RegistryInv', sock'[c] = <<>>
  PROVE  /\ FramesOfRole(c)'
         /\ Numbered(sock[c], {"event"}, seen[c], sent[c])'
         /\ Numbered(sock[c], Replies, answered[c], Replied(c))'
         /\ (sent[c] <= seen[c] => Complete(sock[c], {"event"}, seen[c], sent[c]))'
         /\ (Replied(c) <= answered[c] =>
               Complete(sock[c], Replies, answered[c], Replied(c)))'
<1>1. /\ seen'[c] \in Int /\ sent'[c] \in Int
      /\ answered'[c] \in Int /\ Replied(c)' \in Int
  BY DEF RegistryInv, TypeOK, Replied
<1>2. FramesOfRole(c)'
  BY DEF FramesOfRole
<1> QED BY <1>1, <1>2, NothingNumbered

(* The initial state satisfies the invariant. *)
LEMMA InitFrames == Init => HubInv
<1> SUFFICES ASSUME Init, NEW c \in Conns PROVE ConnInv(c)
  BY InitInv DEF HubInv
<1>1. SocketState(c) /\ JobOfRole(c)
  BY DEF Init, SocketState, Between, NothingInFlight, JobOfRole, Replies
<1>2. Numbered(<<>>, {"event"}, 0, 0) /\ Complete(<<>>, {"event"}, 0, 0)
  BY NothingNumbered
<1>3. Numbered(<<>>, Replies, 0, 0) /\ Complete(<<>>, Replies, 0, 0)
  BY NothingNumbered
<1>4. sock[c] = <<>> /\ seen[c] = 0 /\ sent[c] = 0 /\ answered[c] = 0 /\ Replied(c) = 0
  BY DEF Init, Replied, Replies
<1>5. FramesOfRole(c) /\ FramesInOrder(c)
  BY <1>2, <1>3, <1>4 DEF FramesOfRole, FramesInOrder
<1> QED BY <1>1, <1>5 DEF ConnInv

-----------------------------------------------------------------------------
(* A session begins on an empty socket. *)
LEMMA OpenSessionFrames ==
  ASSUME HubInv, RegistryInv', NEW c \in Conns, Between(c), pc[c] # "dead",
         OpenSession(c)
  PROVE  \A d \in Conns : ConnInv(d)'
<1>1. ASSUME NEW d \in Conns, d # c PROVE ConnInv(d)'
  BY <1>1, ConnUntouched DEF HubInv, RegistryInv, TypeOK, OpenSession, Goto, frameVars
<1>2. /\ NothingInFlight(c) /\ job[c] \notin {"lifecycle"} \union Replies
  BY DEF HubInv, ConnInv, SocketState, JobOfRole, Between, RegistryInv, TypeOK, Replies
<1>3. pc'[c] = "adding" /\ link'[c] = "up" /\ UNCHANGED <<job, sock, taken, answered>>
  BY DEF HubInv, RegistryInv, TypeOK, OpenSession, Goto
<1>4. SocketState(c)' /\ JobOfRole(c)'
  BY <1>2, <1>3 DEF HubInv, ConnInv, SocketState, Between, NothingInFlight, JobOfRole
<1>5. FramesOfRole(c)' /\ FramesInOrder(c)'
  <2>1. sock'[c] = <<>>
    BY <1>2, <1>3 DEF NothingInFlight
  <2> QED BY <1>3, <2>1, EmptySocket DEF FramesInOrder
<1> QED BY <1>1, <1>4, <1>5 DEF ConnInv

(* Steps that change nothing but the place of a goroutine: what its         *)
(* connection has in flight stays in order.                                *)
LEMMA PlaceFrames ==
  ASSUME HubInv, NEW c \in Conns, NEW p \in PcStates \ {"adding"},
         pc' = [pc EXCEPT ![c] = p], pc[c] # "adding",
         UNCHANGED <<job, link, werr, sock, taken, answered, seen, sent>>,
         Between(c)' => link[c] = "closed",
         job[c] # "none" => p \in {"lock", "write"}
  PROVE  \A d \in Conns : ConnInv(d)'
<1>1. ASSUME NEW d \in Conns, d # c PROVE ConnInv(d)'
  BY <1>1, ConnUntouched DEF HubInv, RegistryInv, TypeOK, frameVars
<1>2. pc'[c] = p
  BY DEF HubInv, RegistryInv, TypeOK
<1>3. SocketState(c)' /\ JobOfRole(c)'
  BY <1>2 DEF HubInv, ConnInv, SocketState, NothingInFlight, JobOfRole
<1>4. FramesOfRole(c)' /\ FramesInOrder(c)'
  BY <1>2 DEF HubInv, ConnInv, FramesOfRole, FramesInOrder, Replied
<1> QED BY <1>1, <1>3, <1>4 DEF ConnInv

(* addClient begins to count events: none is missed yet. *)
LEMMA AddClientFrames ==
  ASSUME HubInv, RegistryInv', NEW c \in Conns, AddClient(c)
  PROVE  \A d \in Conns : ConnInv(d)'
<1>1. ASSUME NEW d \in Conns, d # c PROVE ConnInv(d)'
  BY <1>1, ConnUntouched
     DEF HubInv, RegistryInv, TypeOK, AddClient, Goto, frameVars
<1>2. PICK p \in {"lock", "reading", Teardown(c)} : pc' = [pc EXCEPT ![c] = p]
  BY DEF AddClient, Goto, Resume
<1>3. /\ NothingInFlight(c) /\ job[c] \notin {"lifecycle"} \union Replies
      /\ UNCHANGED <<sock, taken, answered, link>>
  BY DEF HubInv, ConnInv, SocketState, JobOfRole, RegistryInv, TypeOK, AddClient, Replies
<1>4. /\ pc'[c] = p /\ p \notin {"adding", "idle", "dialing", "sleeping", "stopped", "dead"}
      /\ p = "removing" => c \in Reverse
  BY <1>2 DEF HubInv, RegistryInv, TypeOK, Teardown
<1>5. job'[c] = job[c] \/ (job'[c] = "lifecycle" /\ c \in CanSend /\ pc'[c] = "lock")
  BY DEF HubInv, RegistryInv, TypeOK, AddClient, Goto
<1>6. SocketState(c)' /\ JobOfRole(c)'
  <2>1. job[c] = "none"
    BY DEF HubInv, ConnInv, JobOfRole, AddClient
  <2> QED BY <1>3, <1>4, <1>5, <2>1
             DEF SocketState, Between, NothingInFlight, JobOfRole, Replies
<1>7. seen'[c] = sent'[c] /\ seen'[c] \in Nat /\ Replied(c)' = 0 /\ answered'[c] = 0
  BY <1>3, <1>5 DEF HubInv, RegistryInv, TypeOK, AddClient, Replied, Replies, NothingInFlight
<1>8. FramesOfRole(c)' /\ FramesInOrder(c)'
  <2>1. sock'[c] = <<>>
    BY <1>3 DEF NothingInFlight
  <2> QED BY <1>7, <2>1, EmptySocket DEF FramesInOrder
<1> QED BY <1>1, <1>6, <1>8 DEF ConnInv

(* A request that is read is answered next, where requests are answered. *)
LEMMA ReadRequestFrames ==
  ASSUME HubInv, RegistryInv', NEW c \in Conns, ReadRequest(c)
  PROVE  \A d \in Conns : ConnInv(d)'
<1>1. ASSUME NEW d \in Conns, d # c PROVE ConnInv(d)'
  BY <1>1, ConnUntouched
     DEF HubInv, RegistryInv, TypeOK, ReadRequest, Goto, frameVars
<1>2. PICK p \in {"lock", "reading", Teardown(c)} : pc' = [pc EXCEPT ![c] = p]
  BY DEF ReadRequest, Goto, Resume
<1>3. /\ pc'[c] = p /\ p \notin {"adding", "idle", "dialing", "sleeping", "stopped", "dead"}
      /\ p = "removing" => c \in Reverse
  BY <1>2 DEF HubInv, RegistryInv, TypeOK, Teardown
<1>4. /\ UNCHANGED <<sock, answered, link, werr, seen, sent>>
      /\ taken'[c] = taken[c] + 1 /\ link[c] \in {"up", "fin"}
      /\ job[c] = "none" /\ pc[c] = "reading"
  BY DEF HubInv, ConnInv, JobOfRole, RegistryInv, TypeOK, ReadRequest
<1>5. \/ c \in CanReceive /\ job'[c] \in Replies /\ pc'[c] = "lock"
      \/ c \notin CanReceive /\ job'[c] = "none"
  BY <1>4 DEF HubInv, RegistryInv, TypeOK, ReadRequest, Goto, Replies
<1>6. SocketState(c)' /\ JobOfRole(c)'
  BY <1>3, <1>4, <1>5 DEF SocketState, Between, JobOfRole, Replies
<1>7. /\ taken[c] \in Int /\ answered[c] \in Int /\ sock[c] \in Seq(Frame)
      /\ Replied(c) = taken[c]
      /\ Replied(c)' = IF c \in CanReceive THEN taken[c] ELSE taken[c] + 1
  <2>1. taken[c] \in Int /\ answered[c] \in Int /\ sock[c] \in Seq(Frame)
    BY DEF HubInv, RegistryInv, TypeOK
  <2>2. Replied(c) = taken[c]
    BY <1>4 DEF Replied, Replies
  <2>3. Replied(c)' = IF c \in CanReceive THEN taken[c] ELSE taken[c] + 1
    BY <1>4, <1>5, <2>1 DEF Replied, Replies
  <2> QED BY <2>1, <2>2, <2>3
<1>8. FramesInOrder(c)
  BY DEF HubInv, ConnInv
<1>9. Numbered(sock[c], Replies, answered[c], Replied(c)')
  BY <1>7, <1>8, NumberedUpTo DEF FramesInOrder
<1>10. FramesInOrder(c)'
  BY <1>3, <1>4, <1>7, <1>8, <1>9 DEF FramesInOrder
<1>11. FramesOfRole(c)'
  BY <1>4 DEF HubInv, ConnInv, FramesOfRole
<1> QED BY <1>1, <1>6, <1>10, <1>11 DEF ConnInv

(* A read error ends a session, perhaps with a write error. *)
LEMMA ReadErrorFrames ==
  ASSUME HubInv, NEW c \in Conns, ReadError(c)
  PROVE  \A d \in Conns : ConnInv(d)'
<1>1. PICK e \in {TRUE, werr[c]} : werr' = [werr EXCEPT ![c] = e]
  BY DEF ReadError
<1>2. ASSUME NEW d \in Conns, d # c PROVE ConnInv(d)'
  BY <1>1, <1>2, ConnUntouched
     DEF HubInv, RegistryInv, TypeOK, ReadError, Goto, frameVars
<1>3. /\ pc'[c] = Teardown(c) /\ pc[c] = "reading" /\ link[c] \in {"fin", "reset"}
      /\ UNCHANGED <<job, sock, taken, answered, link, seen, sent>>
  BY DEF HubInv, RegistryInv, TypeOK, ReadError, Goto
<1>4. ~werr'[c] => ~werr[c]
  <2>1. werr'[c] = e
    BY <1>1 DEF HubInv, RegistryInv, TypeOK
  <2> QED BY <2>1, Zenon
<1>5. SocketState(c)' /\ JobOfRole(c)' /\ FramesOfRole(c)'
  BY <1>3 DEF HubInv, ConnInv, SocketState, Between, NothingInFlight, JobOfRole,
              FramesOfRole, Teardown
<1>6. FramesInOrder(c)'
  BY <1>3, <1>4 DEF HubInv, ConnInv, FramesInOrder, Replied
<1> QED BY <1>2, <1>5, <1>6 DEF ConnInv

(* The end of a session, or of the process, leaves nothing in flight. *)
LEMMA LostFrames ==
  ASSUME HubInv, RegistryInv', NEW cs \in SUBSET Conns, InFlightLost(cs),
         UNCHANGED <<job, seen, sent>>,
         \A c \in Conns : IF c \in cs THEN link'[c] \in {"reset", "closed"}
                                      ELSE UNCHANGED <<pc[c], link[c], werr[c]>>,
         \A c \in cs : Between(c)' => link'[c] = "closed",
         \A c \in cs : job[c] # "none" => pc'[c] \in {"lock", "write", "dead"}
  PROVE  \A d \in Conns : ConnInv(d)'
<1>1. ASSUME NEW d \in Conns, d \notin cs PROVE ConnInv(d)'
  <2>1. UNCHANGED <<sock[d], taken[d], answered[d]>>
    BY <1>1 DEF HubInv, RegistryInv, TypeOK, InFlightLost
  <2> QED BY <1>1, <2>1, ConnUntouched DEF HubInv, frameVars
<1>2. ASSUME NEW c \in cs PROVE ConnInv(c)'
  <2>1. NothingInFlight(c)'
    BY <1>2 DEF InFlightLost, NothingInFlight
  <2>2. SocketState(c)' /\ JobOfRole(c)'
    BY <1>2, <2>1 DEF HubInv, ConnInv, SocketState, JobOfRole
  <2>3. FramesOfRole(c)' /\ FramesInOrder(c)'
    BY <1>2, <2>1, EmptySocket DEF NothingInFlight, FramesInOrder
  <2> QED BY <2>2, <2>3 DEF ConnInv
<1> QED BY <1>1, <1>2

(* A goroutine writes a frame of its connection's role, and a reply next in *)
(* order; after a failure nothing is written any more.                     *)
LEMMA ConnWriteFrames ==
  ASSUME HubInv, NEW c \in Conns, ConnWrite(c)
  PROVE  \A d \in Conns : ConnInv(d)'
<1>1. ASSUME NEW d \in Conns, d # c PROVE ConnInv(d)'
  BY <1>1, ConnUntouched
     DEF HubInv, RegistryInv, TypeOK, ConnWrite, Push, Goto, frameVars
<1>2. PICK p \in {"reading", Teardown(c)} : pc' = [pc EXCEPT ![c] = p]
  BY DEF ConnWrite, Goto, Resume
<1>3. /\ pc'[c] = p /\ p \notin {"adding", "idle", "dialing", "sleeping", "stopped", "dead"}
      /\ p = "removing" => c \in Reverse
  BY <1>2 DEF HubInv, RegistryInv, TypeOK, Teardown
<1>4. /\ UNCHANGED <<taken, answered, link, seen, sent>>
      /\ pc[c] = "write" /\ job'[c] = "none"
  BY DEF HubInv, RegistryInv, TypeOK, ConnWrite
<1>5. /\ sock[c] \in Seq(Frame) /\ job[c] \in Jobs /\ taken[c] \in Nat
      /\ answered[c] \in Nat /\ seen[c] \in Nat /\ sent[c] \in Nat
  BY <1>4 DEF HubInv, RegistryInv, TypeOK, JobAtHand
<1>6. Replied(c)' = taken[c]
  BY <1>4 DEF Replied, Replies
<1>7. FramesInOrder(c) /\ SocketState(c) /\ JobOfRole(c) /\ FramesOfRole(c)
  BY DEF HubInv, ConnInv
<1>8. CASE WriteFails(c) /\ werr' = [werr EXCEPT ![c] = TRUE] /\ UNCHANGED sock
  <2>1. SocketState(c)' /\ JobOfRole(c)' /\ FramesOfRole(c)'
    BY <1>3, <1>4, <1>7, <1>8
       DEF SocketState, Between, NothingInFlight, JobOfRole, FramesOfRole, Replies
  <2>2. Replied(c) \in Int /\ Replied(c) <= taken[c]
    BY <1>5 DEF Replied
  <2>3. Numbered(sock[c], Replies, answered[c], taken[c])
    BY <1>5, <1>7, <2>2, NumberedUpTo DEF FramesInOrder
  <2>4. werr'[c]
    BY <1>8 DEF HubInv, RegistryInv, TypeOK
  <2>5. FramesInOrder(c)'
    BY <1>3, <1>4, <1>5, <1>6, <1>7, <1>8, <2>2, <2>3, <2>4 DEF FramesInOrder
  <2> QED BY <1>1, <2>1, <2>5 DEF ConnInv
<1>9. CASE WriteFits(c) /\ Push(c, job[c], taken[c]) /\ UNCHANGED werr
  <2> DEFINE f == [kind |-> job[c], n |-> taken[c]]
  <2>1. f \in Frame /\ f.kind = job[c] /\ f.n = taken[c]
    BY <1>5 DEF Frame
  <2>2. sock'[c] = Append(sock[c], f)
    BY <1>9 DEF HubInv, RegistryInv, TypeOK, Push
  <2>3. link[c] \in {"up", "fin"} /\ ~werr[c]
    BY <1>9 DEF HubInv, RegistryInv, TypeOK, WriteFits, WriteFails
  <2> HIDE DEF f
  <2>4. SocketState(c)' /\ JobOfRole(c)'
    BY <1>3, <1>4, <2>3 DEF SocketState, Between, JobOfRole, Replies
  <2>5. FramesOfRole(c)'
    <3>1. \A i \in 1..Len(sock'[c]) :
            \/ i \in 1..Len(sock[c]) /\ sock'[c][i] = sock[c][i]
            \/ sock'[c][i] = f
      BY <1>5, <2>1, <2>2
    <3>2. IF f.kind \in {"event", "lifecycle"} THEN c \in CanSend ELSE c \in CanReceive
      BY <1>5, <1>7, <2>1 DEF JobOfRole, Jobs, Replies
    <3> QED BY <1>7, <3>1, <3>2 DEF FramesOfRole
  <2>6. f.kind \notin {"event"}
    BY <1>5, <2>1 DEF Jobs, Replies
  <2>7. /\ Numbered(sock'[c], {"event"}, seen[c], sent[c])
        /\ Complete(sock'[c], {"event"}, seen[c], sent[c])
    BY <1>4, <1>5, <1>7, <2>1, <2>2, <2>3, <2>6, AppendOther DEF FramesInOrder
  <2>8. /\ Numbered(sock'[c], Replies, answered[c], taken[c])
        /\ c \in CanReceive => Complete(sock'[c], Replies, answered[c], taken[c])
        /\ answered[c] <= taken[c]
    <3>1. CASE job[c] \in Replies
      <4>1. Replied(c) = taken[c] - 1 /\ c \in CanReceive
        BY <1>7, <3>1 DEF Replied, JobOfRole
      <4>2. /\ Numbered(sock[c], Replies, answered[c], taken[c] - 1)
            /\ Complete(sock[c], Replies, answered[c], taken[c] - 1)
            /\ answered[c] <= taken[c] - 1
        BY <1>4, <1>7, <2>3, <4>1 DEF FramesInOrder
      <4>3. f.n = (taken[c] - 1) + 1 /\ taken[c] - 1 \in Int
        BY <1>5, <2>1
      <4>4. /\ Numbered(sock'[c], Replies, answered[c], (taken[c] - 1) + 1)
            /\ Complete(sock'[c], Replies, answered[c], (taken[c] - 1) + 1)
        <5>1. f.kind \in Replies
          BY <2>1, <3>1
        <5>2. answered[c] \in Int
          BY <1>5
        <5> QED BY <1>5, <2>1, <2>2, <4>2, <4>3, <5>1, <5>2, AppendNext
      <4>5. (taken[c] - 1) + 1 = taken[c] /\ answered[c] <= taken[c]
        BY <1>5, <4>2
      <4> QED BY <4>4, <4>5
    <3>2. CASE job[c] \notin Replies
      <4>1. Replied(c) = taken[c]
        BY <3>2 DEF Replied
      <4> QED BY <1>4, <1>5, <1>7, <2>1, <2>2, <2>3, <3>2, <4>1, AppendOther
                 DEF FramesInOrder
    <3> QED BY <3>1, <3>2
  <2>9. FramesInOrder(c)'
    BY <1>3, <1>4, <1>6, <1>7, <2>3, <2>7, <2>8 DEF FramesInOrder
  <2> QED BY <1>1, <2>4, <2>5, <2>9 DEF ConnInv
<1> QED BY <1>8, <1>9 DEF ConnWrite

(* Broadcast writes the next event to a connection that takes events. *)
LEMMA LoopWriteFrames ==
  ASSUME HubInv, LoopWrite
  PROVE  \A d \in Conns : ConnInv(d)'
<1>1. PICK c \in Conns : /\ c = target /\ c \in clients /\ c \in todo
                         /\ c \in CanSend /\ pc[c] # "adding"
  BY ConnsAssumption
     DEF HubInv, RegistryInv, TypeOK, BroadcastState, RecipientsRegistered,
         RegistryExact, Served, LoopWrite
<1>2. ASSUME NEW d \in Conns, d # c PROVE ConnInv(d)'
  BY <1>1, <1>2, ConnUntouched
     DEF HubInv, RegistryInv, TypeOK, LoopWrite, Push, frameVars
<1>3. UNCHANGED <<pc, job, link, taken, answered, seen>>
  BY DEF LoopWrite
<1>4. /\ sock[c] \in Seq(Frame) /\ taken[c] \in Nat /\ answered[c] \in Nat
      /\ seen[c] \in Nat /\ sent[c] \in Nat /\ event \in Nat
      /\ Replied(c) \in Int
  BY <1>1 DEF HubInv, RegistryInv, TypeOK, Replied
<1>5. FramesInOrder(c) /\ SocketState(c) /\ JobOfRole(c) /\ FramesOfRole(c)
  BY <1>1 DEF HubInv, ConnInv
<1>6. Replied(c)' = Replied(c)
  BY <1>3 DEF Replied
<1>7. CASE WriteFails(c) /\ werr' = [werr EXCEPT ![c] = TRUE] /\ UNCHANGED <<sock, sent>>
  <2>1. werr'[c]
    BY <1>1, <1>7 DEF HubInv, RegistryInv, TypeOK
  <2>2. SocketState(c)' /\ JobOfRole(c)' /\ FramesOfRole(c)'
    BY <1>3, <1>5, <1>7
       DEF SocketState, Between, NothingInFlight, JobOfRole, FramesOfRole
  <2>3. FramesInOrder(c)'
    BY <1>3, <1>5, <1>6, <1>7, <2>1 DEF FramesInOrder
  <2> QED BY <1>2, <2>2, <2>3 DEF ConnInv
<1>8. CASE WriteFits(c) /\ Push(c, "event", event)
           /\ sent' = [sent EXCEPT ![c] = event] /\ UNCHANGED werr
  <2> DEFINE f == [kind |-> "event", n |-> event]
  <2>1. f \in Frame /\ f.kind = "event" /\ f.n = event
    BY <1>4 DEF Frame
  <2>2. sock'[c] = Append(sock[c], f) /\ sent'[c] = event
    BY <1>1, <1>8 DEF HubInv, RegistryInv, TypeOK, Push
  <2>3. link[c] \in {"up", "fin"} /\ ~werr[c]
    BY <1>1, <1>8 DEF HubInv, RegistryInv, TypeOK, WriteFits, WriteFails
  <2>4. sent[c] + 1 = event
    BY <1>1, <2>3 DEF HubInv, RegistryInv, Delivered
  <2> HIDE DEF f
  <2>5. SocketState(c)' /\ JobOfRole(c)'
    BY <1>1, <1>3, <1>5, <2>3 DEF SocketState, Between, JobOfRole
  <2>6. FramesOfRole(c)'
    <3>1. \A i \in 1..Len(sock'[c]) :
            \/ i \in 1..Len(sock[c]) /\ sock'[c][i] = sock[c][i]
            \/ sock'[c][i] = f
      BY <1>4, <2>1, <2>2
    <3> QED BY <1>1, <1>5, <2>1, <3>1 DEF FramesOfRole
  <2>7. /\ seen[c] <= sent[c]
        /\ Numbered(sock[c], {"event"}, seen[c], sent[c])
        /\ Complete(sock[c], {"event"}, seen[c], sent[c])
        /\ Numbered(sock[c], Replies, answered[c], Replied(c))
        /\ c \in CanReceive => Complete(sock[c], Replies, answered[c], Replied(c))
        /\ answered[c] <= Replied(c)
    BY <1>1, <1>5, <2>3 DEF FramesInOrder
  <2>8. /\ Numbered(sock'[c], {"event"}, seen[c], event)
        /\ Complete(sock'[c], {"event"}, seen[c], event)
    <3>1. f.kind \in {"event"} /\ f.n = sent[c] + 1
      BY <2>1, <2>4
    <3>2. seen[c] \in Int /\ sent[c] \in Int
      BY <1>4
    <3>3. /\ Numbered(sock'[c], {"event"}, seen[c], sent[c] + 1)
          /\ Complete(sock'[c], {"event"}, seen[c], sent[c] + 1)
      BY <1>4, <2>1, <2>2, <2>7, <3>1, <3>2, AppendNext
    <3> QED BY <2>4, <3>3
  <2>9. /\ Numbered(sock'[c], Replies, answered[c], Replied(c))
        /\ c \in CanReceive => Complete(sock'[c], Replies, answered[c], Replied(c))
    <3>1. f.kind \notin Replies
      BY <2>1 DEF Replies
    <3>2. answered[c] \in Int
      BY <1>4
    <3>3. /\ Numbered(Append(sock[c], f), Replies, answered[c], Replied(c))
          /\ Complete(sock[c], Replies, answered[c], Replied(c)) =>
               Complete(Append(sock[c], f), Replies, answered[c], Replied(c))
      BY <1>4, <2>1, <2>7, <3>1, <3>2, AppendOther
    <3> QED BY <2>2, <2>7, <3>3
  <2>10. seen[c] <= event
    BY <1>4, <2>4, <2>7
  <2>11. FramesInOrder(c)'
    BY <1>3, <1>6, <2>2, <2>7, <2>8, <2>9, <2>10 DEF FramesInOrder
  <2> QED BY <1>2, <2>5, <2>6, <2>11 DEF ConnInv
<1> QED BY <1>1, <1>7, <1>8 DEF LoopWrite

(* What a peer finds first: the next event, the next reply, or neither. *)
LEMMA FirstFrame ==
  ASSUME HubInv, NEW c \in Conns, sock[c] # <<>>
  PROVE  /\ sock[c] \in Seq(Frame) /\ Head(sock[c]) \in Frame
         /\ Head(sock[c]).kind = "event" =>
              Head(sock[c]).n = seen[c] + 1 /\ Head(sock[c]).n <= sent[c]
         /\ Head(sock[c]).kind \in Replies =>
              Head(sock[c]).n = answered[c] + 1 /\ Head(sock[c]).n <= Replied(c)
<1>1. /\ sock[c] \in Seq(Frame) /\ seen[c] \in Int /\ sent[c] \in Int
      /\ answered[c] \in Int /\ Replied(c) \in Int
  BY DEF HubInv, RegistryInv, TypeOK, Replied
<1>2. Head(sock[c]) \in Frame
  BY <1>1
<1>3. /\ Numbered(sock[c], {"event"}, seen[c], sent[c])
      /\ Numbered(sock[c], Replies, answered[c], Replied(c))
  BY DEF HubInv, ConnInv, FramesInOrder
<1>4. ASSUME Head(sock[c]).kind = "event"
      PROVE  Head(sock[c]).n = seen[c] + 1 /\ Head(sock[c]).n <= sent[c]
  <2>1. Head(sock[c]).kind \in {"event"}
    BY <1>4
  <2> QED BY <1>1, <1>3, <2>1, TailNext
<1>5. ASSUME Head(sock[c]).kind \in Replies
      PROVE  Head(sock[c]).n = answered[c] + 1 /\ Head(sock[c]).n <= Replied(c)
  BY <1>1, <1>3, <1>5, TailNext
<1> QED BY <1>1, <1>2, <1>4, <1>5

(* The peer reads: the rest of what it was sent is still in order. *)
LEMMA PeerReadsFrames ==
  ASSUME HubInv, NEW c \in Conns, PeerReads(c)
  PROVE  \A d \in Conns : ConnInv(d)'
<1>1. ASSUME NEW d \in Conns, d # c PROVE ConnInv(d)'
  BY <1>1, ConnUntouched
     DEF HubInv, RegistryInv, TypeOK, PeerReads, connVars, frameVars
<1> DEFINE s == sock[c]
           f == Head(s)
<1>2. UNCHANGED <<pc, job, link, werr, taken, sent>> /\ s # <<>>
  BY DEF PeerReads, connVars
<1>3. /\ s \in Seq(Frame) /\ seen[c] \in Int /\ sent[c] \in Int
      /\ answered[c] \in Int /\ Replied(c) \in Int /\ Replied(c)' = Replied(c)
  BY <1>2 DEF HubInv, RegistryInv, TypeOK, Replied
<1>4. sock'[c] = Tail(s)
  BY DEF HubInv, RegistryInv, TypeOK, PeerReads
<1>5. /\ seen'[c] = IF f.kind = "event" THEN f.n ELSE seen[c]
      /\ answered'[c] = IF f.kind \in Replies THEN f.n ELSE answered[c]
  BY DEF HubInv, RegistryInv, TypeOK, PeerReads
<1>6. FramesInOrder(c) /\ SocketState(c) /\ JobOfRole(c) /\ FramesOfRole(c)
  BY DEF HubInv, ConnInv
<1>7. link[c] \in {"up", "fin"} /\ pc[c] # "adding"
  BY <1>2, <1>6 DEF HubInv, RegistryInv, TypeOK, SocketState, NothingInFlight
<1>8. SocketState(c)' /\ JobOfRole(c)'
  BY <1>2, <1>6, <1>7 DEF SocketState, Between, JobOfRole
<1>9. FramesOfRole(c)'
  <2>1. \A i \in 1..Len(Tail(s)) : i + 1 \in 1..Len(s) /\ Tail(s)[i] = s[i + 1]
    BY <1>2, <1>3, TailFrames
  <2> QED BY <1>4, <1>6, <2>1 DEF FramesOfRole
<1>10. /\ seen[c] <= sent[c] /\ answered[c] <= Replied(c)
       /\ Numbered(s, {"event"}, seen[c], sent[c])
       /\ Complete(s, {"event"}, seen[c], sent[c])
       /\ Numbered(s, Replies, answered[c], Replied(c))
       /\ ~werr[c] /\ c \in CanReceive => Complete(s, Replies, answered[c], Replied(c))
  BY <1>6, <1>7 DEF FramesInOrder
<1>11. /\ f.kind = "event" => f.n = seen[c] + 1 /\ f.n <= sent[c]
       /\ f.kind \in Replies => f.n = answered[c] + 1 /\ f.n <= Replied(c)
  BY <1>2, FirstFrame
<1> HIDE DEF s, f
<1>12. /\ Numbered(Tail(s), {"event"}, seen'[c], sent[c])
       /\ Complete(Tail(s), {"event"}, seen'[c], sent[c])
       /\ seen'[c] <= sent[c]
  <2>1. CASE f.kind = "event"
    <3>1. f.kind \in {"event"}
      BY <2>1
    <3> QED BY <1>2, <1>3, <1>5, <1>10, <1>11, <2>1, <3>1, TailNext DEF f
  <2>2. CASE f.kind # "event"
    <3>1. f.kind \notin {"event"}
      BY <2>2
    <3> QED BY <1>2, <1>3, <1>5, <1>10, <2>2, <3>1, TailOther DEF f
  <2> QED BY <2>1, <2>2
<1>13. /\ Numbered(Tail(s), Replies, answered'[c], Replied(c))
       /\ ~werr[c] /\ c \in CanReceive =>
            Complete(Tail(s), Replies, answered'[c], Replied(c))
       /\ answered'[c] <= Replied(c)
  <2>1. CASE f.kind \in Replies
    BY <1>2, <1>3, <1>5, <1>10, <1>11, <2>1, TailNext DEF f
  <2>2. CASE f.kind \notin Replies
    BY <1>2, <1>3, <1>5, <1>10, <2>2, TailOther DEF f
  <2> QED BY <2>1, <2>2
<1>14. FramesInOrder(c)'
  BY <1>2, <1>3, <1>4, <1>12, <1>13 DEF FramesInOrder
<1> QED BY <1>1, <1>8, <1>9, <1>14 DEF ConnInv

-----------------------------------------------------------------------------
(* Each step of a connection's goroutine keeps the frames in order. *)
LEMMA ConnStepFrames ==
  ASSUME HubInv, RegistryInv', NEW c \in Conns, ConnStep(c)
  PROVE  \A d \in Conns : ConnInv(d)'
<1>1. CASE AddClient(c)
  BY <1>1, AddClientFrames
<1>2. CASE ConnLock(c)
  BY <1>2, PlaceFrames
     DEF HubInv, RegistryInv, TypeOK, ConnLock, Goto, PcStates, Between, sessionVars
<1>3. CASE ConnWrite(c)
  BY <1>3, ConnWriteFrames
<1>4. CASE ReadRequest(c)
  BY <1>4, ReadRequestFrames
<1>5. CASE ReadError(c)
  BY <1>5, ReadErrorFrames
<1>6. CASE Close(c)
  <2>1. \A d \in Conns : IF d \in {c} THEN link'[d] \in {"reset", "closed"}
                                      ELSE UNCHANGED <<pc[d], link[d], werr[d]>>
    BY <1>6 DEF HubInv, RegistryInv, TypeOK, Close, Goto
  <2>2. link'[c] = "closed" /\ job[c] = "none"
    BY <1>6 DEF HubInv, RegistryInv, TypeOK, ConnInv, JobOfRole, Close
  <2> QED BY <1>6, <2>1, <2>2, LostFrames DEF Close
<1>7. CASE RemoveClient(c)
  <2>1. PICK p \in {"closing", "idle"} :
          pc' = [pc EXCEPT ![c] = p] /\ (p = "idle" <=> c \notin Reverse)
    BY <1>7 DEF RemoveClient, Goto
  <2>2. c \notin Reverse => link[c] = "closed"
    BY <1>7 DEF HubInv, ConnInv, SocketState, Between, RemoveClient
  <2>3. job[c] = "none" /\ pc[c] = "removing"
    BY <1>7 DEF HubInv, ConnInv, JobOfRole, RemoveClient
  <2>4. p \in PcStates \ {"adding"} /\ (Between(c)' => link[c] = "closed")
    BY <2>1, <2>2 DEF HubInv, RegistryInv, TypeOK, PcStates, Between
  <2> QED BY <1>7, <2>1, <2>3, <2>4, PlaceFrames DEF RemoveClient, sessionVars
<1>8. CASE Wake(c)
  <2>1. link[c] = "closed" /\ job[c] = "none" /\ pc[c] = "sleeping"
    BY <1>8 DEF HubInv, ConnInv, SocketState, Between, JobOfRole, Wake
  <2> QED BY <1>8, <2>1, PlaceFrames DEF Wake, Goto, PcStates, sessionVars
<1>9. CASE ReverseStops(c)
  <2>1. link[c] = "closed" /\ job[c] = "none" /\ pc[c] # "adding"
    BY <1>9 DEF HubInv, ConnInv, SocketState, Between, JobOfRole, ReverseStops
  <2> QED BY <1>9, <2>1, PlaceFrames DEF ReverseStops, Goto, PcStates, sessionVars
<1> QED BY <1>1, <1>2, <1>3, <1>4, <1>5, <1>6, <1>7, <1>8, <1>9 DEF ConnStep

(* So does each step of the goroutine that broadcasts. *)
LEMMA LoopStepFrames ==
  ASSUME HubInv, RegistryInv', LoopStep
  PROVE  \A d \in Conns : ConnInv(d)'
<1>1. CASE RangeClients \/ LoopLock \/ BroadcastReturns
           \/ \E c \in Conns : NextRecipient(c)
  BY <1>1, ConnUntouched
     DEF HubInv, RangeClients, LoopLock, BroadcastReturns, NextRecipient,
         connVars, sessionVars, frameVars
<1>2. CASE LoopWrite
  BY <1>2, LoopWriteFrames
<1>3. CASE Exit
  BY <1>3, LostFrames DEF Exit
<1> QED BY <1>1, <1>2, <1>3 DEF LoopStep

(* And each step of a peer, of a handler that accepts or of a dial. *)
LEMMA PeerStepFrames ==
  ASSUME HubInv, RegistryInv', NEW c \in Conns,
         \/ Accept(c) \/ DialSucceeds(c) \/ DialFails(c)
         \/ PeerSends(c) \/ PeerReads(c) \/ PeerHangsUp(c) \/ PeerResets(c)
  PROVE  \A d \in Conns : ConnInv(d)'
<1>1. CASE Accept(c) \/ DialSucceeds(c)
  BY <1>1, OpenSessionFrames DEF Accept, DialSucceeds, Between
<1>2. CASE DialFails(c)
  <2>1. link[c] = "closed" /\ job[c] = "none" /\ pc[c] = "dialing"
    BY <1>2 DEF HubInv, ConnInv, SocketState, Between, JobOfRole, DialFails
  <2> QED BY <1>2, <2>1, PlaceFrames DEF DialFails, Goto, PcStates, sessionVars
<1>3. CASE PeerSends(c)
  BY <1>3, ConnUntouched DEF HubInv, PeerSends, connVars, frameVars
<1>4. CASE PeerReads(c)
  BY <1>4, PeerReadsFrames
<1>5. CASE PeerHangsUp(c)
  <2>1. ASSUME NEW d \in Conns, d # c PROVE ConnInv(d)'
    BY <1>5, <2>1, ConnUntouched
       DEF HubInv, RegistryInv, TypeOK, PeerHangsUp, connVars, frameVars
  <2>2. /\ UNCHANGED <<pc, job, werr, sock, taken, answered, seen, sent>>
        /\ link[c] = "up" /\ link'[c] = "fin"
    BY <1>5 DEF HubInv, RegistryInv, TypeOK, PeerHangsUp, connVars
  <2>3. ConnInv(c)'
    BY <2>2 DEF HubInv, ConnInv, SocketState, Between, NothingInFlight, JobOfRole,
                FramesOfRole, FramesInOrder, Replied
  <2> QED BY <2>1, <2>3
<1>6. CASE PeerResets(c)
  <2>1. \A d \in Conns : IF d \in {c} THEN link'[d] \in {"reset", "closed"}
                                      ELSE UNCHANGED <<pc[d], link[d], werr[d]>>
    BY <1>6 DEF HubInv, RegistryInv, TypeOK, PeerResets, connVars
  <2>2. ~Between(c)' /\ (job[c] # "none" => pc'[c] \in {"lock", "write", "dead"})
    BY <1>6 DEF HubInv, ConnInv, SocketState, Between, JobOfRole, PeerResets, connVars
  <2> QED BY <1>6, <2>1, <2>2, LostFrames DEF PeerResets, connVars
<1> QED BY <1>1, <1>2, <1>3, <1>4, <1>5, <1>6

(* Every step keeps the invariant. *)
LEMMA NextFrames == HubInv /\ [Next]_vars => HubInv'
<1> SUFFICES ASSUME HubInv, [Next]_vars PROVE HubInv'
  OBVIOUS
<1>1. RegistryInv'
  BY NextInv DEF HubInv
<1>2. CASE \E c \in Conns : ConnStep(c)
  BY <1>1, <1>2, ConnStepFrames DEF HubInv
<1>3. CASE LoopStep
  BY <1>1, <1>3, LoopStepFrames DEF HubInv
<1>4. CASE BroadcastCall \/ Cancel \/ UNCHANGED vars
  BY <1>1, <1>4, ConnUntouched
     DEF HubInv, BroadcastCall, Cancel, connVars, sessionVars, vars, frameVars
<1>5. CASE \E c \in Conns :
             \/ Accept(c) \/ DialSucceeds(c) \/ DialFails(c)
             \/ PeerSends(c) \/ PeerReads(c) \/ PeerHangsUp(c) \/ PeerResets(c)
  BY <1>1, <1>5, PeerStepFrames DEF HubInv
<1> QED BY <1>2, <1>3, <1>4, <1>5 DEF Next

(* The registry, what is written and what waits to be read agree, in every  *)
(* reachable state.                                                        *)
THEOREM HubInvariant == Spec => []HubInv
<1>1. Init => HubInv
  BY InitFrames
<1>2. HubInv /\ [Next]_vars => HubInv'
  BY NextFrames
<1> QED BY <1>1, <1>2, PTL DEF Spec

(* Broadcast and the handlers keep to canSend and canReceive: no event or   *)
(* lifecycle frame on an api connection, no reply on an event connection.  *)
THEOREM RolesAreKept == Spec => []RolesKept
<1>1. HubInv => RolesKept
  BY DEF HubInv, ConnInv, RolesKept
<1> QED BY <1>1, HubInvariant, PTL

(* What a peer reads next is the event after the last, or the events since  *)
(* it was registered anew.                                                 *)
LEMMA SeenStep ==
  ASSUME HubInv, [Next]_vars, NEW c \in Conns
  PROVE  \/ seen'[c] = seen[c]
         \/ seen'[c] = seen[c] + 1 /\ seen'[c] <= sent[c]
         \/ pc[c] = "adding" /\ seen'[c] = event
<1>1. ASSUME NEW d \in Conns, AddClient(d)
      PROVE  seen'[c] = seen[c] \/ (pc[c] = "adding" /\ seen'[c] = event)
  BY <1>1 DEF HubInv, RegistryInv, TypeOK, AddClient
<1>2. ASSUME NEW d \in Conns, PeerReads(d)
      PROVE  seen'[c] = seen[c] \/ (seen'[c] = seen[c] + 1 /\ seen'[c] <= sent[c])
  <2>1. CASE d = c
    BY <1>2, <2>1, FirstFrame DEF HubInv, RegistryInv, TypeOK, PeerReads
  <2>2. CASE d # c
    BY <1>2, <2>2 DEF HubInv, RegistryInv, TypeOK, PeerReads
  <2> QED BY <2>1, <2>2
<1>3. CASE ~\E d \in Conns : AddClient(d) \/ PeerReads(d)
  <2>1. UNCHANGED seen
    BY <1>3
       DEF Next, ConnStep, LoopStep, ConnLock, ConnWrite, ReadRequest, ReadError,
           Close, RemoveClient, Wake, ReverseStops, RangeClients, NextRecipient,
           LoopLock, LoopWrite, BroadcastReturns, Exit, BroadcastCall, Cancel,
           Accept, DialSucceeds, DialFails, OpenSession, PeerSends, PeerHangsUp,
           PeerResets, connVars, sessionVars, vars
  <2> QED BY <2>1
<1> QED BY <1>1, <1>2, <1>3

(* No event is lost or repeated on a connection, from its registration on.  *)
THEOREM NoEventSkipped == Spec => EventsGapFree
<1>1. HubInv /\ [Next]_vars =>
        [\A c \in Conns :
           \/ seen'[c] = seen[c]
           \/ seen'[c] = seen[c] + 1 /\ seen'[c] <= sent[c]
           \/ pc[c] = "adding" /\ seen'[c] = event]_vars
  BY SeenStep
<1> QED BY <1>1, HubInvariant, PTL DEF Spec, EventsGapFree

(* What a peer reads next is the reply after the last, unless the session   *)
(* is over.                                                                *)
LEMMA AnsweredStep ==
  ASSUME HubInv, [Next]_vars, NEW c \in Conns
  PROVE  \/ answered'[c] = answered[c]
         \/ answered'[c] = answered[c] + 1 /\ answered'[c] <= taken[c]
         \/ link'[c] # "up" /\ answered'[c] = 0
<1>1. ASSUME NEW d \in Conns, Close(d) \/ PeerResets(d)
      PROVE  answered'[c] = answered[c] \/ (link'[c] # "up" /\ answered'[c] = 0)
  BY <1>1 DEF HubInv, RegistryInv, TypeOK, Close, PeerResets, InFlightLost
<1>2. ASSUME Exit
      PROVE  link'[c] # "up" /\ answered'[c] = 0
  BY <1>2 DEF Exit, InFlightLost
<1>3. ASSUME NEW d \in Conns, PeerReads(d)
      PROVE  answered'[c] = answered[c]
             \/ (answered'[c] = answered[c] + 1 /\ answered'[c] <= taken[c])
  <2>1. CASE d = c
    <3>1. taken[c] \in Nat /\ answered \in [Conns -> Nat]
      BY DEF HubInv, RegistryInv, TypeOK
    <3>2. Replied(c) <= taken[c] /\ Replied(c) \in Int
      BY <3>1 DEF Replied
    <3>3. sock[c] # <<>>
      BY <1>3, <2>1 DEF PeerReads
    <3>4. answered'[c] = IF Head(sock[c]).kind \in Replies THEN Head(sock[c]).n
                                                          ELSE answered[c]
      BY <1>3, <2>1, <3>1 DEF PeerReads
    <3>5. Head(sock[c]).kind \in Replies =>
            Head(sock[c]).n = answered[c] + 1 /\ Head(sock[c]).n <= Replied(c)
      BY <3>3, FirstFrame
    <3> QED BY <3>1, <3>2, <3>4, <3>5
  <2>2. CASE d # c
    BY <1>3, <2>2 DEF HubInv, RegistryInv, TypeOK, PeerReads
  <2> QED BY <2>1, <2>2
<1>4. CASE ~Exit /\ ~\E d \in Conns : Close(d) \/ PeerResets(d) \/ PeerReads(d)
  <2>1. UNCHANGED answered
    BY <1>4
       DEF Next, ConnStep, LoopStep, AddClient, ConnLock, ConnWrite, ReadRequest,
           ReadError, RemoveClient, Wake, ReverseStops, RangeClients,
           NextRecipient, LoopLock, LoopWrite, BroadcastReturns, BroadcastCall,
           Cancel, Accept, DialSucceeds, DialFails, OpenSession, PeerSends,
           PeerHangsUp, connVars, sessionVars, vars
  <2> QED BY <2>1
<1> QED BY <1>1, <1>2, <1>3, <1>4

(* Replies come back in the order of the requests, one for each, whatever   *)
(* events and other writers do on the same connection.                     *)
THEOREM RepliesAreInOrder == Spec => RepliesInOrder
<1>1. HubInv /\ [Next]_vars =>
        [\A c \in Conns :
           \/ answered'[c] = answered[c]
           \/ answered'[c] = answered[c] + 1 /\ answered'[c] <= taken[c]
           \/ link'[c] # "up" /\ answered'[c] = 0]_vars
  BY AnsweredStep
<1> QED BY <1>1, HubInvariant, PTL DEF Spec, RepliesInOrder

=============================================================================
