---------------------------- MODULE Service_proofs ----------------------------
(***************************************************************************)
(* The safety of Service for any configuration files, any account, any     *)
(* number of nudges and any buffer. ServiceInv is inductive: it ties each  *)
(* variable to the place of main, and what bots are told to the identity   *)
(* that is settled before Server.Start. One lemma per action shows that    *)
(* the action keeps it; the theorems read the properties off it and show   *)
(* that the process has the life of Lifecycle.                             *)
(***************************************************************************)
EXTENDS Service, TLAPS

-----------------------------------------------------------------------------
(* Configuration. *)

(* Reverse clients have reverse roles. *)
LEMMA ReverseRolesKnown ==
  ASSUME NEW c
  PROVE  ReverseRoles(c) \subseteq Reverse
BY DEF ReverseRoles, Reverse

(* A string that is not blank is chosen, before the one after it. *)
LEMMA FirstChosen ==
  ASSUME NEW a, NEW b, ~IsBlank(a) \/ ~IsBlank(b)
  PROVE  ~IsBlank(FirstNonEmpty(a, b)) /\ FirstNonEmpty(a, b) # ""
BY DEF FirstNonEmpty, IsBlank

(* A reverse configuration that Validate accepts starts clients, both of a  *)
(* pair if there is an address for both.                                   *)
LEMMA ValidStarts ==
  ASSUME NEW c, Validate(c), c.reverse
  PROVE  IF c.use_universal_client THEN ReverseRoles(c) = {"Universal"}
         ELSE /\ ReverseRoles(c) # {}
              /\ ReverseRoles(c) = {"API", "Event"} \/ IsBlank(c.url)
<1>1. ~IsBlank(c.url) \/ ~IsBlank(c.api_url) \/ ~IsBlank(c.event_url)
  <2>1. \E url \in ReverseURLs(c) : ~IsBlank(url)
    BY DEF Validate
  <2> QED BY <2>1 DEF ReverseURLs
<1>2. CASE c.use_universal_client
  <2>1. FirstNonEmpty(c.url, FirstNonEmpty(c.api_url, c.event_url)) # ""
    BY <1>1, FirstChosen
  <2> QED BY <1>2, <2>1 DEF ReverseRoles
<1>3. CASE ~c.use_universal_client
  <2>1. CASE ~IsBlank(c.url)
    <3>1. FirstNonEmpty(c.api_url, c.url) # "" /\ FirstNonEmpty(c.event_url, c.url) # ""
      BY <2>1, FirstChosen
    <3> QED BY <1>3, <3>1 DEF ReverseRoles
  <2>2. CASE IsBlank(c.url)
    <3>1. \/ FirstNonEmpty(c.api_url, c.url) # ""
          \/ FirstNonEmpty(c.event_url, c.url) # ""
      BY <1>1, <2>2, FirstChosen
    <3> QED BY <1>3, <2>2, <3>1 DEF ReverseRoles
  <2> QED BY <2>1, <2>2
<1> QED BY <1>2, <1>3

-----------------------------------------------------------------------------
(* The identity that a loaded configuration settles is never 0. *)
LEMMA IdentityKnown ==
  ASSUME TypeOK, Loaded
  PROVE  /\ cfg.self_id \in Nat
         /\ Identity \in Nat \ {0}
         /\ cfg.self_id = 0 => Identity = UIN
BY FilesAssumption, AccountAssumption DEF TypeOK, Loaded, Identity

(* The initial states satisfy the invariant. *)
LEMMA InitInv == Init => ServiceInv
<1> SUFFICES ASSUME Init PROVE ServiceInv
  OBVIOUS
<1> USE DEF Init
<1>1. TypeOK
  <2>1. << >> \in Seq(Nudges) /\ Len(<< >>) = 0
    OBVIOUS
  <2>2. nudge \in [Nudges -> [state : NudgeStates, target : {0, UIN}, early : BOOLEAN]]
    BY DEF NudgeStates, NoNudge
  <2>3. conns \in [Roles -> {"off", "greeting", "on"}]
    OBVIOUS
  <2>4. cfg \in {Decoded(f) : f \in Files} \union {None}
    OBVIOUS
  <2>5. Len(events) <= Buffer /\ events \in Seq(Nudges)
    BY <2>1, AccountAssumption
  <2>6. /\ pc \in Starting
        /\ link \in {"none", "open", "lost", "closed"}
        /\ listener \in {"none", "starting", "listening", "failed", "shutdown", "closed"}
        /\ errCh \in {"empty", "error", "closed", "nil"}
    BY DEF Starting
  <2> QED BY <2>2, <2>3, <2>4, <2>5, <2>6 DEF TypeOK
<1>2. StartOrder /\ StatusExact /\ Quiet /\ ToldIdentity
  BY DEF StartOrder, StatusExact, Quiet, ToldIdentity, Begun, Starting, Serving, Stopping
<1>3. LinkExact /\ EndsForReason /\ NudgesRead
  BY DEF LinkExact, OpenedIsClosed, EndsForReason, NudgesRead, NoNudge, Alive, Starting,
         Serving, Stopping
<1> QED BY <1>1, <1>2, <1>3 DEF ServiceInv

(* Loading settles the configuration. *)
LEMMA LoadConfigInv ==
  ASSUME ServiceInv, LoadConfig
  PROVE  ServiceInv'
<1> USE DEF LoadConfig, Goto, Fails, startVars, runVars, serverVars, connVars, milkyVars
<1>1. TypeOK'
  BY DEF ServiceInv, TypeOK, Failures, Starting, Serving, Stopping
<1>2. StartOrder'
  BY DEF ServiceInv, StartOrder, Loaded, Begun, Identity, Starting, Serving, Stopping
<1>3. StatusExact' /\ Quiet' /\ ToldIdentity'
  BY DEF ServiceInv, StartOrder, StatusExact, Quiet, ToldIdentity, Begun, Identity,
         Starting, Serving, Stopping
<1>4. LinkExact' /\ EndsForReason' /\ NudgesRead'
  BY DEF ServiceInv, StartOrder, LinkExact, OpenedIsClosed, EndsForReason,
         NudgesRead, Alive, Begun, Starting, Serving, Stopping
<1> QED BY <1>1, <1>2, <1>3, <1>4 DEF ServiceInv

(* Before Open there is no link. *)
LEMMA NewSessionInv ==
  ASSUME ServiceInv, NewSession
  PROVE  ServiceInv'
<1> USE DEF NewSession, Goto, Fails, startVars, runVars, serverVars, connVars, milkyVars
<1>1. TypeOK'
  BY DEF ServiceInv, TypeOK, Failures, Starting, Serving, Stopping
<1>2. StartOrder'
  BY DEF ServiceInv, StartOrder, Loaded, Begun, Identity, Starting, Serving, Stopping
<1>3. StatusExact' /\ Quiet' /\ ToldIdentity'
  BY DEF ServiceInv, StartOrder, StatusExact, Quiet, ToldIdentity, Begun, Identity,
         Starting, Serving, Stopping
<1>4. LinkExact' /\ EndsForReason' /\ NudgesRead'
  BY DEF ServiceInv, StartOrder, LinkExact, OpenedIsClosed, EndsForReason,
         NudgesRead, Alive, Begun, Starting, Serving, Stopping
<1> QED BY <1>1, <1>2, <1>3, <1>4 DEF ServiceInv

(* Open makes the link. *)
LEMMA OpenInv ==
  ASSUME ServiceInv, Open
  PROVE  ServiceInv'
<1> USE DEF Open, Goto, Fails, startVars, runVars, serverVars, connVars, milkyVars
<1>1. TypeOK'
  BY DEF ServiceInv, TypeOK, Failures, Starting, Serving, Stopping
<1>2. StartOrder'
  BY DEF ServiceInv, StartOrder, Loaded, Begun, Identity, Starting, Serving, Stopping
<1>3. StatusExact' /\ Quiet' /\ ToldIdentity'
  BY DEF ServiceInv, StartOrder, StatusExact, Quiet, ToldIdentity, Begun, Identity,
         Starting, Serving, Stopping
<1>4. LinkExact' /\ EndsForReason' /\ NudgesRead'
  BY DEF ServiceInv, StartOrder, LinkExact, OpenedIsClosed, EndsForReason,
         NudgesRead, Alive, Begun, Starting, Serving, Stopping
<1> QED BY <1>1, <1>2, <1>3, <1>4 DEF ServiceInv

(* A Connect that fails closes the link. *)
LEMMA GetLoginInfoInv ==
  ASSUME ServiceInv, GetLoginInfo
  PROVE  ServiceInv'
<1> USE DEF GetLoginInfo, Goto, Fails, startVars, runVars, serverVars, connVars, milkyVars
<1>1. TypeOK'
  BY DEF ServiceInv, TypeOK, Failures, Starting, Serving, Stopping
<1>2. StartOrder'
  BY DEF ServiceInv, StartOrder, Loaded, Begun, Identity, Starting, Serving, Stopping
<1>3. StatusExact' /\ Quiet' /\ ToldIdentity'
  BY DEF ServiceInv, StartOrder, StatusExact, Quiet, ToldIdentity, Begun, Identity,
         Starting, Serving, Stopping
<1>4. LinkExact' /\ EndsForReason' /\ NudgesRead'
  BY DEF ServiceInv, StartOrder, LinkExact, OpenedIsClosed, EndsForReason,
         NudgesRead, Alive, Begun, Starting, Serving, Stopping
<1> QED BY <1>1, <1>2, <1>3, <1>4 DEF ServiceInv

(* The session and the login are stored together. *)
LEMMA StoreSessionInv ==
  ASSUME ServiceInv, StoreSession
  PROVE  ServiceInv'
<1> USE DEF StoreSession, Goto, Fails, startVars, runVars, serverVars, connVars, milkyVars
<1>1. TypeOK'
  BY DEF ServiceInv, TypeOK, Failures, Starting, Serving, Stopping
<1>2. StartOrder'
  BY DEF ServiceInv, StartOrder, Loaded, Begun, Identity, Starting, Serving, Stopping
<1>3. StatusExact' /\ Quiet' /\ ToldIdentity'
  BY DEF ServiceInv, StartOrder, StatusExact, Quiet, ToldIdentity, Begun, Identity,
         Starting, Serving, Stopping
<1>4. LinkExact' /\ EndsForReason' /\ NudgesRead'
  BY DEF ServiceInv, StartOrder, LinkExact, OpenedIsClosed, EndsForReason,
         NudgesRead, Alive, Begun, Starting, Serving, Stopping
<1> QED BY <1>1, <1>2, <1>3, <1>4 DEF ServiceInv

(* The upstream is connected from here on. *)
LEMMA SetConnectedInv ==
  ASSUME ServiceInv, SetConnected
  PROVE  ServiceInv'
<1> USE DEF SetConnected, Goto, Fails, startVars, runVars, serverVars, connVars, milkyVars
<1>1. TypeOK'
  BY DEF ServiceInv, TypeOK, Failures, Starting, Serving, Stopping
<1>2. StartOrder'
  BY DEF ServiceInv, StartOrder, Loaded, Begun, Identity, Starting, Serving, Stopping
<1>3. StatusExact' /\ Quiet' /\ ToldIdentity'
  BY DEF ServiceInv, StartOrder, StatusExact, Quiet, ToldIdentity, Begun, Identity,
         Starting, Serving, Stopping
<1>4. LinkExact' /\ EndsForReason' /\ NudgesRead'
  BY DEF ServiceInv, StartOrder, LinkExact, OpenedIsClosed, EndsForReason,
         NudgesRead, Alive, Begun, Starting, Serving, Stopping
<1> QED BY <1>1, <1>2, <1>3, <1>4 DEF ServiceInv

(* The identity is settled. *)
LEMMA SetLoginInv ==
  ASSUME ServiceInv, SetLogin
  PROVE  ServiceInv'
<1> USE DEF SetLogin, Goto, Fails, startVars, runVars, serverVars, connVars, milkyVars
<1>1. TypeOK'
  <2>1. cfg.self_id \in Nat /\ UIN \in Nat
    BY FilesAssumption, AccountAssumption DEF ServiceInv, TypeOK, StartOrder, Loaded
  <2>2. login \in Nat
    BY <2>1 DEF ServiceInv, StartOrder
  <2> QED BY <2>1, <2>2 DEF ServiceInv, TypeOK, Starting, Serving, Stopping
<1>2. StartOrder'
  BY DEF ServiceInv, StartOrder, Loaded, Begun, Identity, Starting, Serving, Stopping
<1>3. StatusExact' /\ Quiet' /\ ToldIdentity'
  BY DEF ServiceInv, StartOrder, StatusExact, Quiet, ToldIdentity, Begun, Identity,
         Starting, Serving, Stopping
<1>4. LinkExact' /\ EndsForReason' /\ NudgesRead'
  BY DEF ServiceInv, StartOrder, LinkExact, OpenedIsClosed, EndsForReason,
         NudgesRead, Alive, Begun, Starting, Serving, Stopping
<1> QED BY <1>1, <1>2, <1>3, <1>4 DEF ServiceInv

(* The server starts with the identity settled. *)
LEMMA StartListenerInv ==
  ASSUME ServiceInv, StartListener
  PROVE  ServiceInv'
<1> USE DEF StartListener, Goto, Fails, startVars, runVars, serverVars, connVars, milkyVars
<1>1. TypeOK'
  BY DEF ServiceInv, TypeOK, Failures, Starting, Serving, Stopping
<1>2. StartOrder'
  BY DEF ServiceInv, StartOrder, Loaded, Begun, Identity, Starting, Serving, Stopping
<1>3. StatusExact' /\ Quiet' /\ ToldIdentity'
  BY DEF ServiceInv, StartOrder, StatusExact, Quiet, ToldIdentity, Begun, Identity,
         Starting, Serving, Stopping
<1>4. LinkExact' /\ EndsForReason' /\ NudgesRead'
  BY DEF ServiceInv, StartOrder, LinkExact, OpenedIsClosed, EndsForReason,
         NudgesRead, Alive, Begun, Starting, Serving, Stopping
<1> QED BY <1>1, <1>2, <1>3, <1>4 DEF ServiceInv

(* The reverse clients are those of the configuration. *)
LEMMA StartReverseClientsInv ==
  ASSUME ServiceInv, StartReverseClients
  PROVE  ServiceInv'
<1> USE DEF StartReverseClients, Goto, Fails, startVars, runVars, serverVars, connVars, milkyVars
<1>1. TypeOK'
  BY ReverseRolesKnown DEF ServiceInv, TypeOK, Starting, Serving, Stopping
<1>2. StartOrder'
  BY DEF ServiceInv, StartOrder, Loaded, Begun, Identity, Starting, Serving, Stopping
<1>3. StatusExact' /\ Quiet' /\ ToldIdentity'
  BY DEF ServiceInv, StartOrder, StatusExact, Quiet, ToldIdentity, Begun, Identity,
         Starting, Serving, Stopping
<1>4. LinkExact' /\ EndsForReason' /\ NudgesRead'
  BY DEF ServiceInv, StartOrder, LinkExact, OpenedIsClosed, EndsForReason,
         NudgesRead, Alive, Begun, Starting, Serving, Stopping
<1> QED BY <1>1, <1>2, <1>3, <1>4 DEF ServiceInv

(* The listener changes nothing else. *)
LEMMA ListenInv ==
  ASSUME ServiceInv, Listen
  PROVE  ServiceInv'
<1> USE DEF Listen, Goto, Fails, startVars, runVars, serverVars, connVars, milkyVars
<1>1. TypeOK'
  BY DEF ServiceInv, TypeOK, Failures, Starting, Serving, Stopping
<1>2. StartOrder'
  BY DEF ServiceInv, StartOrder, Loaded, Begun, Identity, Starting, Serving, Stopping
<1>3. StatusExact' /\ Quiet' /\ ToldIdentity'
  BY DEF ServiceInv, StartOrder, StatusExact, Quiet, ToldIdentity, Begun, Identity,
         Starting, Serving, Stopping
<1>4. LinkExact' /\ EndsForReason' /\ NudgesRead'
  BY DEF ServiceInv, StartOrder, LinkExact, OpenedIsClosed, EndsForReason,
         NudgesRead, Alive, Begun, Starting, Serving, Stopping
<1> QED BY <1>1, <1>2, <1>3, <1>4 DEF ServiceInv

(* Nor does its failure. *)
LEMMA ListenFailsInv ==
  ASSUME ServiceInv, ListenFails
  PROVE  ServiceInv'
<1> USE DEF ListenFails, Goto, Fails, startVars, runVars, serverVars, connVars, milkyVars
<1>1. TypeOK'
  BY DEF ServiceInv, TypeOK, Failures, Starting, Serving, Stopping
<1>2. StartOrder'
  BY DEF ServiceInv, StartOrder, Loaded, Begun, Identity, Starting, Serving, Stopping
<1>3. StatusExact' /\ Quiet' /\ ToldIdentity'
  BY DEF ServiceInv, StartOrder, StatusExact, Quiet, ToldIdentity, Begun, Identity,
         Starting, Serving, Stopping
<1>4. LinkExact' /\ EndsForReason' /\ NudgesRead'
  BY DEF ServiceInv, StartOrder, LinkExact, OpenedIsClosed, EndsForReason,
         NudgesRead, Alive, Begun, Starting, Serving, Stopping
<1> QED BY <1>1, <1>2, <1>3, <1>4 DEF ServiceInv

(* Nor its shutdown. *)
LEMMA ShutdownInv ==
  ASSUME ServiceInv, Shutdown
  PROVE  ServiceInv'
<1> USE DEF Shutdown, Goto, Fails, startVars, runVars, serverVars, connVars, milkyVars
<1>1. TypeOK'
  BY DEF ServiceInv, TypeOK, Failures, Starting, Serving, Stopping
<1>2. StartOrder'
  BY DEF ServiceInv, StartOrder, Loaded, Begun, Identity, Starting, Serving, Stopping
<1>3. StatusExact' /\ Quiet' /\ ToldIdentity'
  BY DEF ServiceInv, StartOrder, StatusExact, Quiet, ToldIdentity, Begun, Identity,
         Starting, Serving, Stopping
<1>4. LinkExact' /\ EndsForReason' /\ NudgesRead'
  BY DEF ServiceInv, StartOrder, LinkExact, OpenedIsClosed, EndsForReason,
         NudgesRead, Alive, Begun, Starting, Serving, Stopping
<1> QED BY <1>1, <1>2, <1>3, <1>4 DEF ServiceInv

(* Nor its end. *)
LEMMA ListenReturnsInv ==
  ASSUME ServiceInv, ListenReturns
  PROVE  ServiceInv'
<1> USE DEF ListenReturns, Goto, Fails, startVars, runVars, serverVars, connVars, milkyVars
<1>1. TypeOK'
  BY DEF ServiceInv, TypeOK, Failures, Starting, Serving, Stopping
<1>2. StartOrder'
  BY DEF ServiceInv, StartOrder, Loaded, Begun, Identity, Starting, Serving, Stopping
<1>3. StatusExact' /\ Quiet' /\ ToldIdentity'
  BY DEF ServiceInv, StartOrder, StatusExact, Quiet, ToldIdentity, Begun, Identity,
         Starting, Serving, Stopping
<1>4. LinkExact' /\ EndsForReason' /\ NudgesRead'
  BY DEF ServiceInv, StartOrder, LinkExact, OpenedIsClosed, EndsForReason,
         NudgesRead, Alive, Begun, Starting, Serving, Stopping
<1> QED BY <1>1, <1>2, <1>3, <1>4 DEF ServiceInv

(* Run ends because it was asked to. *)
LEMMA TakeDoneInv ==
  ASSUME ServiceInv, TakeDone
  PROVE  ServiceInv'
<1> USE DEF TakeDone, Goto, Fails, startVars, runVars, serverVars, connVars, milkyVars
<1>1. TypeOK'
  BY DEF ServiceInv, TypeOK, Failures, Starting, Serving, Stopping
<1>2. StartOrder'
  BY DEF ServiceInv, StartOrder, Loaded, Begun, Identity, Starting, Serving, Stopping
<1>3. StatusExact' /\ Quiet' /\ ToldIdentity'
  BY DEF ServiceInv, StartOrder, StatusExact, Quiet, ToldIdentity, Begun, Identity,
         Starting, Serving, Stopping
<1>4. LinkExact' /\ EndsForReason' /\ NudgesRead'
  BY DEF ServiceInv, StartOrder, LinkExact, OpenedIsClosed, EndsForReason,
         NudgesRead, Alive, Begun, Starting, Serving, Stopping
<1> QED BY <1>1, <1>2, <1>3, <1>4 DEF ServiceInv

(* Run ends because the listener failed. *)
LEMMA TakeErrorInv ==
  ASSUME ServiceInv, TakeError
  PROVE  ServiceInv'
<1> USE DEF TakeError, Goto, Fails, startVars, runVars, serverVars, connVars, milkyVars
<1>1. TypeOK'
  BY DEF ServiceInv, TypeOK, Failures, Starting, Serving, Stopping
<1>2. StartOrder'
  BY DEF ServiceInv, StartOrder, Loaded, Begun, Identity, Starting, Serving, Stopping
<1>3. StatusExact' /\ Quiet' /\ ToldIdentity'
  BY DEF ServiceInv, StartOrder, StatusExact, Quiet, ToldIdentity, Begun, Identity,
         Starting, Serving, Stopping
<1>4. LinkExact' /\ EndsForReason' /\ NudgesRead'
  BY AccountAssumption DEF Failures, ServiceInv, StartOrder, LinkExact, OpenedIsClosed, EndsForReason,
         NudgesRead, Alive, Begun, Starting, Serving, Stopping
<1> QED BY <1>1, <1>2, <1>3, <1>4 DEF ServiceInv

(* The end of the listener is not the end of Run. *)
LEMMA TakeClosedInv ==
  ASSUME ServiceInv, TakeClosed
  PROVE  ServiceInv'
<1> USE DEF TakeClosed, Goto, Fails, startVars, runVars, serverVars, connVars, milkyVars
<1>1. TypeOK'
  BY DEF ServiceInv, TypeOK, Failures, Starting, Serving, Stopping
<1>2. StartOrder'
  BY DEF ServiceInv, StartOrder, Loaded, Begun, Identity, Starting, Serving, Stopping
<1>3. StatusExact' /\ Quiet' /\ ToldIdentity'
  BY DEF ServiceInv, StartOrder, StatusExact, Quiet, ToldIdentity, Begun, Identity,
         Starting, Serving, Stopping
<1>4. LinkExact' /\ EndsForReason' /\ NudgesRead'
  BY DEF ServiceInv, StartOrder, LinkExact, OpenedIsClosed, EndsForReason,
         NudgesRead, Alive, Begun, Starting, Serving, Stopping
<1> QED BY <1>1, <1>2, <1>3, <1>4 DEF ServiceInv

(* The link is closed, for there is a session. *)
LEMMA CloseUpstreamInv ==
  ASSUME ServiceInv, CloseUpstream
  PROVE  ServiceInv'
<1> USE DEF CloseUpstream, Goto, Fails, startVars, runVars, serverVars, connVars, milkyVars
<1>1. TypeOK'
  BY DEF ServiceInv, TypeOK, Failures, Starting, Serving, Stopping
<1>2. StartOrder'
  BY DEF ServiceInv, StartOrder, Loaded, Begun, Identity, Starting, Serving, Stopping
<1>3. StatusExact' /\ Quiet' /\ ToldIdentity'
  BY DEF ServiceInv, StartOrder, StatusExact, Quiet, ToldIdentity, Begun, Identity,
         Starting, Serving, Stopping
<1>4. LinkExact' /\ EndsForReason' /\ NudgesRead'
  BY DEF ServiceInv, StartOrder, LinkExact, OpenedIsClosed, EndsForReason,
         NudgesRead, Alive, Begun, Starting, Serving, Stopping
<1> QED BY <1>1, <1>2, <1>3, <1>4 DEF ServiceInv

(* The upstream is connected up to here. *)
LEMMA SetDisconnectedInv ==
  ASSUME ServiceInv, SetDisconnected
  PROVE  ServiceInv'
<1> USE DEF SetDisconnected, Goto, Fails, startVars, runVars, serverVars, connVars, milkyVars
<1>1. TypeOK'
  <2>1. pc' \in Stopping /\ connected' \in BOOLEAN
    BY DEF Stopping
  <2> QED BY <2>1 DEF ServiceInv, TypeOK
<1>2. StartOrder'
  BY DEF ServiceInv, StartOrder, Loaded, Begun, Identity, Starting, Serving, Stopping
<1>3. StatusExact' /\ Quiet' /\ ToldIdentity'
  BY DEF ServiceInv, StartOrder, StatusExact, Quiet, ToldIdentity, Begun, Identity,
         Starting, Serving, Stopping
<1>4. LinkExact' /\ EndsForReason' /\ NudgesRead'
  BY DEF ServiceInv, StartOrder, LinkExact, OpenedIsClosed, EndsForReason,
         NudgesRead, Alive, Begun, Starting, Serving, Stopping
<1> QED BY <1>1, <1>2, <1>3, <1>4 DEF ServiceInv

(* The exit code says why the process ends. *)
LEMMA ExitInv ==
  ASSUME ServiceInv, Exit
  PROVE  ServiceInv'
<1> USE DEF Exit, Goto, Fails, startVars, runVars, serverVars, connVars, milkyVars
<1>1. TypeOK'
  BY DEF ServiceInv, TypeOK, Failures, Starting, Serving, Stopping
<1>2. StartOrder'
  BY DEF ServiceInv, StartOrder, Loaded, Begun, Identity, Starting, Serving, Stopping
<1>3. StatusExact' /\ Quiet' /\ ToldIdentity'
  BY DEF ServiceInv, StartOrder, StatusExact, Quiet, ToldIdentity, Begun, Identity,
         Starting, Serving, Stopping
<1>4. LinkExact' /\ EndsForReason' /\ NudgesRead'
  BY AccountAssumption DEF Failures, ServiceInv, StartOrder, LinkExact, OpenedIsClosed, EndsForReason,
         NudgesRead, Alive, Begun, Starting, Serving, Stopping
<1> QED BY <1>1, <1>2, <1>3, <1>4 DEF ServiceInv

(* A signal only asks. *)
LEMMA SignalInv ==
  ASSUME ServiceInv, Signal
  PROVE  ServiceInv'
<1> USE DEF Signal, Goto, Fails, startVars, runVars, serverVars, connVars, milkyVars
<1>1. TypeOK'
  BY DEF ServiceInv, TypeOK, Failures, Starting, Serving, Stopping
<1>2. StartOrder'
  BY DEF ServiceInv, StartOrder, Loaded, Begun, Identity, Starting, Serving, Stopping
<1>3. StatusExact' /\ Quiet' /\ ToldIdentity'
  BY DEF ServiceInv, StartOrder, StatusExact, Quiet, ToldIdentity, Begun, Identity,
         Starting, Serving, Stopping
<1>4. LinkExact' /\ EndsForReason' /\ NudgesRead'
  BY DEF ServiceInv, StartOrder, LinkExact, OpenedIsClosed, EndsForReason,
         NudgesRead, Alive, Begun, Starting, Serving, Stopping
<1> QED BY <1>1, <1>2, <1>3, <1>4 DEF ServiceInv

(* A link that is lost was open. *)
LEMMA LoseLinkInv ==
  ASSUME ServiceInv, LoseLink
  PROVE  ServiceInv'
<1> USE DEF LoseLink, Goto, Fails, startVars, runVars, serverVars, connVars, milkyVars
<1>1. TypeOK'
  BY DEF ServiceInv, TypeOK, Failures, Starting, Serving, Stopping
<1>2. StartOrder'
  BY DEF ServiceInv, StartOrder, Loaded, Begun, Identity, Starting, Serving, Stopping
<1>3. StatusExact' /\ Quiet' /\ ToldIdentity'
  BY DEF ServiceInv, StartOrder, StatusExact, Quiet, ToldIdentity, Begun, Identity,
         Starting, Serving, Stopping
<1>4. LinkExact' /\ EndsForReason' /\ NudgesRead'
  BY DEF ServiceInv, StartOrder, LinkExact, OpenedIsClosed, EndsForReason,
         NudgesRead, Alive, Begun, Starting, Serving, Stopping
<1> QED BY <1>1, <1>2, <1>3, <1>4 DEF ServiceInv

-----------------------------------------------------------------------------
(* What bots are told and what nudges say. *)

(* Since Server.Start the process has one name, and it is not 0. *)
LEMMA OneName ==
  ASSUME ServiceInv, Begun
  PROVE  self = Identity /\ SelfID = Identity /\ Identity \in Nat \ {0}
<1>1. Loaded /\ self = Identity
  BY DEF ServiceInv, StartOrder
<1> QED BY <1>1, IdentityKnown DEF ServiceInv, SelfID

(* A broadcast tells that name at most. *)
LEMMA BroadcastNamesIt ==
  ASSUME ServiceInv, Begun, Broadcast
  PROVE  told' \subseteq {Identity} /\ told' \subseteq Nat
BY OneName DEF ServiceInv, ToldIdentity, Broadcast

(* Whoever has a connection, or is in the loop, is past Server.Start. *)
LEMMA BegunIfUsed ==
  ASSUME ServiceInv,
         \/ pc \in Serving
         \/ listener = "listening"
         \/ reverse # {}
         \/ \E c \in Roles : conns[c] # "off"
  PROVE  Begun
BY DEF ServiceInv, StartOrder, Quiet, Begun

(* A step after Server.Start that only tells the name, moves connections,   *)
(* moves nudges and enters or leaves Broadcast keeps the invariant.        *)
LEMMA TellingKeeps ==
  ASSUME ServiceInv, Begun,
         conns' \in [Roles -> {"off", "greeting", "on"}],
         writing' \subseteq CanSend,
         told' \subseteq {Identity},
         events' \in Seq(Nudges), Len(events') <= Buffer,
         nudge' \in [Nudges -> [state : NudgeStates, target : {0, UIN}, early : BOOLEAN]],
         NudgesRead',
         pc' = pc \/ {pc, pc'} \subseteq {"select", "broadcast"},
         UNCHANGED <<startVars, failure, code, done, link, connected, serverVars>>
  PROVE  ServiceInv'
<1> USE DEF startVars, serverVars
<1>1. TypeOK'
  <2>1. told' \subseteq Nat
    BY OneName
  <2>2. pc' \in Starting \union Serving \union Stopping \union {"exited"}
    BY DEF ServiceInv, TypeOK, Serving
  <2> QED BY <2>1, <2>2 DEF ServiceInv, TypeOK
<1>2. CASE pc' = pc
  <2>1. StartOrder' /\ StatusExact' /\ LinkExact' /\ EndsForReason'
    BY <1>2 DEF ServiceInv, StartOrder, Loaded, Identity, Begun, StatusExact, LinkExact,
           OpenedIsClosed, EndsForReason, Alive
  <2> QED BY <1>1, <2>1 DEF ServiceInv, Quiet, ToldIdentity, Begun, Identity
<1>3. CASE {pc, pc'} \subseteq {"select", "broadcast"}
  <2>1. StartOrder' /\ StatusExact'
    BY <1>3 DEF ServiceInv, StartOrder, Loaded, Identity, Begun, StatusExact, Starting,
           Serving, Stopping
  <2>2. LinkExact' /\ EndsForReason'
    BY <1>3 DEF ServiceInv, LinkExact, OpenedIsClosed, EndsForReason, Alive, Starting,
           Serving, Stopping
  <2> QED BY <1>1, <2>1, <2>2 DEF ServiceInv, Quiet, ToldIdentity, Begun, Identity
<1> QED BY <1>2, <1>3

(* The types of the queue, the nudges and the connections. *)
LEMMA QueueTypes ==
  ASSUME ServiceInv
  PROVE  /\ conns \in [Roles -> {"off", "greeting", "on"}]
         /\ writing \subseteq CanSend
         /\ events \in Seq(Nudges) /\ Len(events) <= Buffer
         /\ nudge \in [Nudges -> [state : NudgeStates, target : {0, UIN}, early : BOOLEAN]]
BY DEF ServiceInv, TypeOK

(* A nudge that moves on to a record that says what was read. *)
LEMMA NudgeMoves ==
  ASSUME ServiceInv, NEW n \in Nudges,
         NEW r \in [state : NudgeStates, target : {0, UIN}, early : BOOLEAN],
         r.state # "none" /\ ~r.early => r.target = UIN,
         nudge' = [nudge EXCEPT ![n] = r]
  PROVE  /\ nudge' \in [Nudges -> [state : NudgeStates, target : {0, UIN}, early : BOOLEAN]]
         /\ NudgesRead'
<1>1. nudge \in [Nudges -> [state : NudgeStates, target : {0, UIN}, early : BOOLEAN]]
  BY QueueTypes
<1>2. nudge' \in [Nudges -> [state : NudgeStates, target : {0, UIN}, early : BOOLEAN]]
  BY <1>1
<1>3. nudge'[n] = r /\ \A m \in Nudges : m # n => nudge'[m] = nudge[m]
  BY <1>1
<1>4. \A m \in Nudges : nudge'[m].state # "none" /\ ~nudge'[m].early => nudge'[m].target = UIN
  BY <1>3 DEF ServiceInv, NudgesRead
<1> QED BY <1>2, <1>4 DEF NudgesRead

(* A nudge that is over says nothing. *)
LEMMA NudgeForgotten ==
  ASSUME ServiceInv, NEW n \in Nudges, nudge' = [nudge EXCEPT ![n] = NoNudge]
  PROVE  /\ nudge' \in [Nudges -> [state : NudgeStates, target : {0, UIN}, early : BOOLEAN]]
         /\ NudgesRead'
<1>1. /\ NoNudge \in [state : NudgeStates, target : {0, UIN}, early : BOOLEAN]
      /\ NoNudge.state = "none"
  BY DEF NoNudge, NudgeStates
<1> QED BY <1>1, NudgeMoves

(* The loop takes an event and tells the name. *)
LEMMA TakeEventInv ==
  ASSUME ServiceInv, TakeEvent
  PROVE  ServiceInv'
<1>1. events \in Seq(Nudges) /\ Len(events) <= Buffer /\ events # << >> /\ events' = Tail(events)
  BY QueueTypes DEF TakeEvent
<1>2. Head(events) \in Nudges /\ events' \in Seq(Nudges) /\ Len(events') <= Buffer
  <2>1. Len(events') = Len(events) - 1 /\ Len(events) \in Nat
    BY <1>1
  <2> QED BY <1>1, <2>1, AccountAssumption
<1>3. /\ nudge' \in [Nudges -> [state : NudgeStates, target : {0, UIN}, early : BOOLEAN]]
      /\ NudgesRead'
  BY <1>2, NudgeForgotten DEF TakeEvent
<1>4. Begun
  BY BegunIfUsed DEF TakeEvent, Serving
<1>5. told' \subseteq {Identity} /\ writing' \subseteq CanSend
  BY <1>4, BroadcastNamesIt DEF TakeEvent, Broadcast
<1>6. {pc, pc'} \subseteq {"select", "broadcast"} /\ UNCHANGED <<failure, code, conns>>
  BY DEF TakeEvent, Broadcast, Goto
<1> QED BY <1>2, <1>3, <1>4, <1>5, <1>6, TellingKeeps, QueueTypes DEF TakeEvent

(* A heartbeat. *)
LEMMA TakeTickInv ==
  ASSUME ServiceInv, TakeTick
  PROVE  ServiceInv'
<1>1. Begun
  BY BegunIfUsed DEF TakeTick, Serving
<1>2. told' \subseteq {Identity} /\ writing' \subseteq CanSend
  BY <1>1, BroadcastNamesIt DEF TakeTick, Broadcast
<1>3. NudgesRead'
  BY DEF TakeTick, milkyVars, ServiceInv, NudgesRead
<1>4. {pc, pc'} \subseteq {"select", "broadcast"} /\ UNCHANGED <<failure, code, conns>>
  BY DEF TakeTick, Broadcast, Goto
<1> QED BY <1>1, <1>2, <1>3, <1>4, TellingKeeps, QueueTypes DEF TakeTick, milkyVars

(* Broadcast goes on to the next connection. *)
LEMMA BroadcastWritesInv ==
  ASSUME ServiceInv, NEW c \in CanSend, BroadcastWrites(c)
  PROVE  ServiceInv'
<1>1. Begun
  BY BegunIfUsed DEF BroadcastWrites, Serving
<1>2. writing' \subseteq CanSend
  BY QueueTypes DEF BroadcastWrites
<1>3. told' \subseteq {Identity} /\ NudgesRead'
  BY <1>1 DEF BroadcastWrites, milkyVars, ServiceInv, NudgesRead, ToldIdentity
<1> QED
  BY <1>1, <1>2, <1>3, TellingKeeps, QueueTypes DEF BroadcastWrites, runVars, milkyVars

(* Broadcast returns to the loop. *)
LEMMA BroadcastReturnsInv ==
  ASSUME ServiceInv, BroadcastReturns
  PROVE  ServiceInv'
<1>1. Begun
  BY BegunIfUsed DEF BroadcastReturns, Serving
<1>2. told' \subseteq {Identity} /\ NudgesRead'
  BY <1>1 DEF BroadcastReturns, milkyVars, ServiceInv, NudgesRead, ToldIdentity
<1>3. {pc, pc'} \subseteq {"select", "broadcast"} /\ UNCHANGED <<failure, code>>
  BY DEF BroadcastReturns, Goto
<1> QED
  BY <1>1, <1>2, <1>3, TellingKeeps, QueueTypes DEF BroadcastReturns, connVars, milkyVars

(* A step that only moves nudges keeps the invariant, also before the start. *)
LEMMA QuietlyKeeps ==
  ASSUME ServiceInv,
         events' \in Seq(Nudges), Len(events') <= Buffer,
         nudge' \in [Nudges -> [state : NudgeStates, target : {0, UIN}, early : BOOLEAN]],
         NudgesRead',
         UNCHANGED <<startVars, runVars, done, link, connected, serverVars, connVars, told>>
  PROVE  ServiceInv'
<1> USE DEF startVars, runVars, serverVars, connVars
<1>1. TypeOK'
  BY DEF ServiceInv, TypeOK
<1>2. StartOrder' /\ StatusExact' /\ LinkExact' /\ EndsForReason'
  BY DEF ServiceInv, StartOrder, Loaded, Identity, Begun, StatusExact, LinkExact,
         OpenedIsClosed, EndsForReason, Alive
<1>3. Quiet' /\ ToldIdentity'
  BY DEF ServiceInv, Quiet, ToldIdentity, Begun, Identity
<1> QED BY <1>1, <1>2, <1>3 DEF ServiceInv

(* The handler of a nudge runs once Open has made the link: it reads 0 only  *)
(* while Connect has not stored the login.                                 *)
LEMMA NudgeReadsInv ==
  ASSUME ServiceInv, NEW n \in Nudges, NudgeReads(n)
  PROVE  ServiceInv'
<1> DEFINE r == [state |-> "read", target |-> login, early |-> pc \in Starting]
<1>1. r \in [state : NudgeStates, target : {0, UIN}, early : BOOLEAN]
  BY DEF ServiceInv, TypeOK, NudgeStates
<1>2. ~r.early => r.target = UIN
  BY DEF NudgeReads, Alive, ServiceInv, TypeOK, StartOrder
<1>3. nudge' = [nudge EXCEPT ![n] = r] /\ events' = events
  BY DEF NudgeReads
<1>4. /\ nudge' \in [Nudges -> [state : NudgeStates, target : {0, UIN}, early : BOOLEAN]]
      /\ NudgesRead'
  <2> HIDE DEF r
  <2> QED BY <1>1, <1>2, <1>3, NudgeMoves
<1> QED BY <1>3, <1>4, QuietlyKeeps, QueueTypes DEF NudgeReads

(* What a nudge has read is in the event, if the buffer has room for it. *)
LEMMA NudgeEmitsInv ==
  ASSUME ServiceInv, NEW n \in Nudges, NudgeEmits(n)
  PROVE  ServiceInv'
<1> DEFINE r == [nudge[n] EXCEPT !.state = "queued"]
<1>1. CASE Len(events) < Buffer /\ events' = Append(events, n)
            /\ nudge' = [nudge EXCEPT ![n].state = "queued"]
  <2>1. events' \in Seq(Nudges) /\ Len(events') <= Buffer
    <3>1. events' \in Seq(Nudges) /\ Len(events') = Len(events) + 1 /\ Len(events) \in Nat
      BY <1>1, QueueTypes
    <3> QED BY <1>1, <3>1, AccountAssumption
  <2>2. nudge[n] \in [state : NudgeStates, target : {0, UIN}, early : BOOLEAN]
    BY QueueTypes
  <2>3. /\ r \in [state : NudgeStates, target : {0, UIN}, early : BOOLEAN]
        /\ r.target = nudge[n].target /\ r.early = nudge[n].early
    BY <2>2 DEF NudgeStates
  <2>4. ~r.early => r.target = UIN
    BY <2>3 DEF NudgeEmits, ServiceInv, NudgesRead
  <2>5. nudge' = [nudge EXCEPT ![n] = r]
    BY <1>1
  <2>6. /\ nudge' \in [Nudges -> [state : NudgeStates, target : {0, UIN}, early : BOOLEAN]]
        /\ NudgesRead'
    <3> HIDE DEF r
    <3> QED BY <2>3, <2>4, <2>5, NudgeMoves
  <2> QED BY <2>1, <2>6, QuietlyKeeps DEF NudgeEmits
<1>2. CASE nudge' = [nudge EXCEPT ![n] = NoNudge] /\ UNCHANGED events
  BY <1>2, NudgeForgotten, QuietlyKeeps, QueueTypes DEF NudgeEmits
<1> QED BY <1>1, <1>2 DEF NudgeEmits

-----------------------------------------------------------------------------
(* Connections. A step of a connection leaves the nudges alone. *)
LEMMA ConnectionKeeps ==
  ASSUME ServiceInv, Begun, NEW c \in Roles, NEW s \in {"off", "greeting", "on"},
         conns' = [conns EXCEPT ![c] = s],
         writing' \subseteq writing,
         told' \subseteq {Identity},
         UNCHANGED <<startVars, runVars, done, link, connected, serverVars, milkyVars>>
  PROVE  ServiceInv'
<1>1. conns' \in [Roles -> {"off", "greeting", "on"}]
  BY QueueTypes
<1>2. NudgesRead'
  BY DEF milkyVars, ServiceInv, NudgesRead
<1>3. writing' \subseteq CanSend
  BY QueueTypes
<1> QED BY <1>1, <1>2, <1>3, TellingKeeps, QueueTypes DEF runVars, milkyVars

(* Handlers run only once the listener listens. *)
LEMMA AcceptInv ==
  ASSUME ServiceInv, NEW c \in Roles, Accept(c)
  PROVE  ServiceInv'
<1>1. Begun /\ told' \subseteq {Identity}
  BY BegunIfUsed DEF Accept, ServiceInv, ToldIdentity
<1> QED BY <1>1, ConnectionKeeps DEF Accept

(* Reverse clients run only once Start has started them. *)
LEMMA DialInv ==
  ASSUME ServiceInv, NEW c \in Roles, Dial(c)
  PROVE  ServiceInv'
<1>1. Begun
  BY BegunIfUsed DEF Dial
<1>2. told' \subseteq {Identity}
  BY <1>1, OneName DEF Dial, ServiceInv, ToldIdentity
<1> QED BY <1>1, <1>2, ConnectionKeeps DEF Dial

(* A greeting carries the name. *)
LEMMA GreetInv ==
  ASSUME ServiceInv, NEW c \in Roles, Greet(c)
  PROVE  ServiceInv'
<1>1. Begun
  BY BegunIfUsed DEF Greet
<1>2. told' \subseteq {Identity}
  BY <1>1, OneName DEF Greet, ServiceInv, ToldIdentity
<1> QED BY <1>1, <1>2, ConnectionKeeps DEF Greet

(* So does get_login_info. *)
LEMMA AskLoginInv ==
  ASSUME ServiceInv, NEW c \in Roles, AskLogin(c)
  PROVE  ServiceInv'
<1>1. Begun
  BY BegunIfUsed DEF AskLogin
<1>2. told' \subseteq {Identity}
  BY <1>1, OneName DEF AskLogin, ServiceInv, ToldIdentity
<1>3. NudgesRead'
  BY DEF AskLogin, milkyVars, ServiceInv, NudgesRead
<1> QED BY <1>1, <1>2, <1>3, TellingKeeps, QueueTypes DEF AskLogin, runVars, connVars, milkyVars

(* A connection that ends was open. *)
LEMMA LeaveInv ==
  ASSUME ServiceInv, NEW c \in Roles, Leave(c)
  PROVE  ServiceInv'
<1>1. Begun
  BY BegunIfUsed DEF Leave
<1>2. told' \subseteq {Identity}
  BY <1>1 DEF Leave, ServiceInv, ToldIdentity
<1> QED BY <1>1, <1>2, ConnectionKeeps DEF Leave

-----------------------------------------------------------------------------
(* A stutter. *)
LEMMA StutterInv ==
  ASSUME ServiceInv, UNCHANGED vars
  PROVE  ServiceInv'
<1>1. NudgesRead'
  BY DEF vars, ServiceInv, NudgesRead
<1>2. /\ events' \in Seq(Nudges) /\ Len(events') <= Buffer
      /\ nudge' \in [Nudges -> [state : NudgeStates, target : {0, UIN}, early : BOOLEAN]]
  BY QueueTypes DEF vars
<1>3. UNCHANGED <<startVars, runVars, done, link, connected, serverVars, connVars, told>>
  BY DEF vars, startVars, runVars, serverVars, connVars
<1> QED BY <1>1, <1>2, <1>3, QuietlyKeeps

(* Every step keeps the invariant. *)
LEMMA NextInv == ServiceInv /\ [Next]_vars => ServiceInv'
<1> SUFFICES ASSUME ServiceInv, [Next]_vars PROVE ServiceInv'
  OBVIOUS
<1>1. CASE Start
  BY <1>1, LoadConfigInv, NewSessionInv, OpenInv, GetLoginInfoInv, StoreSessionInv,
     SetConnectedInv, SetLoginInv, StartListenerInv, StartReverseClientsInv DEF Start
<1>2. CASE Select
  BY <1>2, TakeDoneInv, TakeErrorInv, TakeClosedInv, TakeEventInv, TakeTickInv,
     BroadcastWritesInv, BroadcastReturnsInv DEF Select
<1>3. CASE End
  BY <1>3, CloseUpstreamInv, SetDisconnectedInv, ExitInv DEF End
<1>4. CASE Listener
  BY <1>4, ListenInv, ListenFailsInv, ShutdownInv, ListenReturnsInv DEF Listener
<1>5. CASE Signal \/ LoseLink
  BY <1>5, SignalInv, LoseLinkInv
<1>6. ASSUME NEW n \in Nudges, NudgeReads(n) \/ NudgeEmits(n) PROVE ServiceInv'
  BY <1>6, NudgeReadsInv, NudgeEmitsInv
<1>7. ASSUME NEW c \in Roles, Connection(c) PROVE ServiceInv'
  BY <1>7, AcceptInv, DialInv, GreetInv, AskLoginInv, LeaveInv DEF Connection
<1>8. CASE UNCHANGED vars
  BY <1>8, StutterInv
<1> QED BY <1>1, <1>2, <1>3, <1>4, <1>5, <1>6, <1>7, <1>8 DEF Next

(* At every moment each variable is what the place of main says it is. *)
THEOREM ServiceInvariant == Spec => []ServiceInv
BY InitInv, NextInv, PTL DEF Spec

(* The variables have their types; the event buffer never holds more than   *)
(* its capacity, for any capacity.                                         *)
THEOREM ServiceTypes == Spec => []TypeOK
<1>1. ServiceInv => TypeOK
  BY DEF ServiceInv
<1> QED BY <1>1, ServiceInvariant, PTL

(* Whatever the configuration and whatever is told before the loop runs or  *)
(* while the process ends, bots only ever see one self_id.                 *)
THEOREM OneIdentity == Spec => []IdentityConsistent
<1>1. ServiceInv => IdentityConsistent
  BY DEF ServiceInv, IdentityConsistent, Quiet, ToldIdentity
<1> QED BY <1>1, ServiceInvariant, PTL

(* No bot is served without a session and a settled identity. *)
THEOREM ReadyBeforeServing == Spec => []ServedWhenReady
<1>1. ASSUME ServiceInv PROVE ServedWhenReady
  <2> SUFFICES ASSUME NEW c \in Roles, conns[c] # "off"
               PROVE  /\ session
                      /\ pc \in Starting \union Serving => connected /\ self # 0
    BY DEF ServedWhenReady
  <2>1. Begun /\ self # 0
    BY <1>1, BegunIfUsed, OneName
  <2>2. session /\ pc \notin Starting
    BY <1>1, <2>1 DEF ServiceInv, StartOrder
  <2>3. pc \in Serving => connected
    BY <1>1 DEF ServiceInv, StatusExact
  <2> QED BY <2>1, <2>2, <2>3
<1> QED BY <1>1, ServiceInvariant, PTL

(* The status is good only of a session that Run has not closed. *)
THEOREM StatusFollowsRun == Spec => []OnlineUnlessEnding
<1>1. ServiceInv => OnlineUnlessEnding
  BY DEF ServiceInv, OnlineUnlessEnding, StatusExact, LinkExact, Starting, Serving
<1> QED BY <1>1, ServiceInvariant, PTL

(* A nudge of the bot names it once Start has returned. *)
THEOREM NudgeNamesBot == Spec => []SelfNudgeRecognised
<1>1. ServiceInv => SelfNudgeRecognised
  BY DEF ServiceInv, SelfNudgeRecognised, NudgesRead, Identity
<1> QED BY <1>1, ServiceInvariant, PTL

(* However the start fails or Run ends, short of a panic of the SDK, an     *)
(* opened session is closed.                                               *)
THEOREM SessionClosed == Spec => []OpenedIsClosed
<1>1. ServiceInv => OpenedIsClosed
  BY DEF ServiceInv, LinkExact
<1> QED BY <1>1, ServiceInvariant, PTL

(* No configuration that Load accepts is reverse and starts no client. *)
THEOREM ReverseHasClient == Spec => []ReverseStarted
<1>1. ASSUME ServiceInv PROVE ReverseStarted
  <2> SUFFICES ASSUME pc \in {"select", "broadcast"}, cfg.reverse
               PROVE  IF cfg.use_universal_client THEN reverse = {"Universal"}
                      ELSE /\ reverse # {}
                           /\ reverse = {"API", "Event"} \/ IsBlank(cfg.url)
    BY DEF ReverseStarted
  <2>1. reverse = ReverseRoles(cfg) /\ Validate(cfg)
    BY <1>1 DEF ServiceInv, StartOrder, Loaded, Loads
  <2> QED BY <2>1, ValidStarts
<1> QED BY <1>1, ServiceInvariant, PTL

-----------------------------------------------------------------------------
(* The life of the process. Outside the steps below, nothing Lifecycle sees *)
(* changes.                                                                *)

(* The phases exclude each other. *)
LEMMA PhaseOfPlace ==
  ASSUME TypeOK
  PROVE  /\ pc \in Starting => Phase = "starting"
         /\ pc \in Serving => Phase = "serving"
         /\ pc \in Stopping => Phase = "stopping"
         /\ pc = "exited" => Phase = "stopped"
BY DEF TypeOK, Phase, Starting, Serving, Stopping

(* Nor do those after a step. *)
LEMMA NextPhase ==
  ASSUME TypeOK'
  PROVE  /\ pc' \in Starting => Phase' = "starting"
         /\ pc' \in Serving => Phase' = "serving"
         /\ pc' \in Stopping => Phase' = "stopping"
         /\ pc' = "exited" => Phase' = "stopped"
BY DEF TypeOK, Phase, Starting, Serving, Stopping

(* A step within a phase, which neither asks, starts the server, tells nor   *)
(* exits, is a stutter.                                                    *)
LEMMA StepWithin ==
  ASSUME ServiceInv, ServiceInv',
         \/ pc \in Starting /\ pc' \in Starting
         \/ pc \in Serving /\ pc' \in Serving
         \/ pc \in Stopping /\ pc' \in Stopping
         \/ pc' = pc,
         listener = "none" <=> listener' = "none",
         cfg' = cfg \/ listener = "none",
         UNCHANGED <<done, told, code>>
  PROVE  UNCHANGED Life!lifeVars
<1>1. Phase' = Phase
  <2>1. CASE pc' = pc
    BY <2>1 DEF Phase
  <2>2. CASE pc' # pc
    BY <2>2, PhaseOfPlace, NextPhase DEF ServiceInv
  <2> QED BY <2>1, <2>2
<1>2. ServedAs' = ServedAs
  BY DEF ServedAs, Identity
<1> QED BY <1>1, <1>2 DEF Life!lifeVars

(* What the start does before Server.Start is seen only when it fails. *)
LEMMA StartLives ==
  ASSUME ServiceInv, ServiceInv', Start
  PROVE  Life!Next \/ UNCHANGED Life!lifeVars
<1> USE DEF Goto, startVars, runVars, serverVars, connVars, milkyVars
<1>1. CASE pc' \in Starting
  <2>1. pc \in Starting /\ UNCHANGED <<done, told, code, listener>> /\ (cfg' = cfg \/ pc = "load")
    BY <1>1 DEF Start, LoadConfig, NewSession, Open, GetLoginInfo, StoreSession,
       SetConnected, SetLogin, StartListener, StartReverseClients, Fails, Starting
  <2>2. listener = "none"
    BY <2>1 DEF ServiceInv, StartOrder, Begun
  <2> QED BY <1>1, <2>1, <2>2, StepWithin
<1>2. CASE pc' = "exited"
  <2>1. /\ pc \in Starting /\ code' = 1
        /\ UNCHANGED <<done, told, listener>> /\ (cfg' = cfg \/ pc = "load")
    BY <1>2 DEF Start, LoadConfig, NewSession, Open, GetLoginInfo, StoreSession,
       SetConnected, SetLogin, StartListener, StartReverseClients, Fails, Starting
  <2>2. listener = "none"
    BY <2>1 DEF ServiceInv, StartOrder, Begun
  <2>3. ServedAs' = ServedAs
    BY <2>1, <2>2 DEF ServedAs, Identity
  <2>4. Phase = "starting" /\ Phase' = "stopped"
    BY <1>2, <2>1, PhaseOfPlace, NextPhase DEF ServiceInv
  <2> QED BY <2>1, <2>3, <2>4 DEF Life!Next, Life!Fail
<1>3. CASE StartListener
  <2>1. /\ pc = "listen" /\ pc' = "reverse" /\ listener' = "starting"
        /\ UNCHANGED <<cfg, done, told, code>>
    BY <1>3 DEF StartListener
  <2>2. Phase = "starting" /\ Phase' = "serving"
    BY <2>1, PhaseOfPlace, NextPhase DEF ServiceInv, Starting, Serving
  <2>3. ServedAs' # None
    <3>1. Identity \in Nat \ {0}
      BY <2>1, IdentityKnown DEF ServiceInv, StartOrder
    <3>2. Identity' = Identity
      BY <2>1 DEF Identity
    <3> QED BY <2>1, <3>1, <3>2, AccountAssumption DEF ServedAs
  <2> QED BY <2>1, <2>2, <2>3 DEF Life!Next, Life!Begin
<1>4. CASE StartReverseClients
  <2>1. /\ pc \in Serving /\ pc' \in Serving
        /\ UNCHANGED <<cfg, done, told, code, listener>>
    BY <1>4 DEF StartReverseClients, Serving
  <2> QED BY <2>1, StepWithin
<1> QED
  BY <1>1, <1>2, <1>3, <1>4 DEF Start, LoadConfig, NewSession, Open, GetLoginInfo,
     StoreSession, SetConnected, SetLogin, Fails, Starting

(* A step at which bots may be told the name, and nothing else that is seen. *)
LEMMA StepTells ==
  ASSUME ServiceInv, ServiceInv', Begun,
         told' = told \/ told' = told \union {Identity},
         UNCHANGED <<cfg, done, code, listener>>,
         pc' = pc \/ {pc, pc'} \subseteq Serving,
         pc # "exited"
  PROVE  Life!Next \/ UNCHANGED Life!lifeVars
<1>1. Phase' = Phase /\ ServedAs' = ServedAs /\ ServedAs = Identity
  <2>1. Phase' = Phase
    <3>1. CASE pc' = pc
      BY <3>1 DEF Phase
    <3>2. CASE {pc, pc'} \subseteq Serving
      BY <3>2, PhaseOfPlace, NextPhase DEF ServiceInv
    <3> QED BY <3>1, <3>2
  <2> QED BY <2>1 DEF ServedAs, Identity, Begun
<1>2. Phase \in {"serving", "stopping"}
  BY PhaseOfPlace DEF ServiceInv, StartOrder, TypeOK
<1> QED BY <1>1, <1>2 DEF Life!Next, Life!Tell, Life!lifeVars

(* The loop stops for a reason; a broadcast tells the name. *)
LEMMA SelectLives ==
  ASSUME ServiceInv, ServiceInv', Select
  PROVE  Life!Next \/ UNCHANGED Life!lifeVars
<1> USE DEF Goto, startVars, runVars, serverVars, connVars, milkyVars
<1>1. CASE TakeDone \/ TakeError
  <2>1. /\ pc = "select" /\ pc' = "close"
        /\ UNCHANGED <<cfg, done, told, code, listener>>
    BY <1>1 DEF TakeDone, TakeError
  <2>2. Phase = "serving" /\ Phase' = "stopping"
    BY <2>1, PhaseOfPlace, NextPhase DEF ServiceInv, Serving, Stopping
  <2>3. ServedAs' = ServedAs
    BY <2>1 DEF ServedAs, Identity
  <2> QED BY <2>1, <2>2, <2>3 DEF Life!Next, Life!Stop
<1>2. CASE TakeClosed \/ BroadcastReturns \/ \E c \in CanSend : BroadcastWrites(c)
  <2>1. /\ pc' = pc \/ {pc, pc'} \subseteq Serving
        /\ UNCHANGED <<cfg, done, told, code, listener>>
    BY <1>2 DEF TakeClosed, BroadcastReturns, BroadcastWrites, Serving
  <2> QED BY <2>1, StepWithin
<1>3. CASE TakeEvent \/ TakeTick
  <2>1. /\ pc = "select" /\ pc' = "broadcast" /\ Broadcast
        /\ UNCHANGED <<cfg, done, code, listener>>
    BY <1>3 DEF TakeEvent, TakeTick, Broadcast
  <2>2. Begun /\ SelfID = Identity
    BY <2>1, BegunIfUsed, OneName DEF Serving
  <2> QED BY <2>1, <2>2, StepTells DEF Broadcast, Serving
<1> QED BY <1>1, <1>2, <1>3 DEF Select

(* The process ends with 0 only if it was asked to. *)
LEMMA EndLives ==
  ASSUME ServiceInv, ServiceInv', End
  PROVE  Life!Next \/ UNCHANGED Life!lifeVars
<1> USE DEF Goto, startVars, runVars, serverVars, connVars, milkyVars
<1>1. CASE CloseUpstream \/ SetDisconnected
  <2>1. /\ pc \in Stopping /\ pc' \in Stopping
        /\ UNCHANGED <<cfg, done, told, code, listener>>
    BY <1>1 DEF CloseUpstream, SetDisconnected, Stopping
  <2> QED BY <2>1, StepWithin
<1>2. CASE Exit
  <2>1. /\ pc = "return" /\ pc' = "exited"
        /\ code' = IF failure = None THEN 0 ELSE 1
        /\ UNCHANGED <<cfg, done, told, listener>>
    BY <1>2 DEF Exit
  <2>2. failure = None => done = TRUE
    BY <2>1 DEF ServiceInv, EndsForReason, TypeOK, Stopping
  <2>3. Phase = "stopping" /\ Phase' = "stopped"
    BY <2>1, PhaseOfPlace, NextPhase DEF ServiceInv, Stopping
  <2>4. ServedAs' = ServedAs
    BY <2>1 DEF ServedAs, Identity
  <2>5. code' \in IF done THEN {0, 1} ELSE {1}
    BY <2>1, <2>2
  <2> QED BY <2>1, <2>3, <2>4, <2>5 DEF Life!Next, Life!End
<1> QED BY <1>1, <1>2 DEF End

(* Connections tell the name, or nothing. *)
LEMMA ConnectionLives ==
  ASSUME ServiceInv, ServiceInv', NEW c \in Roles, Connection(c)
  PROVE  Life!Next \/ UNCHANGED Life!lifeVars
<1>1. Begun
  BY BegunIfUsed DEF Connection, Accept, Dial, Greet, AskLogin, Leave
<1>2. /\ told' = told \/ told' = told \union {Identity}
      /\ UNCHANGED <<cfg, pc, done, code, listener>>
      /\ pc # "exited"
  BY <1>1, OneName DEF Connection, Accept, Dial, Greet, AskLogin, Leave, Alive,
     startVars, runVars, serverVars, connVars, milkyVars
<1> QED BY <1>1, <1>2, StepTells

(* Every step of the process is one of Lifecycle, or a stutter. *)
LEMMA StepLives ==
  ServiceInv /\ ServiceInv' /\ [Next]_vars => [Life!Next]_(Life!lifeVars)
<1> SUFFICES ASSUME ServiceInv, ServiceInv', [Next]_vars
             PROVE  Life!Next \/ UNCHANGED Life!lifeVars
  OBVIOUS
<1> USE DEF startVars, runVars, serverVars, connVars, milkyVars
<1>1. CASE Start
  BY <1>1, StartLives
<1>2. CASE Select
  BY <1>2, SelectLives
<1>3. CASE End
  BY <1>3, EndLives
<1>4. CASE Listener \/ LoseLink
  <2>1. /\ UNCHANGED <<cfg, pc, done, told, code>>
        /\ listener = "none" <=> listener' = "none"
    BY <1>4 DEF Listener, Listen, ListenFails, Shutdown, ListenReturns, LoseLink
  <2> QED BY <2>1, StepWithin
<1>5. CASE Signal
  <2>1. /\ pc # "exited" /\ done' = TRUE
        /\ UNCHANGED <<cfg, pc, told, code, listener>>
    BY <1>5 DEF Signal, Alive
  <2>2. Phase' = Phase /\ ServedAs' = ServedAs /\ Phase # "stopped"
    BY <2>1, PhaseOfPlace DEF Phase, ServedAs, Identity, ServiceInv, TypeOK
  <2> QED BY <2>1, <2>2 DEF Life!Next, Life!Ask
<1>6. ASSUME NEW n \in Nudges, NudgeReads(n) \/ NudgeEmits(n)
      PROVE  UNCHANGED Life!lifeVars
  <2>1. UNCHANGED <<cfg, pc, done, told, code, listener>>
    BY <1>6 DEF NudgeReads, NudgeEmits
  <2> QED BY <2>1, StepWithin
<1>7. ASSUME NEW c \in Roles, Connection(c)
      PROVE  Life!Next \/ UNCHANGED Life!lifeVars
  BY <1>7, ConnectionLives
<1>8. CASE UNCHANGED vars
  <2>1. UNCHANGED <<cfg, pc, done, told, code, listener>>
    BY <1>8 DEF vars
  <2> QED BY <2>1, StepWithin
<1> QED BY <1>1, <1>2, <1>3, <1>4, <1>5, <1>6, <1>7, <1>8 DEF Next

(* It begins as Lifecycle does. *)
LEMMA InitLives == Init => Life!Init
BY DEF Init, Life!Init, Phase, ServedAs, Starting, Serving, Stopping

(* The process has the life that Lifecycle promises: one identity, settled   *)
(* before bots are told anything, and success only if it was asked to end.  *)
THEOREM LivesAsPromised == Spec => LifecycleSpec
BY InitLives, StepLives, ServiceInvariant, PTL DEF Spec, LifecycleSpec, Life!Spec

=============================================================================
