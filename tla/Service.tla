------------------------------ MODULE Service ------------------------------
(***************************************************************************)
(* The life of the process: main, config.Load, Service.Run with            *)
(* Client.Connect before and the deferred calls after its select loop,     *)
(* Server.Start with the goroutines that listen and shut down, Runtime,    *)
(* and what bots, Milky and the user's signal do meanwhile.                *)
(*                                                                         *)
(* A connection is known by its role, a forward path or a reverse client;  *)
(* Run is inside Broadcast for as long as a peer takes to read what it is  *)
(* sent. OneBotServer opens both up, Bridge the translation of             *)
(* notifications. The one notification here is a nudge of the bot itself   *)
(* by a friend, the only one that reads state of the client.               *)
(***************************************************************************)
EXTENDS Config, Sequences

CONSTANTS
  Files,   \* contents of config.json
  UIN,     \* the account Milky is logged in to
  Nudges,  \* bound: the nudges being handled or queued at a time
  Buffer,  \* capacity of Client.events
  None

ASSUME FilesAssumption == \A f \in Files : Decoded(f).self_id \in Nat

Failures == {"config", "connect", "panic", "listen"}

ASSUME AccountAssumption ==
  /\ UIN \in Nat \ {0}
  /\ None \notin Nat \union Failures
  /\ Buffer \in Nat \ {0}

Forward == {"universal", "api", "event", "http"}
Reverse == {"Universal", "API", "Event"}
Roles == Forward \union Reverse

(* The connections that OnWSConnect greets and Broadcast sends to, and     *)
(* those that call HandleAPI.                                              *)
CanSend == {"universal", "event", "Universal", "Event"}
CanReceive == {"universal", "api", "http", "Universal", "API"}

VARIABLES
  file,       \* config.json
  cfg,        \* the loaded configuration, or None
  pc,         \* where main is, in Run and in Connect too
  failure,    \* the error Run returns, or None
  code,       \* the exit code
  done,       \* ctx is cancelled
  link,       \* the websocket of the SDK's session to Milky
  session,    \* is Client.session set?
  login,      \* Client.login.SelfID
  self,       \* Runtime.login.SelfID
  connected,  \* Runtime.upstreamConnected
  listener,   \* the goroutine that calls ListenAndServe
  errCh,      \* what it sent, "nil" after Run has set errCh to nil
  reverse,    \* the roles with a reverse client
  conns,      \* the state of the connection of each role
  writing,    \* the ones that Broadcast has not written to yet
  nudge,      \* how far each nudge has come
  events,     \* Client.events
  told        \* the self_ids bots were told

startVars == <<file, cfg, session, login, self>>
runVars == <<pc, failure, code>>
serverVars == <<listener, errCh, reverse>>
connVars == <<conns, writing>>
milkyVars == <<nudge, events>>
vars == <<file, cfg, pc, failure, code, done, link, session, login, self,
          connected, listener, errCh, reverse, conns, writing, nudge, events, told>>

Starting == {"load", "new", "open", "info", "store", "online", "login", "listen"}
Serving == {"reverse", "select", "broadcast"}
Stopping == {"close", "offline", "return"}

(* Service.selfID *)
SelfID == IF self # 0 THEN self ELSE cfg.self_id

Alive == pc # "exited"

NoNudge == [state |-> "none", target |-> 0, early |-> FALSE]

(* main gets an error from Load or Run and calls os.Exit(1). *)
Fails(reason) ==
  /\ pc' = "exited"
  /\ failure' = reason
  /\ code' = 1

Goto(place) ==
  /\ pc' = place
  /\ UNCHANGED <<failure, code>>

-----------------------------------------------------------------------------
(* Before the server: config.Load, and Client.Connect, which does not look  *)
(* at ctx. A panic of the SDK is recovered and becomes an error.           *)

LoadConfig ==
  /\ pc = "load"
  /\ \/ Loads(file) /\ cfg' = Decoded(file) /\ Goto("new")
     \/ ~Loads(file) /\ Fails("config") /\ UNCHANGED cfg
  /\ UNCHANGED <<file, session, login, self, done, link, connected,
                 serverVars, connVars, milkyVars, told>>

(* milky.New and registerHandlers *)
NewSession ==
  /\ pc = "new"
  /\ Goto("open") \/ Fails("connect")
  /\ UNCHANGED <<startVars, done, link, connected, serverVars, connVars, milkyVars, told>>

(* session.Open: from now on Milky pushes notifications. *)
Open ==
  /\ pc = "open"
  /\ \/ Goto("info") /\ link' = "open"
     \/ Fails("connect") /\ UNCHANGED link
     \/ Fails("panic") /\ link' \in {"none", "open"}
  /\ UNCHANGED <<startVars, done, connected, serverVars, connVars, milkyVars, told>>

(* Fault: the session is not closed when GetLoginInfo fails. *)
GetLoginInfoWithoutClose ==
  /\ pc = "info"
  /\ \/ Goto("store")
     \/ Fails("connect")
     \/ Fails("panic")
  /\ UNCHANGED link
  /\ UNCHANGED <<startVars, done, connected, serverVars, connVars, milkyVars, told>>

(* session.GetLoginInfo; an error closes the session, a panic does not. *)
GetLoginInfo ==
  /\ pc = "info"
  /\ \/ Goto("store") /\ UNCHANGED link
     \/ Fails("connect") /\ link' = "closed"
     \/ Fails("panic") /\ UNCHANGED link
  /\ UNCHANGED <<startVars, done, connected, serverVars, connVars, milkyVars, told>>

(* Fault: only the session is stored. *)
StoreSessionOnly ==
  /\ pc = "store"
  /\ session' = TRUE
  /\ Goto("online")
  /\ UNCHANGED <<file, cfg, login, self, done, link, connected, serverVars,
                 connVars, milkyVars, told>>

(* Connect stores the session and the login under Client.mu. *)
StoreSession ==
  /\ pc = "store"
  /\ session' = TRUE
  /\ login' = UIN
  /\ Goto("online")
  /\ UNCHANGED <<file, cfg, self, done, link, connected, serverVars, connVars,
                 milkyVars, told>>

(* Run, after Connect: SetUpstreamConnected(true) ... *)
SetConnected ==
  /\ pc = "online"
  /\ connected' = TRUE
  /\ Goto("login")
  /\ UNCHANGED <<startVars, done, link, serverVars, connVars, milkyVars, told>>

(* Fault: the configured self_id is not looked at here. *)
SetLoginOfMilky ==
  /\ pc = "login"
  /\ self' = login
  /\ Goto("listen")
  /\ UNCHANGED <<file, cfg, session, login, done, link, connected, serverVars,
                 connVars, milkyVars, told>>

(* ... and SetLogin, with the configured self_id if there is one. *)
SetLogin ==
  /\ pc = "login"
  /\ self' = IF cfg.self_id # 0 THEN cfg.self_id ELSE login
  /\ Goto("listen")
  /\ UNCHANGED <<file, cfg, session, login, done, link, connected, serverVars,
                 connVars, milkyVars, told>>

(* Server.Start starts the goroutine of the listener ... *)
StartListener ==
  /\ pc = "listen"
  /\ listener' = "starting"
  /\ Goto("reverse")
  /\ UNCHANGED <<startVars, done, link, connected, errCh, reverse, connVars,
                 milkyVars, told>>

(* ... and the reverse clients, and returns errCh. *)
StartReverseClients ==
  /\ pc = "reverse"
  /\ reverse' = ReverseRoles(cfg)
  /\ Goto("select")
  /\ UNCHANGED <<startVars, done, link, connected, listener, errCh, connVars,
                 milkyVars, told>>

-----------------------------------------------------------------------------
(* The goroutines of Server.Start. *)

(* ListenAndServe listens. *)
Listen ==
  /\ Alive
  /\ listener = "starting"
  /\ listener' = "listening"
  /\ UNCHANGED <<startVars, runVars, done, link, connected, errCh, reverse,
                 connVars, milkyVars, told>>

(* It fails, at the bind or later. *)
ListenFails ==
  /\ Alive
  /\ listener \in {"starting", "listening"}
  /\ listener' = "failed"
  /\ errCh' = "error"
  /\ UNCHANGED <<startVars, runVars, done, link, connected, reverse, connVars,
                 milkyVars, told>>

(* ctx is done: Server.Shutdown closes the listener, or prevents it. It     *)
(* does not close websockets, and nobody waits for the open HTTP requests. *)
Shutdown ==
  /\ Alive
  /\ done
  /\ listener \in {"starting", "listening"}
  /\ listener' = "shutdown"
  /\ UNCHANGED <<startVars, runVars, done, link, connected, errCh, reverse,
                 connVars, milkyVars, told>>

(* ListenAndServe returns ErrServerClosed. *)
ListenReturns ==
  /\ Alive
  /\ listener = "shutdown"
  /\ listener' = "closed"
  /\ errCh' = "closed"
  /\ UNCHANGED <<startVars, runVars, done, link, connected, reverse, connVars,
                 milkyVars, told>>

-----------------------------------------------------------------------------
(* The select loop of Run; of the cases that are ready select takes any.   *)

(* Broadcast has an event with the self_id to write, under Server.mu, to    *)
(* the connections that can send.                                          *)
Broadcast ==
  /\ writing' = {c \in CanSend : conns[c] # "off"}
  /\ told' = IF writing' # {} THEN told \union {SelfID} ELSE told
  /\ Goto("broadcast")

TakeDone ==
  /\ pc = "select"
  /\ done
  /\ Goto("close")
  /\ UNCHANGED <<startVars, done, link, connected, serverVars, connVars, milkyVars, told>>

(* Fault: an error is taken for the end of the listener. *)
TakeErrorAsClosed ==
  /\ pc = "select"
  /\ errCh = "error"
  /\ errCh' = "nil"
  /\ UNCHANGED <<startVars, runVars, done, link, connected, listener, reverse,
                 connVars, milkyVars, told>>

TakeError ==
  /\ pc = "select"
  /\ errCh = "error"
  /\ pc' = "close"
  /\ failure' = "listen"
  /\ errCh' = "empty"
  /\ UNCHANGED <<startVars, code, done, link, connected, listener, reverse,
                 connVars, milkyVars, told>>

(* A closed errCh is set to nil, not to be received from again. *)
TakeClosed ==
  /\ pc = "select"
  /\ errCh = "closed"
  /\ errCh' = "nil"
  /\ UNCHANGED <<startVars, runVars, done, link, connected, listener, reverse,
                 connVars, milkyVars, told>>

TakeEvent ==
  /\ pc = "select"
  /\ events # <<>>
  /\ events' = Tail(events)
  /\ nudge' = [nudge EXCEPT ![Head(events)] = NoNudge]
  /\ Broadcast
  /\ UNCHANGED <<startVars, done, link, connected, serverVars, conns>>

TakeTick ==
  /\ pc = "select"
  /\ Broadcast
  /\ UNCHANGED <<startVars, done, link, connected, serverVars, conns, milkyVars>>

(* A write has no deadline: it lasts until the peer has read enough of what *)
(* it was sent before.                                                     *)
BroadcastWrites(c) ==
  /\ pc = "broadcast"
  /\ c \in writing
  /\ writing' = writing \ {c}
  /\ UNCHANGED <<startVars, runVars, done, link, connected, serverVars, conns,
                 milkyVars, told>>

BroadcastReturns ==
  /\ pc = "broadcast"
  /\ writing = {}
  /\ Goto("select")
  /\ UNCHANGED <<startVars, done, link, connected, serverVars, connVars,
                 milkyVars, told>>

-----------------------------------------------------------------------------
(* Fault: the client waits for the connections to end. *)
CloseUpstreamWhenAlone ==
  /\ pc = "close"
  /\ \A c \in Roles : conns[c] = "off"
  /\ link' = "closed"
  /\ Goto("offline")
  /\ UNCHANGED <<startVars, done, connected, serverVars, connVars, milkyVars, told>>

(* The deferred calls, last first: upstream.Close, which closes the session *)
(* if there is one ...                                                     *)
CloseUpstream ==
  /\ pc = "close"
  /\ link' = IF session THEN "closed" ELSE link
  /\ Goto("offline")
  /\ UNCHANGED <<startVars, done, connected, serverVars, connVars, milkyVars, told>>

(* Fault: the upstream stays connected. *)
SetDisconnectedForgotten ==
  /\ pc = "offline"
  /\ Goto("return")
  /\ UNCHANGED <<startVars, done, link, connected, serverVars, connVars, milkyVars, told>>

(* ... and SetUpstreamConnected(false). *)
SetDisconnected ==
  /\ pc = "offline"
  /\ connected' = FALSE
  /\ Goto("return")
  /\ UNCHANGED <<startVars, done, link, serverVars, connVars, milkyVars, told>>

(* Fault: main ignores the error of Run. *)
ExitIgnoresError ==
  /\ pc = "return"
  /\ pc' = "exited"
  /\ code' = 0
  /\ conns' = [c \in Roles |-> "off"]
  /\ writing' = {}
  /\ UNCHANGED <<startVars, failure, done, link, connected, serverVars,
                 milkyVars, told>>

(* main returns, or exits with 1 if Run returned an error: every goroutine  *)
(* and connection is gone.                                                 *)
Exit ==
  /\ pc = "return"
  /\ pc' = "exited"
  /\ code' = IF failure = None THEN 0 ELSE 1
  /\ conns' = [c \in Roles |-> "off"]
  /\ writing' = {}
  /\ UNCHANGED <<startVars, failure, done, link, connected, serverVars,
                 milkyVars, told>>

-----------------------------------------------------------------------------
(* SIGINT or SIGTERM; before NotifyContext it ends the process as such. *)
Signal ==
  /\ Alive
  /\ pc # "load"
  /\ ~done
  /\ done' = TRUE
  /\ UNCHANGED <<startVars, runVars, link, connected, serverVars, connVars, milkyVars, told>>

(* Milky goes away. Nothing in the bridge looks at it. *)
LoseLink ==
  /\ Alive
  /\ link = "open"
  /\ link' = "lost"
  /\ UNCHANGED <<startVars, runVars, done, connected, serverVars, connVars, milkyVars, told>>

(* The handler of FriendNudge runs for a nudge that a friend gave the bot:  *)
(* it reads Client.Login ...                                               *)
NudgeReads(n) ==
  /\ Alive
  /\ link = "open"
  /\ nudge[n].state = "none"
  /\ nudge' = [nudge EXCEPT ![n] =
                 [state |-> "read", target |-> login, early |-> pc \in Starting]]
  /\ UNCHANGED <<startVars, runVars, done, link, connected, serverVars, connVars,
                 events, told>>

(* Fault: one more than the buffer holds. *)
NudgeEmitsOneOver(n) ==
  /\ Alive
  /\ nudge[n].state = "read"
  /\ Len(events) <= Buffer
  /\ events' = Append(events, n)
  /\ nudge' = [nudge EXCEPT ![n].state = "queued"]
  /\ UNCHANGED <<startVars, runVars, done, link, connected, serverVars, connVars, told>>

(* ... and emits the event, which a full buffer drops. *)
NudgeEmits(n) ==
  /\ Alive
  /\ nudge[n].state = "read"
  /\ \/ /\ Len(events) < Buffer
        /\ events' = Append(events, n)
        /\ nudge' = [nudge EXCEPT ![n].state = "queued"]
     \/ /\ Len(events) >= Buffer
        /\ nudge' = [nudge EXCEPT ![n] = NoNudge]
        /\ UNCHANGED events
  /\ UNCHANGED <<startVars, runVars, done, link, connected, serverVars, connVars, told>>

-----------------------------------------------------------------------------
(* Connections. *)

(* Fault: handlers run before the server has started. *)
AcceptAnyTime(c) ==
  /\ Alive
  /\ cfg # None
  /\ c \in Forward \intersect cfg.forward
  /\ conns[c] = "off"
  /\ pc # "broadcast" \/ c = "http"
  /\ conns' = [conns EXCEPT ![c] = IF c \in CanSend THEN "greeting" ELSE "on"]
  /\ UNCHANGED <<startVars, runVars, done, link, connected, serverVars, writing, milkyVars, told>>

(* A forward handler accepts a bot and registers it, which waits for a       *)
(* Broadcast; a request over HTTP does not.                                *)
Accept(c) ==
  /\ Alive
  /\ listener = "listening"
  /\ c \in Forward \intersect cfg.forward
  /\ conns[c] = "off"
  /\ pc # "broadcast" \/ c = "http"
  /\ conns' = [conns EXCEPT ![c] = IF c \in CanSend THEN "greeting" ELSE "on"]
  /\ UNCHANGED <<startVars, runVars, done, link, connected, serverVars, writing, milkyVars, told>>

(* dialReverse connects to a bot, with an X-Self-ID unless it is 0. *)
Dial(c) ==
  /\ Alive
  /\ c \in reverse
  /\ ~done
  /\ conns[c] = "off"
  /\ pc # "broadcast"
  /\ conns' = [conns EXCEPT ![c] = IF c \in CanSend THEN "greeting" ELSE "on"]
  /\ told' = IF SelfID = 0 THEN told ELSE told \union {SelfID}
  /\ UNCHANGED <<startVars, runVars, done, link, connected, serverVars, writing, milkyVars>>

(* The lifecycle event of OnWSConnect; a Broadcast may come before it. *)
Greet(c) ==
  /\ Alive
  /\ conns[c] = "greeting"
  /\ conns' = [conns EXCEPT ![c] = "on"]
  /\ told' = told \union {SelfID}
  /\ UNCHANGED <<startVars, runVars, done, link, connected, serverVars, writing, milkyVars>>

(* get_login_info *)
AskLogin(c) ==
  /\ Alive
  /\ c \in CanReceive
  /\ conns[c] = "on"
  /\ told' = told \union {self}
  /\ UNCHANGED <<startVars, runVars, done, link, connected, serverVars, connVars, milkyVars>>

(* A connection ends, before or after its greeting, and writes to it fail. *)
Leave(c) ==
  /\ Alive
  /\ conns[c] # "off"
  /\ conns' = [conns EXCEPT ![c] = "off"]
  /\ writing' = writing \ {c}
  /\ UNCHANGED <<startVars, runVars, done, link, connected, serverVars, milkyVars, told>>

-----------------------------------------------------------------------------
Init ==
  /\ file \in Files
  /\ cfg = None
  /\ pc = "load"
  /\ failure = None
  /\ code = None
  /\ done = FALSE
  /\ link = "none"
  /\ session = FALSE
  /\ login = 0
  /\ self = 0
  /\ connected = FALSE
  /\ listener = "none"
  /\ errCh = "empty"
  /\ reverse = {}
  /\ conns = [c \in Roles |-> "off"]
  /\ writing = {}
  /\ nudge = [n \in Nudges |-> NoNudge]
  /\ events = <<>>
  /\ told = {}

Start ==
  \/ LoadConfig \/ NewSession \/ Open \/ GetLoginInfo \/ StoreSession
  \/ SetConnected \/ SetLogin \/ StartListener \/ StartReverseClients

Select ==
  \/ TakeDone \/ TakeError \/ TakeClosed \/ TakeEvent \/ TakeTick
  \/ \E c \in CanSend : BroadcastWrites(c)
  \/ BroadcastReturns

End == CloseUpstream \/ SetDisconnected \/ Exit

Listener == Listen \/ ListenFails \/ Shutdown \/ ListenReturns

Connection(c) ==
  Accept(c) \/ Dial(c) \/ Greet(c) \/ AskLogin(c) \/ Leave(c)

Next ==
  \/ Start \/ Select \/ End \/ Listener
  \/ Signal \/ LoseLink
  \/ \E n \in Nudges : NudgeReads(n) \/ NudgeEmits(n)
  \/ \E c \in Roles : Connection(c)

Spec == Init /\ [][Next]_vars

(* Goroutines that can run do; Milky answers what Connect asks. Among the   *)
(* ready cases select chooses at random. A Broadcast that has written to    *)
(* all returns; that peers read what they are sent, or leave, is not        *)
(* assumed.                                                                *)
FairSpec ==
  /\ Spec
  /\ WF_vars(Start)
  /\ WF_vars(End)
  /\ SF_vars(TakeDone)
  /\ SF_vars(TakeError)
  /\ WF_vars(BroadcastReturns)

-----------------------------------------------------------------------------
NudgeStates == {"none", "read", "queued"}

TypeOK ==
  /\ file \in Files
  /\ cfg \in {Decoded(f) : f \in Files} \union {None}
  /\ pc \in Starting \union Serving \union Stopping \union {"exited"}
  /\ failure \in Failures \union {None}
  /\ code \in {0, 1, None}
  /\ done \in BOOLEAN
  /\ link \in {"none", "open", "lost", "closed"}
  /\ session \in BOOLEAN
  /\ login \in {0, UIN}
  /\ self \in Nat
  /\ connected \in BOOLEAN
  /\ listener \in {"none", "starting", "listening", "failed", "shutdown", "closed"}
  /\ errCh \in {"empty", "error", "closed", "nil"}
  /\ reverse \subseteq Reverse
  /\ conns \in [Roles -> {"off", "greeting", "on"}]
  /\ writing \subseteq CanSend
  /\ nudge \in [Nudges -> [state : NudgeStates, target : {0, UIN}, early : BOOLEAN]]
  /\ events \in Seq(Nudges)
  /\ Len(events) <= Buffer
  /\ told \subseteq Nat

(* The self_id that the configuration and the account ask for. *)
Identity == IF cfg.self_id # 0 THEN cfg.self_id ELSE UIN

(* Every self_id a bot is ever told, in a greeting, an event, a heartbeat,  *)
(* an answer or a header, is the configured one or else the account's; it  *)
(* is never 0, which it is until SetLogin.                                 *)
IdentityConsistent == told # {} => told = {Identity}

(* Whoever can call the API finds a session and a status that is good, as   *)
(* long as Run has not begun to end.                                       *)
ServedWhenReady ==
  (\E c \in Roles : conns[c] # "off") =>
    /\ session
    /\ pc \in Starting \union Serving => connected /\ self # 0

(* get_status and heartbeats say online only of a session that was opened   *)
(* and that Run has not closed, but for the moment between its deferred    *)
(* calls; that Milky went away they do not say.                            *)
OnlineUnlessEnding ==
  connected => link \in {"open", "lost"} \/ pc = "offline"

(* A nudge of the bot itself names the bot, target_id = self_id, if it      *)
(* arrives once bots are served and no other self_id is configured.        *)
SelfNudgeRecognised ==
  \A n \in Nudges :
    /\ nudge[n].state = "queued"
    /\ ~nudge[n].early
    => nudge[n].target = Identity \/ cfg.self_id # 0

(* A session that was opened is closed before the process ends, also if     *)
(* Connect fails half-way, but not if the SDK panics.                      *)
OpenedIsClosed == pc = "exited" /\ link \in {"open", "lost"} => failure = "panic"

(* A reverse configuration that Load accepts starts a client: one universal *)
(* one or, unless only one half has an address, one of each role.          *)
ReverseStarted ==
  pc \in {"select", "broadcast"} /\ cfg.reverse =>
    IF cfg.use_universal_client THEN reverse = {"Universal"}
    ELSE /\ reverse # {}
         /\ reverse = {"API", "Event"} \/ IsBlank(cfg.url)

(* The inductive strengthening of the above: what holds at each place of    *)
(* main, and since Server.Start for as long as the process lives.          *)

Begun == listener # "none"

Loaded == cfg = Decoded(file) /\ Loads(file)

StartOrder ==
  /\ pc \notin {"load", "exited"} \/ Begun => Loaded
  /\ pc \in Starting => ~Begun
  /\ pc \in Serving \union Stopping => Begun
  /\ Begun \/ pc \in {"online", "login", "listen"} => session /\ login = UIN
  /\ Begun \/ pc = "listen" => self = Identity
  /\ pc \in {"select", "broadcast"} => reverse = ReverseRoles(cfg)

StatusExact ==
  connected <=> pc \in {"login", "listen", "close", "offline"} \union Serving

Quiet ==
  ~Begun => reverse = {} /\ told = {} /\ \A c \in Roles : conns[c] = "off"

ToldIdentity == Begun => told \subseteq {Identity}

LinkExact ==
  /\ pc \in {"load", "new", "open"} => link = "none"
  /\ pc \in {"info", "store", "online", "login", "listen", "close"} \union Serving =>
       link \in {"open", "lost"}
  /\ pc \in {"offline", "return"} => link = "closed"
  /\ OpenedIsClosed

EndsForReason ==
  /\ Alive => code = None
  /\ pc \in Starting \union Serving => failure = None
  /\ pc \in Stopping /\ failure = None => done

NudgesRead ==
  \A n \in Nudges : nudge[n].state # "none" /\ ~nudge[n].early => nudge[n].target = UIN

ServiceInv ==
  /\ TypeOK
  /\ StartOrder
  /\ StatusExact
  /\ Quiet
  /\ ToldIdentity
  /\ LinkExact
  /\ EndsForReason
  /\ NudgesRead

(* Broadcast writes for ever, to one peer, for it writes to each only once. *)
Stuck == [](writing # {})

(* A signal ends the process, if Milky answers while it is being started,   *)
(* whatever connections, heartbeats and the listener do: only a peer that   *)
(* stays connected and reads no more can keep Run from seeing it.           *)
SignalEnds == done ~> pc = "exited" \/ Stuck

(* So does an error of the listener, while heartbeats and events go on.     *)
ListenFailureEnds == listener = "failed" ~> pc = "exited" \/ Stuck

(* The process has the life that Lifecycle promises. *)
Phase ==
  CASE pc \in Starting -> "starting"
    [] pc \in Serving -> "serving"
    [] pc \in Stopping -> "stopping"
    [] pc = "exited" -> "stopped"

(* The self_id it serves with, from Server.Start on. *)
ServedAs == IF listener = "none" THEN None ELSE Identity

Life == INSTANCE Lifecycle WITH phase <- Phase, asked <- done, identity <- ServedAs

LifecycleSpec == Life!Spec

=============================================================================
