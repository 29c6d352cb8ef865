----------------------------- MODULE Lifecycle -----------------------------
(***************************************************************************)
(* What the bridge promises about its life: it speaks to bots only while    *)
(* it serves or is stopping, under the one identity it began to serve      *)
(* with, and it ends with success only when it was asked to end.           *)
(***************************************************************************)
CONSTANT None  \* no identity, no exit code

VARIABLES
  phase,     \* "starting", "serving", "stopping", "stopped"
  asked,     \* was it asked to end?
  identity,  \* the self_id it serves with
  told,      \* the self_ids that bots were told
  code       \* the exit code

lifeVars == <<phase, asked, identity, told, code>>

Init ==
  /\ phase = "starting"
  /\ asked = FALSE
  /\ identity = None
  /\ told = {}
  /\ code = None

(* A signal; it may come at any time. *)
Ask ==
  /\ phase # "stopped"
  /\ asked' = TRUE
  /\ UNCHANGED <<phase, identity, told, code>>

(* The start fails. *)
Fail ==
  /\ phase = "starting"
  /\ phase' = "stopped"
  /\ code' = 1
  /\ UNCHANGED <<asked, identity, told>>

(* The identity is settled for good. *)
Begin(id) ==
  /\ phase = "starting"
  /\ id # None
  /\ phase' = "serving"
  /\ identity' = id
  /\ UNCHANGED <<asked, told, code>>

(* A bot is told who the bridge is. *)
Tell ==
  /\ phase \in {"serving", "stopping"}
  /\ told' = told \union {identity}
  /\ UNCHANGED <<phase, asked, identity, code>>

Stop ==
  /\ phase = "serving"
  /\ phase' = "stopping"
  /\ UNCHANGED <<asked, identity, told, code>>

End ==
  /\ phase = "stopping"
  /\ phase' = "stopped"
  /\ code' \in IF asked THEN {0, 1} ELSE {1}
  /\ UNCHANGED <<asked, identity, told>>

Next ==
  \/ Ask \/ Fail \/ Tell \/ Stop \/ End
  \/ Begin(identity')

Spec == Init /\ [][Next]_lifeVars

=============================================================================
