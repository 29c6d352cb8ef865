--------------------------- MODULE NameDirectory ---------------------------
(***************************************************************************)
(* What the bridge promises about the flags of requests: a name is told as  *)
(* the thing it resolves to, and names that thing for ever.                 *)
(***************************************************************************)
CONSTANTS
  Names,    \* what may be told
  None      \* what an unbound name resolves to

VARIABLES
  names,    \* what each name resolves to
  told      \* the names told so far, each with what it was told to be

directoryVars == <<names, told>>

Init ==
  /\ names = [n \in Names |-> None]
  /\ told = {}

(* A name that resolves to nothing is bound to a thing. *)
Bind(n, thing) ==
  /\ names[n] = None
  /\ thing # None
  /\ names' = [names EXCEPT ![n] = thing]
  /\ UNCHANGED told

(* A name that resolves is told, or told again, as what it is. *)
Tell(n) ==
  /\ names[n] # None
  /\ told' = told \union {<<n, names[n]>>}
  /\ UNCHANGED names

(* The things are whatever the names come to resolve to. *)
Next == \E n \in Names : Tell(n) \/ Bind(n, names'[n])

Spec == Init /\ [][Next]_directoryVars

=============================================================================
