---------------------------- MODULE EventFanout ----------------------------
(***************************************************************************)
(* What the OneBot server promises about events, with no locks, sockets or *)
(* goroutines: events are published one at a time, a subscriber that joins *)
(* between two events gets every later one, in order and without a gap,    *)
(* until it leaves, and nothing is published while a subscriber still      *)
(* misses an earlier event.                                                *)
(***************************************************************************)
EXTENDS Naturals

CONSTANT Conns  \* the connections that may subscribe

VARIABLES
  subs,      \* the current subscribers
  last,      \* the number of the last published event
  cursor     \* the last event each subscriber was given

fanoutVars == <<subs, last, cursor>>

Init ==
  /\ subs = {}
  /\ last = 0
  /\ cursor = [c \in Conns |-> 0]

(* A subscriber starts after the event published last. *)
Join(c) ==
  /\ c \notin subs
  /\ subs' = subs \union {c}
  /\ cursor' = [cursor EXCEPT ![c] = last]
  /\ UNCHANGED last

(* A subscriber may leave at any time, also in the middle of an event. *)
Leave(c) ==
  /\ c \in subs
  /\ subs' = subs \ {c}
  /\ UNCHANGED <<last, cursor>>

(* The next event waits until every subscriber has the previous one. *)
Publish ==
  /\ \A c \in subs : cursor[c] = last
  /\ last' = last + 1
  /\ UNCHANGED <<subs, cursor>>

(* A subscriber is given the one event it does not have yet. *)
Deliver(c) ==
  /\ c \in subs
  /\ cursor[c] + 1 = last
  /\ cursor' = [cursor EXCEPT ![c] = last]
  /\ UNCHANGED <<subs, last>>

(* The process exits: every subscription ends at once. *)
Stop ==
  /\ subs # {}
  /\ subs' = {}
  /\ UNCHANGED <<last, cursor>>

Next ==
  \/ Publish
  \/ Stop
  \/ \E c \in Conns : Join(c) \/ Leave(c) \/ Deliver(c)

Spec == Init /\ [][Next]_fanoutVars

=============================================================================
