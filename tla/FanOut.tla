------------------------------- MODULE FanOut -------------------------------
(***************************************************************************)
(* What a subscriber list promises to its users, without saying how it is  *)
(* stored: a registration adds one subscriber under a handle that was      *)
(* never given out before, an unregistration removes that one and nobody   *)
(* else, and an event reaches every subscriber registered when it is       *)
(* raised, each exactly once.  The list does not change while an event is  *)
(* being delivered.                                                        *)
(***************************************************************************)
CONSTANT Ids
VARIABLES
  subs,      \* the handles registered now
  used,      \* the handles ever given out
  pending    \* the subscribers the current event has still to reach

fvars == <<subs, used, pending>>

Init ==
  /\ subs = {}
  /\ used = {}
  /\ pending = {}

Register(id) ==
  /\ pending = {}
  /\ id \notin used
  /\ subs' = subs \cup {id}
  /\ used' = used \cup {id}
  /\ UNCHANGED pending

Unregister(id) ==
  /\ pending = {}
  /\ subs' = subs \ {id}
  /\ UNCHANGED <<used, pending>>

Fire ==
  /\ pending = {}
  /\ pending' = subs
  /\ UNCHANGED <<subs, used>>

Deliver(id) ==
  /\ id \in pending
  /\ pending' = pending \ {id}
  /\ UNCHANGED <<subs, used>>

DropAll ==
  /\ pending = {}
  /\ subs' = {}
  /\ UNCHANGED <<used, pending>>

Next ==
  \/ \E id \in Ids : Register(id) \/ Unregister(id) \/ Deliver(id)
  \/ Fire
  \/ DropAll

Spec == Init /\ [][Next]_fvars
=============================================================================
