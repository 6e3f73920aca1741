------------------------------ MODULE LogHook ------------------------------
(***************************************************************************)
(* The process-wide log hook (log_hook.rs and its NIFs in nif.rs).  SQLite *)
(* has one log callback per process.  xqlite installs its own on the first *)
(* registration and keeps it; the callback and the writers of the static   *)
(* subscriber list exclude each other with MASTER_LOCK alone, because log  *)
(* events come from any thread, with or without a connection's mutex.  A   *)
(* panic in the callback is caught above it and leaves the lock poisoned:  *)
(* writers then fail, the callback goes on.                                *)
(***************************************************************************)
EXTENDS Integers, FiniteSets

CONSTANTS
  Threads,     \* threads that register, unregister or run SQLite
  MaxId,       \* bound on the number of registrations
  NULL

Ids == 1..MaxId

VARIABLES
  lock,        \* MASTER_LOCK: its holder or NULL
  poisoned,    \* MASTER_LOCK's poison flag
  installed,   \* MASTER_INSTALLED
  xlog,        \* our callback is SQLite's log callback
  subs,        \* LOG_SUBSCRIBERS
  next_id,
  pc, op, arg,
  todo,        \* subscribers the event has still to reach
  heard        \* subscribers the event has reached

locals == <<op, arg, todo, heard>>
vars == <<lock, poisoned, installed, xlog, subs, next_id, pc, locals>>

Init ==
  /\ lock = NULL /\ poisoned = FALSE
  /\ installed = FALSE /\ xlog = FALSE
  /\ subs = {} /\ next_id = 1
  /\ pc = [t \in Threads |-> "idle"]
  /\ op = [t \in Threads |-> "none"]
  /\ arg = [t \in Threads |-> 0]
  /\ todo = [t \in Threads |-> {}]
  /\ heard = [t \in Threads |-> {}]

Call(t, what, id) ==
  /\ pc[t] = "idle"
  /\ pc' = [pc EXCEPT ![t] = "wait"]
  /\ op' = [op EXCEPT ![t] = what]
  /\ arg' = [arg EXCEPT ![t] = id]
  /\ UNCHANGED <<lock, poisoned, installed, xlog, subs, next_id, todo, heard>>

(* register_log_hook and unregister_log_hook wait for MASTER_LOCK. *)
CallRegister(t) == next_id <= MaxId /\ Call(t, "register", 0)
CallUnregister(t, id) == Call(t, "unregister", id)

(* SQLite logs something on t and finds our callback installed. *)
CallEvent(t) ==
  /\ xlog
  /\ Call(t, "event", 0)

(* The call is over; the lock is released if t holds it. *)
Leave(t) ==
  /\ pc' = [pc EXCEPT ![t] = "idle"]
  /\ lock' = IF lock = t THEN NULL ELSE lock
  /\ op' = [op EXCEPT ![t] = "none"] /\ arg' = [arg EXCEPT ![t] = 0]
  /\ todo' = [todo EXCEPT ![t] = {}] /\ heard' = [heard EXCEPT ![t] = {}]

(* MASTER_LOCK.lock(): a writer gives up on a poisoned lock with an error, *)
(* the callback takes it all the same.                                     *)
Lock_eventFree(t) ==
  /\ pc[t] = "wait" /\ (lock = NULL \/ op[t] = "event")
  /\ \/ /\ poisoned /\ op[t] # "event"
        /\ Leave(t)
     \/ /\ ~poisoned \/ op[t] = "event"
        /\ lock' = IF op[t] = "event" THEN lock ELSE t
        /\ pc' = [pc EXCEPT ![t] = "held"]
        /\ UNCHANGED locals
  /\ UNCHANGED <<poisoned, installed, xlog, subs, next_id>>

Lock_refusesEvents(t) ==
  /\ pc[t] = "wait" /\ lock = NULL
  /\ \/ /\ poisoned
        /\ Leave(t)
     \/ /\ ~poisoned
        /\ lock' = t
        /\ pc' = [pc EXCEPT ![t] = "held"]
        /\ UNCHANGED locals
  /\ UNCHANGED <<poisoned, installed, xlog, subs, next_id>>

Lock(t) ==
  /\ pc[t] = "wait" /\ lock = NULL
  /\ \/ /\ poisoned /\ op[t] # "event"
        /\ Leave(t)
     \/ /\ ~poisoned \/ op[t] = "event"
        /\ lock' = t
        /\ pc' = [pc EXCEPT ![t] = "held"]
        /\ UNCHANGED locals
  /\ UNCHANGED <<poisoned, installed, xlog, subs, next_id>>

(* register, first time: config_log, which may fail, then the flag. *)
Install_flagFirst(t) ==
  /\ pc[t] = "held" /\ op[t] = "register" /\ ~installed
  /\ installed' = TRUE
  /\ \/ xlog' = TRUE /\ UNCHANGED <<lock, pc, locals>>
     \/ Leave(t) /\ UNCHANGED xlog
  /\ UNCHANGED <<poisoned, subs, next_id>>

Install(t) ==
  /\ pc[t] = "held" /\ op[t] = "register" /\ ~installed
  /\ \/ xlog' = TRUE /\ installed' = TRUE /\ UNCHANGED <<lock, pc, locals>>
     \/ Leave(t) /\ UNCHANGED <<xlog, installed>>
  /\ UNCHANGED <<poisoned, subs, next_id>>

(* LOG_SUBSCRIBERS.register *)
Register(t) ==
  /\ pc[t] = "held" /\ op[t] = "register" /\ installed
  /\ subs' = subs \cup {next_id}
  /\ next_id' = next_id + 1
  /\ Leave(t)
  /\ UNCHANGED <<poisoned, installed, xlog>>

(* LOG_SUBSCRIBERS.unregister *)
Unregister(t) ==
  /\ pc[t] = "held" /\ op[t] = "unregister"
  /\ subs' = subs \ {arg[t]}
  /\ Leave(t)
  /\ UNCHANGED <<poisoned, installed, xlog, next_id>>

(* log_callback: the snapshot, one message per entry, the end. *)
StartWalk(t) ==
  /\ pc[t] = "held" /\ op[t] = "event"
  /\ pc' = [pc EXCEPT ![t] = "walk"]
  /\ todo' = [todo EXCEPT ![t] = subs]
  /\ UNCHANGED <<lock, poisoned, installed, xlog, subs, next_id, op, arg, heard>>

SendOne(t) ==
  /\ pc[t] = "walk"
  /\ \E id \in todo[t] :
       /\ todo' = [todo EXCEPT ![t] = @ \ {id}]
       /\ heard' = [heard EXCEPT ![t] = @ \cup {id}]
  /\ UNCHANGED <<lock, poisoned, installed, xlog, subs, next_id, pc, op, arg>>

EndWalk(t) ==
  /\ pc[t] = "walk" /\ todo[t] = {}
  /\ Leave(t)
  /\ UNCHANGED <<poisoned, installed, xlog, subs, next_id>>

(* The callback panics with the lock held; rusqlite catches it above. *)
Panic(t) ==
  /\ pc[t] = "walk"
  /\ Leave(t)
  /\ poisoned' = TRUE
  /\ UNCHANGED <<installed, xlog, subs, next_id>>

Next ==
  \E t \in Threads :
    \/ CallRegister(t) \/ CallEvent(t)
    \/ \E id \in Ids : CallUnregister(t, id)
    \/ Lock(t) \/ Install(t) \/ Register(t) \/ Unregister(t)
    \/ StartWalk(t) \/ SendOne(t) \/ EndWalk(t) \/ Panic(t)

Spec == Init /\ [][Next]_vars
----------------------------------------------------------------------------
(* Whoever is registered is served: SQLite's log callback is ours whenever *)
(* the list is not empty, even after a first installation that failed.     *)
RegisteredIsServed == subs # {} => xlog

(* The callback walks the list as it is: nobody it has still to reach has  *)
(* been removed meanwhile (its list would be freed memory), and nobody is  *)
(* added behind its back, however the writers of other threads interleave. *)
WalkIsCurrent == \A t \in Threads : pc[t] = "walk" => heard[t] \cup todo[t] = subs

(* A log event that found our callback ends only when everyone registered  *)
(* has its message, unless it panics itself: an earlier panic, which       *)
(* poisoned the lock, costs the later events nothing.                      *)
NoEventLost ==
  [][\A t \in Threads :
       (op[t] = "event" /\ pc'[t] = "idle") => (heard[t] = subs \/ Panic(t))]_vars

(* Every log event reaches everyone: SQLite has our callback while anyone  *)
(* is registered, the callback walks the list as it is, and it ends only   *)
(* when all have the message.                                              *)
EveryoneServed == [](RegisteredIsServed /\ WalkIsCurrent) /\ NoEventLost
=============================================================================
