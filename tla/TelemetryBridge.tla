-------------------------- MODULE TelemetryBridge --------------------------
(***************************************************************************)
(* Xqlite.Telemetry.Bridge (lib/xqlite/telemetry/bridge.ex): processes     *)
(* bridge and unbridge a connection's hooks while the connection raises    *)
(* events and may be closed at any moment.  A bridge is a linked GenServer *)
(* subscribed to several hook lists by several NIF calls; each list gives  *)
(* out its own handles.  The lists are taken as FanOut promises them.      *)
(***************************************************************************)
EXTENDS Naturals, Sequences, FiniteSets, Functions

CONSTANTS
  Kinds,      \* per-connection hooks
  Bridges,    \* calls of bridge/2, each by a process of its own
  MaxHooks,   \* bound: hooks a call asks for
  MaxEvents   \* bound: events raised

VARIABLES
  open,       \* is the connection open?
  subs,       \* hook list of each kind: handle -> bridge
  nextId,     \* next handle of each list
  pc,         \* where each bridge's caller is
  todo,       \* hooks still to register
  handles,    \* hook_handles (acc while registering)
  asked,      \* hooks asked for
  server,     \* GenServer: "none", "alive", "stopping", "stopped"
  mailbox,    \* its messages
  emitted,    \* telemetry events it emitted
  due,        \* events raised on a list it was on
  events      \* events raised so far

bvars == <<pc, todo, handles, asked, server>>
vars == <<open, subs, nextId, pc, todo, handles, asked, server, mailbox, emitted, due, events>>

Empty == [h \in {} |-> CHOOSE b \in Bridges : TRUE]
HookLists == {s \in UNION {[1..n -> Kinds \cup {"all"}] : n \in 1..MaxHooks} : IsInjective(s)}

Init ==
  /\ open = TRUE /\ events = 0
  /\ subs = [k \in Kinds |-> Empty] /\ nextId = [k \in Kinds |-> 1]
  /\ pc = [b \in Bridges |-> "idle"] /\ server = [b \in Bridges |-> "none"]
  /\ todo = [b \in Bridges |-> <<>>] /\ handles = todo /\ asked = todo
  /\ mailbox = todo /\ emitted = todo /\ due = todo

(* The entries of a bridge in a hook list. *)
On(b, k) == {h \in DOMAIN subs[k] : subs[k][h] = b}

Goto(b, l) == pc' = [pc EXCEPT ![b] = l]

(* expand_hooks, validate_hooks, start_link.  :all passes validation as a  *)
(* member of a list too.                                                   *)
Bridge(b, hooks) ==
  /\ pc[b] = "idle" /\ Goto(b, "register")
  /\ server' = [server EXCEPT ![b] = "alive"]
  /\ todo' = [todo EXCEPT ![b] = hooks] /\ asked' = [asked EXCEPT ![b] = hooks]
  /\ UNCHANGED <<open, subs, nextId, handles, mailbox, emitted, due, events>>

(* What the error branch does next: unregister what acc holds, then stop.  *)
OnError_noRollback == "error"

OnError == "rollback"

(* One round of register_per_conn_hooks.  The NIF call fails on a closed   *)
(* connection, and on an open one when the NIF refuses the options of the  *)
(* hook or SQLite the installation; or there is no clause for the hook.    *)
Register(b) ==
  /\ pc[b] = "register" /\ todo[b] # <<>> /\ Head(todo[b]) \in Kinds /\ open
  /\ LET k == Head(todo[b])
     IN  /\ subs' = [subs EXCEPT ![k] = [h \in DOMAIN @ \cup {nextId[k]} |->
                                           IF h = nextId[k] THEN b ELSE @[h]]]
         /\ nextId' = [nextId EXCEPT ![k] = @ + 1]
         /\ handles' = [handles EXCEPT ![b] = Append(@, <<k, nextId[k]>>)]
  /\ todo' = [todo EXCEPT ![b] = Tail(@)]
  /\ UNCHANGED <<open, pc, asked, server, mailbox, emitted, due, events>>

RegisterFails(b) ==
  /\ pc[b] = "register" /\ todo[b] # <<>> /\ Head(todo[b]) \in Kinds
  /\ Goto(b, OnError)
  /\ UNCHANGED <<open, subs, nextId, todo, handles, asked, server, mailbox, emitted, due, events>>

RegisterRaises(b) ==
  /\ pc[b] = "register" /\ todo[b] # <<>> /\ Head(todo[b]) \notin Kinds
  /\ Goto(b, "raised")
  /\ UNCHANGED <<open, subs, nextId, todo, handles, asked, server, mailbox, emitted, due, events>>

Bridged(b) ==
  /\ pc[b] = "register" /\ todo[b] = <<>> /\ Goto(b, "bridged")
  /\ UNCHANGED <<open, subs, nextId, todo, handles, asked, server, mailbox, emitted, due, events>>

Unbridge_stopOnly(b) ==
  /\ pc[b] = "bridged" /\ Goto(b, "unbridge")
  /\ handles' = [handles EXCEPT ![b] = <<>>]
  /\ UNCHANGED <<open, subs, nextId, todo, asked, server, mailbox, emitted, due, events>>

Unbridge(b) ==
  /\ pc[b] = "bridged" /\ Goto(b, "unbridge")
  /\ UNCHANGED <<open, subs, nextId, todo, handles, asked, server, mailbox, emitted, due, events>>

(* unregister_hook, for one pair of hook and handle; its answer is not     *)
(* looked at.  On a closed connection it is an error and the entry stays.  *)
UnregisterHook_everyList(b) ==
  /\ pc[b] \in {"rollback", "unbridge"} /\ handles[b] # <<>>
  /\ subs' = IF ~open THEN subs ELSE [k \in Kinds |-> [h \in DOMAIN subs[k] \ {Head(handles[b])[2]} |-> subs[k][h]]]
  /\ handles' = [handles EXCEPT ![b] = Tail(@)]
  /\ UNCHANGED <<open, nextId, pc, todo, asked, server, mailbox, emitted, due, events>>

UnregisterHook(b) ==
  /\ pc[b] \in {"rollback", "unbridge"} /\ handles[b] # <<>>
  /\ LET k == Head(handles[b])[1]  id == Head(handles[b])[2]
     IN  subs' = IF ~open THEN subs ELSE [subs EXCEPT ![k] = [h \in DOMAIN @ \ {id} |-> @[h]]]
  /\ handles' = [handles EXCEPT ![b] = Tail(@)]
  /\ UNCHANGED <<open, nextId, pc, todo, asked, server, mailbox, emitted, due, events>>

(* GenServer.stop: a message behind those already in the mailbox, awaited  *)
(* for a second.                                                           *)
Stop(b) ==
  /\ pc[b] \in {"rollback", "unbridge"} /\ handles[b] = <<>> /\ server[b] = "alive"
  /\ server' = [server EXCEPT ![b] = "stopping"]
  /\ UNCHANGED <<open, subs, nextId, pc, todo, handles, asked, mailbox, emitted, due, events>>

Stopped(b) ==
  /\ server[b] = "stopping" /\ mailbox[b] = <<>>
  /\ server' = [server EXCEPT ![b] = "stopped"]
  /\ Goto(b, IF pc[b] = "rollback" THEN "error" ELSE IF pc[b] = "unbridge" THEN "unbridged" ELSE pc[b])
  /\ UNCHANGED <<open, subs, nextId, todo, handles, asked, mailbox, emitted, due, events>>

StopTimesOut(b) ==
  /\ server[b] = "stopping" /\ pc[b] \in {"rollback", "unbridge"} /\ mailbox[b] # <<>>
  /\ Goto(b, "exited")
  /\ UNCHANGED <<open, subs, nextId, todo, handles, asked, server, mailbox, emitted, due, events>>

(* handle_info. *)
HandleInfo(b) ==
  /\ server[b] \in {"alive", "stopping"} /\ mailbox[b] # <<>>
  /\ emitted' = [emitted EXCEPT ![b] = Append(@, Head(mailbox[b]))]
  /\ mailbox' = [mailbox EXCEPT ![b] = Tail(@)]
  /\ UNCHANGED <<open, subs, nextId, bvars, due, events>>

(* The connection raises an event: a message to every subscriber. *)
Fire(k) ==
  /\ open /\ events < MaxEvents /\ events' = events + 1
  /\ LET msgs(b) == [i \in 1..Cardinality(On(b, k)) |-> <<k, events'>>]
     IN  /\ due' = [b \in Bridges |-> due[b] \o msgs(b)]
         /\ mailbox' = [b \in Bridges |-> IF server[b] \in {"alive", "stopping"} THEN mailbox[b] \o msgs(b) ELSE mailbox[b]]
  /\ UNCHANGED <<open, subs, nextId, bvars, emitted>>

CloseConnection ==
  /\ open /\ open' = FALSE
  /\ UNCHANGED <<subs, nextId, bvars, mailbox, emitted, due, events>>

Next ==
  \/ \E b \in Bridges :
       \/ \E hooks \in HookLists : Bridge(b, hooks)
       \/ Register(b) \/ RegisterFails(b) \/ RegisterRaises(b) \/ Bridged(b) \/ Unbridge(b) \/ UnregisterHook(b)
       \/ Stop(b) \/ Stopped(b) \/ StopTimesOut(b) \/ HandleInfo(b)
  \/ \E k \in Kinds : Fire(k)
  \/ CloseConnection

Spec == Init /\ [][Next]_vars
-----------------------------------------------------------------------------
(* A bridge that failed, and one that was taken down, leaves no subscriber *)
(* on an open connection, and its process has stopped unless its handlers  *)
(* were slower than the second GenServer.stop waits.                       *)
NothingLeftBehind == \A b \in Bridges :
  /\ (open /\ pc[b] \in {"error", "unbridged", "exited"}) =>
       \A k \in Kinds : On(b, k) = {}
  /\ pc[b] \in {"error", "unbridged"} => server[b] = "stopped"

(* "bridge does not interfere with": while the connection is open a bridge *)
(* that was established is on exactly the lists it asked for, whatever     *)
(* other bridges come and go.                                              *)
StaysSubscribed == \A b \in Bridges : (open /\ pc[b] = "bridged") =>
  \A k \in Kinds : Cardinality(On(b, k)) = IF k \in Range(asked[b]) THEN 1 ELSE 0

(* Every event raised on a list the bridge was on is emitted once, in the  *)
(* order raised; unbridge returns only when all of them have been, and     *)
(* nothing comes after it.                                                 *)
EmitsWhatItHeard == \A b \in Bridges :
  /\ due[b] = emitted[b] \o mailbox[b]
  /\ pc[b] \in {"error", "unbridged"} => emitted[b] = due[b]

(* A bridge is on exactly the lists it asked for from when it is           *)
(* established until it is taken down, and on none when it failed or has   *)
(* been taken down, whatever fails and whatever other bridges do.          *)
BridgesKeepTheirLists == StaysSubscribed /\ NothingLeftBehind
=============================================================================
