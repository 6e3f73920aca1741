--------------------------- MODULE MCSubscribers ---------------------------
(***************************************************************************)
(* Everything that keeps a list of subscribers, for TLC: the lists of a    *)
(* connection (HookList), the process-wide log hook, which guards the same *)
(* kind of list with a lock of its own (LogHook), and the telemetry bridge,*)
(* which subscribes to several lists at once (TelemetryBridge).  The three *)
(* share no state; a behaviour is a behaviour of one of them, with the     *)
(* others at rest in their initial states.                                 *)
(***************************************************************************)
EXTENDS HookList, TLC

CONSTANTS Kinds, Bridges, MaxHooks, MaxEvents   \* see TelemetryBridge

ASSUME HooksAssumption == MaxHooks \in Nat

VARIABLES
  focus,       \* the part that moves
  log_lock, log_poisoned, log_installed, log_xlog, log_subs, log_next_id,
  log_pc, log_op, log_arg, log_todo, log_heard,
  open, lists, nextId, caller, hooks, handles, asked, server, mailbox,
  emitted, due, events

L == INSTANCE LogHook WITH
       lock <- log_lock, poisoned <- log_poisoned, installed <- log_installed,
       xlog <- log_xlog, subs <- log_subs, next_id <- log_next_id,
       pc <- log_pc, op <- log_op, arg <- log_arg, todo <- log_todo, heard <- log_heard

T == INSTANCE TelemetryBridge WITH subs <- lists, pc <- caller, todo <- hooks

logVars == <<log_lock, log_poisoned, log_installed, log_xlog, log_subs, log_next_id,
             log_pc, log_op, log_arg, log_todo, log_heard>>
bridgeVars == <<open, lists, nextId, caller, hooks, handles, asked, server, mailbox,
                emitted, due, events>>
allVars == <<focus, vars, logVars, bridgeVars>>

MCInit ==
  /\ focus \in {"hook list", "log hook", "bridge"}
  /\ Init /\ L!Init /\ T!Init

MCNext ==
  /\ UNCHANGED focus
  /\ \/ focus = "hook list" /\ Next /\ UNCHANGED <<logVars, bridgeVars>>
     \/ focus = "log hook" /\ L!Next /\ UNCHANGED <<vars, bridgeVars>>
     \/ focus = "bridge" /\ T!Next /\ UNCHANGED <<vars, logVars>>

MCSpec == MCInit /\ [][MCNext]_allVars

(* The properties of LogHook and TelemetryBridge; their modules say what   *)
(* each one states.                                                        *)

(* Every log event reaches everyone who is registered. *)
EveryoneServed == L!EveryoneServed

(* A bridge is on exactly the lists it asked for, as long as it is up. *)
BridgesKeepTheirLists == T!BridgesKeepTheirLists

(* A bridge emits every event of its lists once and in order. *)
EmitsWhatItHeard == T!EmitsWhatItHeard

Symmetry == Permutations(Bridges)
=============================================================================
