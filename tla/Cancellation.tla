---------------------------- MODULE Cancellation ----------------------------
(***************************************************************************)
(* Cancel tokens (cancel.rs), the progress dispatch that serves both       *)
(* cancellation and progress ticks (progress_dispatch.rs) and the          *)
(* cancellable NIFs (nif.rs).  A token is one atomic flag; cancel_operation*)
(* sets it from any process without the connection mutex.  A cancellable   *)
(* call takes the mutex, registers one subscriber per token (a raw pointer *)
(* to the flag), runs its statement, and unregisters them before it        *)
(* releases the mutex.  SQLite calls back every PROGRESS_NUM_OPS virtual   *)
(* machine instructions, so a statement may end before its first callback. *)
(*                                                                         *)
(* The subscriber lists are the abstract ones of FanOut: a handle is fresh *)
(* when it is not registered.                                              *)
(***************************************************************************)
EXTENDS Integers, Sequences, Functions

CONSTANTS
  Threads,      \* threads running NIFs on one connection
  Tokens,       \* cancel tokens
  TokenLists,   \* token lists callers pass; <<>> is a call without tokens
  Ids,          \* handles of cancel subscribers
  Ticks,        \* progress-hook subscribers
  Every,        \* the decimation every_n each of them asked for
  MaxFires,     \* bound: callbacks a tick subscriber counts
  MaxPanics,    \* bound: panics caught in the callback
  NULL

ASSUME ListAssumption == TokenLists \subseteq Seq(Tokens)
ASSUME EveryAssumption == Every \in [Ticks -> Nat \ {0}]
ASSUME NullAssumption == NULL \notin Threads /\ NULL \notin Tokens
ASSUME BoundAssumption == MaxFires \in Nat /\ MaxPanics \in Nat

VARIABLES
  token,     \* "none", "live" or "freed" (the Arc's last reference is gone)
  flag,      \* the AtomicBool of each token
  cancels,   \* ProgressDispatch.cancels: registered handles ...
  target,    \* ... and the flag each one points at
  ticks,     \* ProgressDispatch.ticks
  count,     \* TickSubscriber.count, shared by the clones of a subscriber
  sent,      \* counts carried by the messages a tick subscriber got
  mutex, pc,
  toks,      \* the tokens a call was given
  rest,      \* tokens its guard has still to register
  entries,   \* handles its guard owns
  todo,      \* handles the running callback has still to look at
  hit,       \* should_interrupt
  result,    \* outcome of the statement
  spent,     \* some token was already signalled when the call started
  panics     \* panics caught so far

callVars == <<mutex, pc, toks, rest, entries, todo, hit, result, spent>>
tickVars == <<ticks, count, sent>>
tokenVars == <<token, flag>>
vars == <<token, flag, cancels, target, ticks, count, sent, mutex, pc, toks,
          rest, entries, todo, hit, result, spent, panics>>

Init ==
  /\ token = [k \in Tokens |-> "none"]
  /\ flag = [k \in Tokens |-> FALSE]
  /\ cancels = {}
  /\ target = [id \in Ids |-> NULL]
  /\ ticks = {}
  /\ count = [i \in Ticks |-> 0]
  /\ sent = [i \in Ticks |-> <<>>]
  /\ mutex = NULL
  /\ pc = [t \in Threads |-> "idle"]
  /\ toks = [t \in Threads |-> {}]
  /\ rest = [t \in Threads |-> <<>>]
  /\ entries = [t \in Threads |-> {}]
  /\ todo = [t \in Threads |-> {}]
  /\ hit = [t \in Threads |-> FALSE]
  /\ result = [t \in Threads |-> "none"]
  /\ spent = [t \in Threads |-> FALSE]
  /\ panics = 0
----------------------------------------------------------------------------
(* create_cancel_token *)
CreateToken(k) ==
  /\ token[k] = "none"
  /\ token' = [token EXCEPT ![k] = "live"]
  /\ UNCHANGED <<flag, cancels, target, tickVars, callVars, panics>>

(* cancel_operation: one atomic store, no mutex, at any moment. *)
CancelOperation(k) ==
  /\ token[k] = "live"
  /\ flag' = [flag EXCEPT ![k] = TRUE]
  /\ UNCHANGED <<token, cancels, target, tickVars, callVars, panics>>

(* The last reference to a token is dropped.  The arguments of a running   *)
(* NIF and the Arcs its guard holds are references.                        *)
CollectToken(k) ==
  /\ token[k] = "live"
  /\ \A t \in Threads : k \notin toks[t]
  /\ token' = [token EXCEPT ![k] = "freed"]
  /\ UNCHANGED <<flag, cancels, target, tickVars, callVars, panics>>

(* A NIF is entered with its tokens' flags cloned; the mutex comes next.   *)
Call(t, list) ==
  /\ pc[t] = "idle"
  /\ \A k \in Range(list) : token[k] = "live"
  /\ pc' = [pc EXCEPT ![t] = "wait"]
  /\ toks' = [toks EXCEPT ![t] = Range(list)]
  /\ rest' = [rest EXCEPT ![t] = list]
  /\ spent' = [spent EXCEPT ![t] = \E k \in Range(list) : flag[k]]
  /\ UNCHANGED <<tokenVars, cancels, target, tickVars, mutex, entries, todo, hit, result, panics>>

Acquire(t) ==
  /\ pc[t] = "wait" /\ mutex = NULL
  /\ mutex' = t
  /\ pc' = [pc EXCEPT ![t] = "guard"]
  /\ UNCHANGED <<tokenVars, cancels, target, tickVars, toks, rest, entries, todo, hit, result, spent, panics>>

(* ProgressHandlerGuard::new registers the tokens one by one ... *)
GuardRegister(t) ==
  /\ pc[t] = "guard" /\ rest[t] # <<>>
  /\ \E id \in Ids \ cancels :
       /\ cancels' = cancels \cup {id}
       /\ target' = [target EXCEPT ![id] = Head(rest[t])]
       /\ entries' = [entries EXCEPT ![t] = @ \cup {id}]
  /\ rest' = [rest EXCEPT ![t] = Tail(@)]
  /\ UNCHANGED <<tokenVars, tickVars, mutex, pc, toks, todo, hit, result, spent, panics>>

(* ... and only then does the statement start. *)
Run(t) ==
  /\ pc[t] = "guard" /\ rest[t] = <<>>
  /\ pc' = [pc EXCEPT ![t] = "run"]
  /\ UNCHANGED <<tokenVars, cancels, target, tickVars, mutex, toks, rest, entries, todo, hit, result, spent, panics>>

(* The statement ends before the next callback, or never prepared.         *)
Finish(t, outcome) ==
  /\ pc[t] = "run"
  /\ result' = [result EXCEPT ![t] = outcome]
  /\ pc' = [pc EXCEPT ![t] = "drop"]
  /\ UNCHANGED <<tokenVars, cancels, target, tickVars, mutex, toks, rest, entries, todo, hit, spent, panics>>

(* progress_dispatch_callback: the cancel pass takes a snapshot ... *)
Fire(t) ==
  /\ pc[t] = "run"
  /\ \A i \in ticks : count[i] < MaxFires
  /\ todo' = [todo EXCEPT ![t] = cancels]
  /\ hit' = [hit EXCEPT ![t] = FALSE]
  /\ pc' = [pc EXCEPT ![t] = "check"]
  /\ UNCHANGED <<tokenVars, cancels, target, tickVars, mutex, toks, rest, entries, result, spent, panics>>

(* ... and looks at every flag, with no early exit. *)
CheckOne_last(t) ==
  /\ pc[t] = "check"
  /\ \E id \in todo[t] :
       /\ todo' = [todo EXCEPT ![t] = @ \ {id}]
       /\ hit' = [hit EXCEPT ![t] = flag[target[id]]]
  /\ UNCHANGED <<tokenVars, cancels, target, tickVars, mutex, pc, toks, rest, entries, result, spent, panics>>

CheckOne(t) ==
  /\ pc[t] = "check"
  /\ \E id \in todo[t] :
       /\ todo' = [todo EXCEPT ![t] = @ \ {id}]
       /\ hit' = [hit EXCEPT ![t] = @ \/ flag[target[id]]]
  /\ UNCHANGED <<tokenVars, cancels, target, tickVars, mutex, pc, toks, rest, entries, result, spent, panics>>

(* A panic in the body is caught: guard_ffi_callback returns the fallback  *)
(* 0, the statement goes on.                                               *)
Panic(t) ==
  /\ pc[t] = "check" /\ panics < MaxPanics
  /\ panics' = panics + 1
  /\ todo' = [todo EXCEPT ![t] = {}]
  /\ hit' = [hit EXCEPT ![t] = FALSE]
  /\ pc' = [pc EXCEPT ![t] = "run"]
  /\ UNCHANGED <<tokenVars, cancels, target, tickVars, mutex, toks, rest, entries, result, spent>>

(* Return 1: SQLite abandons the statement with SQLITE_INTERRUPT, which is *)
(* reported as operation_cancelled.  The ticks are not counted.            *)
Interrupt(t) ==
  /\ pc[t] = "check" /\ todo[t] = {} /\ hit[t]
  /\ result' = [result EXCEPT ![t] = "cancelled"]
  /\ hit' = [hit EXCEPT ![t] = FALSE]
  /\ pc' = [pc EXCEPT ![t] = "drop"]
  /\ UNCHANGED <<tokenVars, cancels, target, tickVars, mutex, toks, rest, entries, todo, spent, panics>>

(* Return 0 after the tick pass: n = count.fetch_add(1), a message with n  *)
(* when n is a multiple of every_n (send_tick_to_pid).                     *)
TickPass(t) ==
  /\ pc[t] = "check" /\ todo[t] = {} /\ ~hit[t]
  /\ count' = [i \in Ticks |-> IF i \in ticks THEN count[i] + 1 ELSE count[i]]
  /\ sent' = [i \in Ticks |-> IF i \in ticks /\ count[i] % Every[i] = 0
                              THEN Append(sent[i], count[i]) ELSE sent[i]]
  /\ pc' = [pc EXCEPT ![t] = "run"]
  /\ UNCHANGED <<tokenVars, cancels, target, ticks, mutex, toks, rest, entries, todo, hit, result, spent, panics>>

(* Drop for ProgressHandlerGuard: unregister one entry after the other.    *)
GuardDrop_forgets(t) ==
  /\ pc[t] = "drop"
  /\ \E id \in entries[t] :
       /\ entries' = [entries EXCEPT ![t] = {}]
       /\ cancels' = cancels \ {id}
  /\ UNCHANGED <<tokenVars, target, tickVars, mutex, pc, toks, rest, todo, hit, result, spent, panics>>

GuardDrop_lateToken(t) ==
  /\ pc[t] = "drop"
  /\ entries' = [entries EXCEPT ![t] = {}]
  /\ UNCHANGED <<tokenVars, cancels, target, tickVars, mutex, pc, toks, rest, todo, hit, result, spent, panics>>

GuardDrop(t) ==
  /\ pc[t] = "drop"
  /\ \E id \in entries[t] :
       /\ entries' = [entries EXCEPT ![t] = @ \ {id}]
       /\ cancels' = cancels \ {id}
  /\ UNCHANGED <<tokenVars, target, tickVars, mutex, pc, toks, rest, todo, hit, result, spent, panics>>

(* The guard is gone; the mutex is released and the NIF returns. *)
Return(t) ==
  /\ pc[t] = "drop" /\ entries[t] = {}
  /\ mutex' = NULL
  /\ pc' = [pc EXCEPT ![t] = "idle"]
  /\ toks' = [toks EXCEPT ![t] = {}]
  /\ result' = [result EXCEPT ![t] = "none"]
  /\ spent' = [spent EXCEPT ![t] = FALSE]
  /\ UNCHANGED <<tokenVars, cancels, target, tickVars, rest, entries, todo, hit, panics>>

(* register_progress_hook: the list is rebuilt from clones, and a clone    *)
(* shares the counter of its original.                                     *)
RegisterTick_copies(i) ==
  /\ mutex = NULL /\ i \notin ticks
  /\ ticks' = ticks \cup {i}
  /\ count' = [j \in Ticks |-> 0]
  /\ sent' = [sent EXCEPT ![i] = <<>>]
  /\ UNCHANGED <<tokenVars, cancels, target, callVars, panics>>

RegisterTick(i) ==
  /\ mutex = NULL /\ i \notin ticks
  /\ ticks' = ticks \cup {i}
  /\ count' = [count EXCEPT ![i] = 0]
  /\ sent' = [sent EXCEPT ![i] = <<>>]
  /\ UNCHANGED <<tokenVars, cancels, target, callVars, panics>>

UnregisterTick(i) ==
  /\ mutex = NULL
  /\ ticks' = ticks \ {i}
  /\ UNCHANGED <<tokenVars, cancels, target, count, sent, callVars, panics>>

Step(t) ==
  \/ \E list \in TokenLists : Call(t, list)
  \/ Acquire(t) \/ GuardRegister(t) \/ Run(t)
  \/ \E outcome \in {"ok", "error"} : Finish(t, outcome)
  \/ Fire(t) \/ CheckOne(t) \/ Panic(t) \/ Interrupt(t) \/ TickPass(t)
  \/ GuardDrop(t) \/ Return(t)

Next ==
  \/ \E t \in Threads : Step(t)
  \/ \E k \in Tokens : CreateToken(k) \/ CancelOperation(k) \/ CollectToken(k)
  \/ \E i \in Ticks : RegisterTick(i) \/ UnregisterTick(i)

Spec == Init /\ [][Next]_vars

(* A thread that runs a statement goes on running it: SQLite keeps calling *)
(* back every PROGRESS_NUM_OPS instructions and a callback runs to its end.*)
(* Nothing is assumed about statements ending by themselves.               *)
FairSpec ==
  /\ Spec
  /\ \A t \in Threads :
       /\ WF_vars(GuardRegister(t)) /\ WF_vars(Run(t))
       /\ WF_vars(Fire(t)) /\ WF_vars(CheckOne(t))
       /\ WF_vars(Interrupt(t)) /\ WF_vars(TickPass(t))
       /\ WF_vars(GuardDrop(t)) /\ WF_vars(Return(t))
----------------------------------------------------------------------------
(* The shape of the state. *)
TypeOK ==
  /\ token \in [Tokens -> {"none", "live", "freed"}]
  /\ flag \in [Tokens -> BOOLEAN]
  /\ cancels \in SUBSET Ids
  /\ target \in [Ids -> Tokens \cup {NULL}]
  /\ ticks \in SUBSET Ticks
  /\ count \in [Ticks -> 0..MaxFires]
  /\ sent \in [Ticks -> Seq(Nat)]
  /\ mutex \in Threads \cup {NULL}
  /\ pc \in [Threads -> {"idle", "wait", "guard", "run", "check", "drop"}]
  /\ toks \in [Threads -> SUBSET Tokens]
  /\ rest \in [Threads -> Seq(Tokens)]
  /\ entries \in [Threads -> SUBSET Ids]
  /\ todo \in [Threads -> SUBSET Ids]
  /\ hit \in [Threads -> BOOLEAN]
  /\ result \in [Threads -> {"none", "ok", "error", "cancelled"}]
  /\ spent \in [Threads -> BOOLEAN]
  /\ panics \in 0..MaxPanics

(* The callback never reads the flag of a token that is gone: every raw    *)
(* pointer reachable from the dispatch is one of a live token, however     *)
(* cancellations, garbage collection and returning calls interleave.       *)
FlagsAlive == \A id \in cancels : target[id] \in Tokens /\ token[target[id]] = "live"

(* A guard removes exactly what it registered: the registered subscribers  *)
(* are always those of the calls in progress, and only the call that holds *)
(* the mutex has any, so nothing of a call outlives it and a callback sees *)
(* only the tokens of the statement it runs for.                           *)
GuardScoped ==
  /\ cancels = UNION {entries[t] : t \in Threads}
  /\ \A t \in Threads : entries[t] # {} => mutex = t /\ pc[t] \in {"guard", "run", "check", "drop"}

(* A call is interrupted only by one of its own tokens: no token of an     *)
(* earlier or a concurrent call can cancel it.                             *)
OwnTokensOnly ==
  \A t \in Threads : result[t] = "cancelled" => \E k \in toks[t] : flag[k]

(* A progress subscriber gets the counts 0, n, 2n, ... of its own every_n, *)
(* none skipped and none repeated, whoever else registers, unregisters or  *)
(* cancels in between: rebuilding the list keeps the counters.             *)
TickCadence ==
  \A i \in ticks :
    sent[i] = [m \in 1..((count[i] + Every[i] - 1) \div Every[i]) |-> (m - 1) * Every[i]]

(* Once one of its tokens is signalled, a running statement is stopped,    *)
(* even one that would never end by itself: the flag is looked at on every *)
(* callback, and a caught panic only delays it to the next one.            *)
CancelStops ==
  \A t \in Threads, k \in Tokens :
    (pc[t] \in {"run", "check"} /\ k \in toks[t] /\ flag[k]) ~> (pc[t] = "drop")

(* A token stays signalled, so a call that starts with a spent token gets  *)
(* past no callback: the first one that completes interrupts it.  (It may  *)
(* still end before its first callback.)                                   *)
SpentTokenInterrupts ==
  [][\A t \in Threads :
       (spent[t] /\ pc[t] = "check" /\ pc'[t] = "run") => panics' # panics]_vars

(* The dispatch is sound: it holds pointers to live flags only, those of   *)
(* the call in progress, and a call is interrupted by its own tokens only  *)
(* (ProgressHandlerGuard, the dispatch callback).                          *)
DispatchSound == TypeOK /\ FlagsAlive /\ GuardScoped /\ OwnTokensOnly
=============================================================================
