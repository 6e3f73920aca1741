------------------------------ MODULE BusySlot ------------------------------
(***************************************************************************)
(* The busy slot of a connection: one C callback that serves a retry       *)
(* policy and any number of observers.  The slot is a raw pointer to a     *)
(* boxed state; SQLite holds a copy of that pointer as the argument of its *)
(* busy handler.  Every change boxes a new state, registers it with SQLite *)
(* and frees the old box.  PRAGMA busy_timeout replaces SQLite's copy and  *)
(* leaves the slot alone.                                                  *)
(*                                                                         *)
(* All operations hold the connection mutex, so each is one step.  A busy  *)
(* event (SQLite meets a locked database inside some call) holds it from   *)
(* its first callback to the last.  Xqlite.busy_timeout/2 is two NIF calls *)
(* and lets others in between.                                             *)
(***************************************************************************)
EXTENDS Integers

CONSTANTS
    Procs,       \* processes that use the connection
    Boxes,       \* addresses of heap allocations
    MaxRetries,  \* largest max_retries of a policy
    MaxElapsed,  \* largest max_elapsed_ms of a policy, in ticks of the clock
    MaxHandle,   \* bound on the handles given out since the slot was empty
    Repeat,      \* processes may unregister a handle a second time
    None         \* null pointer, no policy, no event

VARIABLES
    conn,     \* the Option<Connection> is Some
    connRes,  \* the XqliteConn resource: "alive", "dropping", "gone"
    handler,  \* SQLite's busy handler: "none", "builtin", or ours with a box
    slot,     \* XqliteConn.busy_handler: a box, or null
    box,      \* the heap: each box's BusySlotState, or None when free
    event,    \* the retry count of the busy event in progress, or None
    helper,   \* where each process is in Xqlite.busy_timeout/2
    mine,     \* the handles each process registered and not yet unregistered
    spent     \* the handles it unregistered

heapVars == <<handler, slot, box>>
procVars == <<helper, mine, spent>>
vars == <<conn, connRes, heapVars, event, procVars>>

Policies == [retries : 0..MaxRetries, elapsed : 0..MaxElapsed]
Handles == 0..(MaxHandle - 1)

(* BusySlotState; age is the time since start, and stops counting once it  *)
(* reaches the largest budget.                                             *)
States == [policy : Policies \cup {None}, observers : SUBSET (Handles \X Procs),
           next : 0..MaxHandle, age : 0..MaxElapsed]

ASSUME BusyAssumption ==
    /\ MaxRetries \in Nat /\ MaxElapsed \in Nat /\ MaxHandle \in Nat
    /\ Repeat \in BOOLEAN
    /\ None \notin Boxes \cup Procs \cup Nat \cup States
    /\ "none" \notin Boxes /\ "builtin" \notin Boxes

EmptyState == [policy |-> None, observers |-> {}, next |-> 0, age |-> 0]

(* One type invariant. *)
TypeOK ==
    /\ conn \in BOOLEAN
    /\ connRes \in {"alive", "dropping", "gone"}
    /\ handler \in {"none", "builtin"} \cup Boxes
    /\ slot \in Boxes \cup {None}
    /\ box \in [Boxes -> States \cup {None}]
    /\ event \in 0..MaxRetries \cup {None}
    /\ helper \in [Procs -> {"idle", "pragma"}]
    /\ mine \in [Procs -> SUBSET Handles]
    /\ spent \in [Procs -> SUBSET Handles]

(* rusqlite opens every connection with a busy timeout of five seconds. *)
Init ==
    /\ conn = TRUE
    /\ connRes = "alive"
    /\ handler = "builtin"
    /\ slot = None
    /\ box = [b \in Boxes |-> None]
    /\ event = None
    /\ helper = [p \in Procs |-> "idle"]
    /\ mine = [p \in Procs |-> {}]
    /\ spent = [p \in Procs |-> {}]

-----------------------------------------------------------------------------
(* The slot. *)

(* with_conn: the mutex is free and the connection open. *)
WithConn == conn /\ connRes = "alive" /\ event = None

(* A copy of the current state, or a fresh one. *)
Snapshot == IF slot = None THEN EmptyState ELSE box[slot]

Empty(s) == s.policy = None /\ s.observers = {}

(* Mutants: the predecessor's box is not reclaimed; a box that is already  *)
(* there is overwritten without telling SQLite.                            *)
InstallHook_inPlace(s, ok) ==
    \E b \in {c \in Boxes : box[c] = None} :
        IF ok
        THEN LET a == IF slot = None THEN b ELSE slot IN
             /\ handler' = IF slot = None THEN a ELSE handler
             /\ slot' = a
             /\ box' = [box EXCEPT ![a] = s]
        ELSE UNCHANGED heapVars

InstallHook_leaks(s, ok) ==
    \E b \in {c \in Boxes : box[c] = None} :
        IF ok
        THEN handler' = b /\ slot' = b /\ box' = [box EXCEPT ![b] = s]
        ELSE UNCHANGED heapVars

(* install_hook and uninstall_hook: SQLite is told first, the old box is   *)
(* freed last.  ok is SQLite's answer; on an error the slot is untouched   *)
(* and a new box is reclaimed.                                             *)
InstallHook(s, ok) ==
    \E b \in {c \in Boxes : box[c] = None} :
        IF ok
        THEN /\ handler' = b
             /\ slot' = b
             /\ box' = [c \in Boxes |-> IF c = b THEN s
                                        ELSE IF c = slot THEN None ELSE box[c]]
        ELSE UNCHANGED heapVars

(* Mutant: the slot is emptied but SQLite keeps its pointer. *)
UninstallHook_slotOnly(ok) ==
    IF ok
    THEN /\ slot' = None
         /\ box' = [c \in Boxes |-> IF c = slot THEN None ELSE box[c]]
         /\ UNCHANGED handler
    ELSE UNCHANGED heapVars

UninstallHook(ok) ==
    IF ok
    THEN /\ handler' = "none"
         /\ slot' = None
         /\ box' = [c \in Boxes |-> IF c = slot THEN None ELSE box[c]]
    ELSE UNCHANGED heapVars

SwapIn(s, ok) == IF Empty(s) THEN UninstallHook(ok) ELSE InstallHook(s, ok)

(* Mutant: the two limits are passed in the wrong order. *)
SetPolicy_swapped(p) ==
    /\ WithConn /\ helper[p] = "idle"
    /\ \E pol \in Policies, ok \in BOOLEAN :
        SwapIn([Snapshot EXCEPT !.policy =
                  [retries |-> pol.elapsed, elapsed |-> pol.retries]], ok)
    /\ UNCHANGED <<conn, connRes, event, procVars>>

SetPolicy(p) ==
    /\ WithConn /\ helper[p] = "idle"
    /\ \E pol \in Policies, ok \in BOOLEAN :
        SwapIn([Snapshot EXCEPT !.policy = pol], ok)
    /\ UNCHANGED <<conn, connRes, event, procVars>>

(* Mutant: removing the policy removes everything. *)
RemovePolicy_clears(p) ==
    /\ WithConn /\ helper[p] = "idle"
    /\ \E ok \in BOOLEAN : SwapIn(EmptyState, ok)
    /\ UNCHANGED <<conn, connRes, event, procVars>>

RemovePolicy(p) ==
    /\ WithConn /\ helper[p] = "idle"
    /\ \E ok \in BOOLEAN : SwapIn([Snapshot EXCEPT !.policy = None], ok)
    /\ UNCHANGED <<conn, connRes, event, procVars>>

(* The handle is the caller's only if SQLite accepted the new state. *)
RegisterObserver(p) ==
    LET s == Snapshot IN
    /\ WithConn /\ helper[p] = "idle"
    /\ s.next < MaxHandle
    /\ \E ok \in BOOLEAN :
        /\ SwapIn([s EXCEPT !.observers = @ \cup {<<s.next, p>>},
                            !.next = @ + 1], ok)
        /\ mine' = [mine EXCEPT ![p] = IF ok THEN @ \cup {s.next} ELSE @]
    /\ UNCHANGED <<conn, connRes, event, helper, spent>>

UnregisterObserver(p, h) ==
    LET s == Snapshot IN
    /\ WithConn /\ helper[p] = "idle"
    /\ h \in mine[p] \cup spent[p]
    /\ \E ok \in BOOLEAN :
        /\ SwapIn([s EXCEPT !.observers = {o \in @ : o[1] # h}], ok)
        /\ mine' = [mine EXCEPT ![p] = IF ok THEN @ \ {h} ELSE @]
        /\ spent' = [spent EXCEPT ![p] = IF ok /\ Repeat THEN @ \cup {h} ELSE @]
    /\ UNCHANGED <<conn, connRes, event, helper>>

-----------------------------------------------------------------------------
(* PRAGMA busy_timeout. *)

(* sqlite3_busy_timeout: SQLite's own handler, or none for 0. *)
SqliteTimeout == handler' \in {"builtin", "none"} /\ UNCHANGED <<slot, box>>

(* As SQL, or through set_pragma. *)
RawPragma(p) ==
    /\ WithConn /\ helper[p] = "idle"
    /\ SqliteTimeout
    /\ UNCHANGED <<conn, connRes, event, procVars>>

(* Xqlite.busy_timeout/2: remove_busy_policy, then set_pragma. *)
TimeoutRemove(p) ==
    /\ WithConn /\ helper[p] = "idle"
    /\ \E ok \in BOOLEAN :
        /\ SwapIn([Snapshot EXCEPT !.policy = None], ok)
        /\ helper' = [helper EXCEPT ![p] = IF ok THEN "pragma" ELSE "idle"]
    /\ UNCHANGED <<conn, connRes, event, mine, spent>>

TimeoutPragma(p) ==
    /\ helper[p] = "pragma" /\ event = None
    /\ helper' = [helper EXCEPT ![p] = "idle"]
    /\ IF conn THEN SqliteTimeout ELSE UNCHANGED heapVars
    /\ UNCHANGED <<conn, connRes, event, mine, spent>>

-----------------------------------------------------------------------------
(* Busy events. *)

(* A call of SQLite meets a locked database while our handler is set. *)
BusyBegin ==
    /\ WithConn /\ handler \in Boxes
    /\ event' = 0
    /\ UNCHANGED <<conn, connRes, heapVars, procVars>>

(* Mutants: the retry limit is off by one; the clock runs from the slot's  *)
(* installation; SQLite's count is ignored.                                *)
BusyCallback_oneMore ==
    LET s == box[handler]
        age == IF event = 0 THEN 0 ELSE s.age
        giveUp == s.policy = None \/ event > s.policy.retries \/ age >= s.policy.elapsed
    IN
    /\ event # None
    /\ box' = [box EXCEPT ![handler].age = age]
    /\ event' = IF giveUp THEN None ELSE event + 1
    /\ UNCHANGED <<conn, connRes, handler, slot, procVars>>

BusyCallback_oldClock ==
    LET s == box[handler]
        giveUp == s.policy = None \/ event >= s.policy.retries \/ s.age >= s.policy.elapsed
    IN
    /\ event # None
    /\ event' = IF giveUp THEN None ELSE event + 1
    /\ UNCHANGED <<conn, connRes, heapVars, procVars>>

BusyCallback_uncounted ==
    LET s == box[handler]
        age == IF event = 0 THEN 0 ELSE s.age
    IN
    /\ event # None
    /\ box' = [box EXCEPT ![handler].age = age]
    /\ event' = IF s.policy = None \/ age >= s.policy.elapsed THEN None ELSE 1
    /\ UNCHANGED <<conn, connRes, handler, slot, procVars>>

(* busy_callback: restart the clock at count 0, then retry or give up. *)
BusyCallback ==
    LET s == box[handler]
        age == IF event = 0 THEN 0 ELSE s.age
        giveUp == \/ s.policy = None
                  \/ event >= s.policy.retries
                  \/ age >= s.policy.elapsed
    IN
    /\ event # None
    /\ box' = [box EXCEPT ![handler].age = age]
    /\ event' = IF giveUp THEN None ELSE event + 1
    /\ UNCHANGED <<conn, connRes, handler, slot, procVars>>

(* A retry finds the database unlocked. *)
BusyResolved ==
    /\ event # None /\ event > 0
    /\ event' = None
    /\ UNCHANGED <<conn, connRes, heapVars, procVars>>

(* The wall clock. *)
Tick ==
    /\ slot # None /\ box[slot].age < MaxElapsed
    /\ box' = [box EXCEPT ![slot].age = @ + 1]
    /\ UNCHANGED <<conn, connRes, handler, slot, event, procVars>>

-----------------------------------------------------------------------------
(* The end of the connection. *)

(* close_connection: SQLite's connection and its handler go, the slot      *)
(* stays.                                                                  *)
Close ==
    /\ WithConn
    /\ conn' = FALSE
    /\ handler' = "none"
    /\ UNCHANGED <<connRes, slot, box, event, procVars>>

(* XqliteConn's destructor, when no process is left: the body of drop runs *)
(* drop_hook, after it the fields are dropped, the connection first.       *)
DropHook ==
    /\ connRes = "alive" /\ event = None /\ \A p \in Procs : helper[p] = "idle"
    /\ connRes' = "dropping"
    /\ slot' = None
    /\ box' = [c \in Boxes |-> IF c = slot THEN None ELSE box[c]]
    /\ UNCHANGED <<conn, handler, event, procVars>>

DropFields ==
    /\ connRes = "dropping"
    /\ connRes' = "gone"
    /\ conn' = FALSE
    /\ handler' = "none"
    /\ UNCHANGED <<slot, box, event, procVars>>

-----------------------------------------------------------------------------
Operation(p) ==
    \/ SetPolicy(p) \/ RemovePolicy(p)
    \/ RegisterObserver(p) \/ \E h \in Handles : UnregisterObserver(p, h)
    \/ RawPragma(p) \/ TimeoutRemove(p) \/ TimeoutPragma(p)

Next ==
    \/ \E p \in Procs : Operation(p)
    \/ BusyBegin \/ BusyCallback \/ BusyResolved \/ Tick
    \/ Close \/ DropHook \/ DropFields

Spec == Init /\ [][Next]_vars

(* SQLite calls the handler again, or stops, as long as it finds the       *)
(* database locked.                                                        *)
FairSpec == Spec /\ WF_vars(BusyCallback)

-----------------------------------------------------------------------------
(* Properties. *)

(* The heap holds exactly the box of the slot: no change of policy or      *)
(* observers, accepted or refused by SQLite, leaks a box or frees one that *)
(* is still in use (install_hook, uninstall_hook, drop_hook).              *)
SlotOwnsItsBox ==
    \A b \in Boxes : box[b] # None <=> b = slot

(* Until the resource's destructor starts, a busy callback finds the box   *)
(* it was registered with, and it is the current one, whatever mix of slot *)
(* operations and PRAGMAs came before (swap_in).                           *)
CallbackReadsCurrentState ==
    connRes = "alive" /\ handler \in Boxes => handler = slot

(* The slot holds exactly the observers that were registered and not       *)
(* unregistered, whatever policies and timeouts came and went:             *)
(* "unregistering one never affects" the others (README.md).               *)
ObserversKept ==
    connRes = "alive" =>
        \A p \in Procs : mine[p] = {h \in Handles : <<h, p>> \in Snapshot.observers}

(* A busy event is retried only under a policy, and never more often than  *)
(* its max_retries: no policy change or leftover of an earlier event can   *)
(* extend it (busy_callback).                                              *)
RetryBudget ==
    event # None /\ event > 0 =>
        Snapshot.policy # None /\ event <= Snapshot.policy.retries

(* The elapsed budget is one event's: time that passed before the event,   *)
(* under this or an earlier state of the slot, never costs it its first    *)
(* retry ("the clock resets at the start of each fresh contention").       *)
FreshClock ==
    [][BusyCallback /\ event = 0
        /\ Snapshot.policy # None
        /\ Snapshot.policy.retries > 0 /\ Snapshot.policy.elapsed > 0
            => event' = 1]_vars

(* A change of the policy or of the observers always takes effect: the     *)
(* state it leaves in the slot is the one SQLite calls back with, even if  *)
(* PRAGMA busy_timeout had taken the handler away before (swap_in).        *)
ChangeTakesEffect ==
    [][<<Snapshot.policy, Snapshot.observers>>' # <<Snapshot.policy, Snapshot.observers>>
        /\ slot' # None => handler' = slot']_vars

(* Every busy event ends: "never an unbounded retry loop" (busy_callback). *)
BusyEventEnds == event # None ~> event = None

(* The busy slot is sound: no box leaks or is freed in use, a busy         *)
(* callback reads the current state, and no event is retried beyond its    *)
(* policy (install_hook, uninstall_hook, swap_in, busy_callback).          *)
SlotSound == TypeOK /\ SlotOwnsItsBox /\ CallbackReadsCurrentState /\ RetryBudget
=============================================================================
