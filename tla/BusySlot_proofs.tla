--------------------------- MODULE BusySlot_proofs ---------------------------
(***************************************************************************)
(* Proofs about BusySlot, for any number of processes, boxes and handles   *)
(* and any limits.  SlotInv is inductive: beside the memory safety of the  *)
(* slot it says that a busy event only runs on a live slot.  ObserverInv   *)
(* is inductive relative to it when no process unregisters a handle twice. *)
(***************************************************************************)
EXTENDS BusySlot, TLAPS

(* A busy event runs only while SQLite calls our handler. *)
EventServed ==
    event # None => connRes = "alive" /\ handler \in Boxes

SlotInv ==
    /\ TypeOK /\ SlotOwnsItsBox /\ CallbackReadsCurrentState
    /\ EventServed /\ RetryBudget

(* Handles are distinct and below the counter. *)
ObserverInv ==
    /\ \A p \in Procs : spent[p] = {}
    /\ \A o \in Snapshot.observers : o[1] < Snapshot.next
    /\ \A o, q \in Snapshot.observers : o[1] = q[1] => o[2] = q[2]
    /\ ObserversKept

(* The snapshot is a well-formed state (snapshot in busy_handler.rs). *)
LEMMA SnapshotType ==
    ASSUME TypeOK, SlotOwnsItsBox
    PROVE  Snapshot \in States
<1>1. CASE slot = None
      BY <1>1, BusyAssumption DEF Snapshot, EmptyState, States, Policies
<1>2. CASE slot \in Boxes
      BY <1>2, BusyAssumption DEF TypeOK, Snapshot, SlotOwnsItsBox
<1> QED BY <1>1, <1>2 DEF TypeOK

(* What a change of the slot does to the heap and to SQLite's handler,     *)
(* accepted or refused (swap_in, install_hook, uninstall_hook).            *)
LEMMA SwapInHeap ==
    ASSUME TypeOK, SlotOwnsItsBox, CallbackReadsCurrentState, connRes = "alive",
           NEW s \in States, NEW ok \in BOOLEAN, SwapIn(s, ok)
    PROVE  /\ handler' \in {"none", "builtin"} \cup Boxes
           /\ slot' \in Boxes \cup {None}
           /\ box' \in [Boxes -> States \cup {None}]
           /\ SlotOwnsItsBox'
           /\ handler' \in Boxes => handler' = slot'
<1> USE BusyAssumption DEF TypeOK, SlotOwnsItsBox, CallbackReadsCurrentState
<1>1. CASE UNCHANGED heapVars
      BY <1>1 DEF heapVars
<1>2. CASE ok /\ Empty(s)
      BY <1>2 DEF SwapIn, UninstallHook
<1>3. CASE ok /\ ~Empty(s)
  <2>1. PICK b \in Boxes :
          /\ box[b] = None
          /\ handler' = b
          /\ slot' = b
          /\ box' = [c \in Boxes |-> IF c = b THEN s
                                     ELSE IF c = slot THEN None ELSE box[c]]
        BY <1>3 DEF SwapIn, InstallHook
  <2> QED BY <2>1
<1> QED BY <1>1, <1>2, <1>3 DEF SwapIn, UninstallHook, InstallHook

(* An accepted change leaves its state in the slot, a refused one nothing. *)
LEMMA SwapInState ==
    ASSUME TypeOK, SlotOwnsItsBox,
           NEW s \in States, NEW ok \in BOOLEAN, SwapIn(s, ok)
    PROVE  \/ ok /\ Snapshot' = s
           \/ ok /\ s.observers = {} /\ Snapshot' = EmptyState
           \/ ~ok /\ Snapshot' = Snapshot
<1> USE BusyAssumption
<1>1. CASE ~ok
      BY <1>1 DEF SwapIn, UninstallHook, InstallHook, heapVars, Snapshot
<1>2. CASE ok /\ Empty(s)
      BY <1>2 DEF SwapIn, UninstallHook, Snapshot, Empty
<1>3. CASE ok /\ ~Empty(s)
  <2>1. PICK b \in Boxes :
          /\ slot' = b
          /\ box' = [c \in Boxes |-> IF c = b THEN s
                                     ELSE IF c = slot THEN None ELSE box[c]]
        BY <1>3, Zenon DEF SwapIn, InstallHook
  <2> QED BY <1>3, <2>1 DEF Snapshot
<1> QED BY <1>1, <1>2, <1>3

(* A new observer under the next handle keeps a state well-formed. *)
LEMMA RegisteredType ==
    ASSUME NEW s \in States, s.next < MaxHandle, NEW p \in Procs
    PROVE  [s EXCEPT !.observers = @ \cup {<<s.next, p>>}, !.next = @ + 1] \in States
<1>1. s.next \in Handles /\ s.next + 1 \in 0..MaxHandle
      BY BusyAssumption DEF States, Handles
<1>2. s.observers \cup {<<s.next, p>>} \in SUBSET (Handles \X Procs)
      BY <1>1 DEF States
<1>3. ASSUME NEW O \in SUBSET (Handles \X Procs), NEW n \in 0..MaxHandle
      PROVE  [s EXCEPT !.observers = O, !.next = n] \in States
      BY Zenon DEF States
<1> QED BY <1>1, <1>2, <1>3, Zenon

(* The slot operations of a process: each is a change of the slot to a     *)
(* well-formed state, with the connection open and no busy event running.  *)
LEMMA ChangeShape ==
    ASSUME TypeOK, SlotOwnsItsBox, NEW p \in Procs,
           \/ SetPolicy(p) \/ RemovePolicy(p) \/ TimeoutRemove(p)
           \/ RegisterObserver(p) \/ \E h \in Handles : UnregisterObserver(p, h)
    PROVE  /\ connRes = "alive" /\ event = None
           /\ UNCHANGED <<conn, connRes, event>>
           /\ \E s \in States, ok \in BOOLEAN : SwapIn(s, ok)
           /\ helper' \in [Procs -> {"idle", "pragma"}]
           /\ mine' \in [Procs -> SUBSET Handles]
           /\ spent' \in [Procs -> SUBSET Handles]
<1> USE BusyAssumption DEF TypeOK, WithConn, procVars
<1>0. Snapshot \in States
      BY SnapshotType
<1>1. CASE SetPolicy(p)
  <2>1. PICK pol \in Policies, ok \in BOOLEAN :
          SwapIn([Snapshot EXCEPT !.policy = pol], ok)
        BY <1>1 DEF SetPolicy
  <2>2. [Snapshot EXCEPT !.policy = pol] \in States
        BY <1>0 DEF States
  <2> QED BY <1>1, <2>1, <2>2 DEF SetPolicy
<1>2. CASE RemovePolicy(p)
  <2>1. [Snapshot EXCEPT !.policy = None] \in States
        BY <1>0 DEF States
  <2> QED BY <1>2, <2>1 DEF RemovePolicy
<1>3. CASE TimeoutRemove(p)
  <2>1. [Snapshot EXCEPT !.policy = None] \in States
        BY <1>0 DEF States
  <2> QED BY <1>3, <2>1 DEF TimeoutRemove
<1>4. CASE RegisterObserver(p)
  <2> DEFINE s == Snapshot
             r == [s EXCEPT !.observers = @ \cup {<<s.next, p>>}, !.next = @ + 1]
  <2>1. s.next \in Handles /\ s.next + 1 \in 0..MaxHandle
        BY <1>0, <1>4 DEF States, RegisterObserver, Handles
  <2>2. r \in States
        BY <1>0, <1>4, RegisteredType, Zenon DEF RegisterObserver
  <2>3. PICK ok \in BOOLEAN :
          /\ SwapIn(r, ok)
          /\ mine' = [mine EXCEPT ![p] = IF ok THEN @ \cup {s.next} ELSE @]
        BY <1>4, Zenon DEF RegisterObserver
  <2>4. mine' \in [Procs -> SUBSET Handles]
        BY <2>1, <2>3
  <2> QED BY <1>4, <2>2, <2>3, <2>4 DEF RegisterObserver
<1>5. ASSUME NEW h \in Handles, UnregisterObserver(p, h)
      PROVE  /\ connRes = "alive" /\ event = None
             /\ UNCHANGED <<conn, connRes, event, helper>>
             /\ \E s \in States, ok \in BOOLEAN : SwapIn(s, ok)
             /\ mine' \in [Procs -> SUBSET Handles]
             /\ spent' \in [Procs -> SUBSET Handles]
  <2> DEFINE s == Snapshot
             r == [s EXCEPT !.observers = {o \in @ : o[1] # h}]
  <2>1. r \in States
        BY <1>0 DEF States
  <2>2. PICK ok \in BOOLEAN :
          /\ SwapIn(r, ok)
          /\ mine' = [mine EXCEPT ![p] = IF ok THEN @ \ {h} ELSE @]
          /\ spent' = [spent EXCEPT ![p] = IF ok /\ Repeat THEN @ \cup {h} ELSE @]
        BY <1>5, Zenon DEF UnregisterObserver
  <2>3. mine' \in [Procs -> SUBSET Handles] /\ spent' \in [Procs -> SUBSET Handles]
        BY <2>2
  <2> QED BY <1>5, <2>1, <2>2, <2>3 DEF UnregisterObserver
<1> QED BY <1>1, <1>2, <1>3, <1>4, <1>5

(* The slot's invariant holds in every connection that was just opened.    *)
LEMMA SlotInit == Init => SlotInv
BY BusyAssumption DEF Init, SlotInv, TypeOK, SlotOwnsItsBox,
   CallbackReadsCurrentState, EventServed, RetryBudget

(* The clock and the callback only touch the age of the state in the slot. *)
LEMMA AgeShape ==
    ASSUME TypeOK, SlotOwnsItsBox, NEW b \in Boxes, b = slot, NEW a \in 0..MaxElapsed,
           box' = [box EXCEPT ![b].age = a], slot' = slot
    PROVE  /\ box' \in [Boxes -> States \cup {None}]
           /\ SlotOwnsItsBox'
           /\ Snapshot'.policy = Snapshot.policy
           /\ Snapshot'.observers = Snapshot.observers
           /\ Snapshot'.next = Snapshot.next
<1> USE BusyAssumption
<1>1. box[b] \in States
      BY DEF TypeOK, SlotOwnsItsBox
<1>2. [box[b] EXCEPT !.age = a] \in States
      BY <1>1 DEF States
<1>3. box' = [c \in Boxes |-> IF c = b THEN [box[b] EXCEPT !.age = a] ELSE box[c]]
      BY Zenon DEF TypeOK
<1>4. box' \in [Boxes -> States \cup {None}] /\ SlotOwnsItsBox'
      BY <1>2, <1>3 DEF TypeOK, SlotOwnsItsBox
<1>5. Snapshot = box[b] /\ Snapshot' = [box[b] EXCEPT !.age = a]
      BY <1>3 DEF Snapshot
<1> QED BY <1>1, <1>4, <1>5 DEF States

(* Every step keeps the slot's invariant. *)
LEMMA SlotStep ==
    ASSUME SlotInv
    PROVE  [Next]_vars => SlotInv'
<1> USE BusyAssumption DEF SlotInv
<1>1. CASE UNCHANGED vars
      BY <1>1 DEF vars, heapVars, procVars, TypeOK, SlotOwnsItsBox, EventServed,
         CallbackReadsCurrentState, RetryBudget, Snapshot
<1>2. ASSUME NEW p \in Procs,
             \/ SetPolicy(p) \/ RemovePolicy(p) \/ TimeoutRemove(p)
             \/ RegisterObserver(p) \/ \E h \in Handles : UnregisterObserver(p, h)
      PROVE  SlotInv'
  <2>1. PICK s \in States, ok \in BOOLEAN : SwapIn(s, ok)
        BY <1>2, ChangeShape
  <2>2. /\ connRes = "alive" /\ event = None
        /\ UNCHANGED <<conn, connRes, event>>
        /\ helper' \in [Procs -> {"idle", "pragma"}]
        /\ mine' \in [Procs -> SUBSET Handles]
        /\ spent' \in [Procs -> SUBSET Handles]
        BY <1>2, ChangeShape
  <2>3. /\ handler' \in {"none", "builtin"} \cup Boxes
        /\ slot' \in Boxes \cup {None}
        /\ box' \in [Boxes -> States \cup {None}]
        /\ SlotOwnsItsBox'
        /\ handler' \in Boxes => handler' = slot'
        BY <2>1, <2>2, SwapInHeap
  <2> QED BY <2>2, <2>3 DEF TypeOK, EventServed, CallbackReadsCurrentState, RetryBudget
<1>3. ASSUME NEW p \in Procs, RawPragma(p) \/ TimeoutPragma(p)
      PROVE  SlotInv'
      BY <1>3 DEF RawPragma, TimeoutPragma, SqliteTimeout, WithConn, heapVars, procVars,
         TypeOK, SlotOwnsItsBox, CallbackReadsCurrentState, EventServed, RetryBudget
<1>4. CASE BusyBegin
      BY <1>4 DEF BusyBegin, WithConn, heapVars, procVars, TypeOK, SlotOwnsItsBox,
         CallbackReadsCurrentState, EventServed, RetryBudget
<1>5. CASE BusyCallback
  <2> DEFINE s == box[handler]
             age == IF event = 0 THEN 0 ELSE s.age
  <2>1. handler \in Boxes /\ handler = slot /\ Snapshot = s /\ s \in States
        BY <1>5, SnapshotType DEF BusyCallback, EventServed, CallbackReadsCurrentState,
           Snapshot
  <2>2. age \in 0..MaxElapsed
        BY <2>1 DEF States
  <2>3. /\ box' \in [Boxes -> States \cup {None}]
        /\ SlotOwnsItsBox'
        /\ Snapshot'.policy = Snapshot.policy
        BY <1>5, <2>1, <2>2, AgeShape, Zenon DEF BusyCallback
  <2>4. \/ event' = None
        \/ /\ event' = event + 1
           /\ Snapshot.policy # None /\ event < Snapshot.policy.retries
    <3>1. \/ event' = None
          \/ /\ event' = event + 1
             /\ s.policy # None /\ ~(event >= s.policy.retries)
          BY <1>5 DEF BusyCallback
    <3>2. s.policy # None => s.policy.retries \in 0..MaxRetries
          BY <2>1 DEF States, Policies
    <3>3. event \in 0..MaxRetries
          BY <1>5 DEF BusyCallback, TypeOK
    <3> QED BY <2>1, <3>1, <3>2, <3>3
  <2>5. Snapshot.policy # None => Snapshot.policy.retries \in 0..MaxRetries
        BY <2>1 DEF States, Policies
  <2>6. event \in 0..MaxRetries
        BY <1>5 DEF BusyCallback, TypeOK
  <2>7. event' \in 0..MaxRetries \cup {None} /\ RetryBudget'
        BY <2>3, <2>4, <2>5, <2>6 DEF RetryBudget
  <2>8. UNCHANGED <<conn, connRes, handler, slot, helper, mine, spent>>
        BY <1>5 DEF BusyCallback, procVars
  <2>9. TypeOK'
        BY <2>3, <2>7, <2>8 DEF TypeOK
  <2> QED BY <1>5, <2>3, <2>7, <2>8, <2>9 DEF BusyCallback, EventServed,
         CallbackReadsCurrentState
<1>6. CASE BusyResolved
      BY <1>6 DEF BusyResolved, heapVars, procVars, TypeOK, SlotOwnsItsBox,
         CallbackReadsCurrentState, EventServed, RetryBudget
<1>7. CASE Tick
  <2>1. slot \in Boxes /\ box[slot] \in States
        BY <1>7 DEF Tick, TypeOK, SlotOwnsItsBox
  <2>2. box[slot].age + 1 \in 0..MaxElapsed
        BY <1>7, <2>1 DEF Tick, States
  <2>3. /\ box' \in [Boxes -> States \cup {None}]
        /\ SlotOwnsItsBox'
        /\ Snapshot'.policy = Snapshot.policy
        BY <1>7, <2>1, <2>2, AgeShape, Zenon DEF Tick
  <2>4. UNCHANGED <<conn, connRes, handler, slot, event, helper, mine, spent>>
        BY <1>7 DEF Tick, procVars
  <2>5. TypeOK'
        BY <2>3, <2>4 DEF TypeOK
  <2> QED BY <2>3, <2>4, <2>5 DEF EventServed, CallbackReadsCurrentState, RetryBudget
<1>8. CASE Close
      BY <1>8, Zenon DEF Close, WithConn, procVars, TypeOK, SlotOwnsItsBox,
         CallbackReadsCurrentState, EventServed, RetryBudget
<1>9. CASE DropHook
      BY <1>9 DEF DropHook, procVars, TypeOK, SlotOwnsItsBox,
         CallbackReadsCurrentState, EventServed, RetryBudget
<1>10. CASE DropFields
      BY <1>10, Zenon DEF DropFields, procVars, TypeOK, SlotOwnsItsBox,
         CallbackReadsCurrentState, EventServed, RetryBudget
<1> QED BY <1>1, <1>2, <1>3, <1>4, <1>5, <1>6, <1>7, <1>8, <1>9, <1>10
        DEF Next, Operation

(* However processes change the policy, the observers and the timeout, and *)
(* whatever SQLite refuses, the slot leaks no box and frees none in use, a *)
(* busy callback reads the current state, and no event is retried beyond   *)
(* its policy (install_hook, uninstall_hook, swap_in, busy_callback).      *)
THEOREM SlotSafe == Spec => []SlotSound
<1>1. SlotInv /\ [Next]_vars => SlotInv'
      BY SlotStep
<1>2. SlotInv => SlotSound
      BY DEF SlotInv, SlotSound
<1> QED BY SlotInit, <1>1, <1>2, PTL DEF Spec

(* The observers after an accepted, an emptying or a refused change. *)
LEMMA ObserversAfter ==
    ASSUME SlotInv, ObserverInv, NEW s \in States, NEW ok \in BOOLEAN, SwapIn(s, ok)
    PROVE  \/ ok /\ Snapshot'.observers = s.observers /\ s.observers = {}
           \/ ok /\ Snapshot' = s
           \/ ~ok /\ Snapshot' = Snapshot
<1>1. EmptyState.observers = {}
      BY DEF EmptyState
<1> QED BY <1>1, SwapInState DEF SlotInv

(* A change that leaves the observers of the snapshot alone. *)
LEMMA ObserversUntouched ==
    ASSUME SlotInv, ObserverInv, NEW s \in States, NEW ok \in BOOLEAN, SwapIn(s, ok),
           s.observers = Snapshot.observers, s.next = Snapshot.next,
           UNCHANGED <<connRes, mine, spent>>, connRes = "alive"
    PROVE  ObserverInv'
<1>1. CASE ok /\ Snapshot'.observers = s.observers /\ s.observers = {}
      BY <1>1 DEF ObserverInv, ObserversKept
<1>2. CASE ok /\ Snapshot' = s
      BY <1>2 DEF ObserverInv, ObserversKept
<1>3. CASE ~ok /\ Snapshot' = Snapshot
      BY <1>3 DEF ObserverInv, ObserversKept
<1> QED BY <1>1, <1>2, <1>3, ObserversAfter

(* Every step keeps the observers' invariant, if handles are not reused.   *)
LEMMA ObserverStep ==
    ASSUME ~Repeat, SlotInv, ObserverInv
    PROVE  [Next]_vars => ObserverInv'
<1> USE BusyAssumption
<1>0. Snapshot \in States
      BY SnapshotType DEF SlotInv
<1>1. ASSUME UNCHANGED <<connRes, mine, spent>>, Snapshot' = Snapshot
      PROVE  ObserverInv'
      BY <1>1 DEF ObserverInv, ObserversKept
<1>2. CASE UNCHANGED vars
      BY <1>1, <1>2 DEF vars, heapVars, procVars, Snapshot
<1>3. ASSUME NEW p \in Procs, SetPolicy(p)
      PROVE  ObserverInv'
  <2>1. PICK pol \in Policies, ok \in BOOLEAN :
          SwapIn([Snapshot EXCEPT !.policy = pol], ok)
        BY <1>3 DEF SetPolicy
  <2> DEFINE r == [Snapshot EXCEPT !.policy = pol]
  <2>2. r \in States /\ r.observers = Snapshot.observers /\ r.next = Snapshot.next
        BY <1>0 DEF States
  <2> QED BY <1>3, <2>1, <2>2, ObserversUntouched, Zenon DEF SetPolicy, WithConn, procVars
<1>4. ASSUME NEW p \in Procs, RemovePolicy(p) \/ TimeoutRemove(p)
      PROVE  ObserverInv'
  <2> DEFINE r == [Snapshot EXCEPT !.policy = None]
  <2>1. PICK ok \in BOOLEAN : SwapIn(r, ok)
        BY <1>4 DEF RemovePolicy, TimeoutRemove
  <2>2. r \in States /\ r.observers = Snapshot.observers /\ r.next = Snapshot.next
        BY <1>0 DEF States
  <2>3. UNCHANGED <<connRes, mine, spent>> /\ connRes = "alive"
        BY <1>4 DEF RemovePolicy, TimeoutRemove, WithConn, procVars
  <2> HIDE DEF r
  <2> QED BY <2>1, <2>2, <2>3, ObserversUntouched
<1>5. ASSUME NEW p \in Procs, RawPragma(p) \/ TimeoutPragma(p)
      PROVE  ObserverInv'
      BY <1>1, <1>5 DEF RawPragma, TimeoutPragma, SqliteTimeout, heapVars, procVars, Snapshot
<1>6. CASE BusyBegin \/ BusyResolved \/ Close
      BY <1>1, <1>6 DEF BusyBegin, BusyResolved, Close, heapVars, procVars, Snapshot
<1>7. CASE BusyCallback
  <2> DEFINE s == box[handler]
             age == IF event = 0 THEN 0 ELSE s.age
  <2>1. handler \in Boxes /\ handler = slot /\ Snapshot = s
        BY <1>7 DEF SlotInv, BusyCallback, EventServed, CallbackReadsCurrentState, Snapshot
  <2>2. age \in 0..MaxElapsed
        BY <1>0, <2>1 DEF States
  <2>3. /\ Snapshot'.observers = Snapshot.observers
        /\ Snapshot'.next = Snapshot.next
        BY <1>7, <2>1, <2>2, AgeShape, Zenon DEF SlotInv, BusyCallback
  <2> QED BY <1>7, <2>3 DEF BusyCallback, procVars, ObserverInv, ObserversKept
<1>8. CASE Tick
  <2>1. slot \in Boxes /\ Snapshot = box[slot]
        BY <1>8 DEF Tick, SlotInv, TypeOK, Snapshot
  <2>2. box[slot].age + 1 \in 0..MaxElapsed
        BY <1>0, <1>8, <2>1 DEF Tick, States
  <2>3. /\ Snapshot'.observers = Snapshot.observers
        /\ Snapshot'.next = Snapshot.next
        BY <1>8, <2>1, <2>2, AgeShape, Zenon DEF SlotInv, Tick
  <2> QED BY <1>8, <2>3 DEF Tick, procVars, ObserverInv, ObserversKept
<1>9. CASE DropHook
  <2>1. Snapshot'.observers = {} /\ connRes' # "alive" /\ spent' = spent
        BY <1>9 DEF DropHook, Snapshot, EmptyState, procVars
  <2> QED BY <2>1 DEF ObserverInv, ObserversKept
<1>10. CASE DropFields
  <2>1. Snapshot' = Snapshot /\ connRes' # "alive" /\ spent' = spent
        BY <1>10 DEF DropFields, Snapshot, procVars
  <2> QED BY <2>1 DEF ObserverInv, ObserversKept
<1>11. ASSUME NEW p \in Procs, RegisterObserver(p)
       PROVE  ObserverInv'
  <2> DEFINE n == Snapshot.next
             O == Snapshot.observers
             r == [Snapshot EXCEPT !.observers = @ \cup {<<n, p>>}, !.next = @ + 1]
  <2>1. PICK ok \in BOOLEAN :
          /\ SwapIn(r, ok)
          /\ mine' = [mine EXCEPT ![p] = IF ok THEN @ \cup {n} ELSE @]
        BY <1>11, Zenon DEF RegisterObserver
  <2>2. /\ connRes = "alive" /\ UNCHANGED <<connRes, spent>>
        /\ n \in Handles
        /\ O \in SUBSET (Handles \X Procs)
        BY <1>0, <1>11 DEF RegisterObserver, WithConn, States, Handles
  <2>3. r \in States /\ r.observers = O \cup {<<n, p>>} /\ r.next = n + 1
        BY <1>0, <1>11, RegisteredType, Zenon DEF RegisterObserver, States
  <2>4. CASE ~ok
    <3>1. Snapshot' = Snapshot /\ mine' = mine
          BY <2>1, <2>3, <2>4, ObserversAfter DEF SlotInv, TypeOK
    <3> QED BY <1>1, <2>2, <3>1
  <2>5. CASE ok
    <3>1. Snapshot'.observers = O \cup {<<n, p>>} /\ Snapshot'.next = n + 1
          BY <2>1, <2>3, <2>5, ObserversAfter, Zenon
    <3>2. \A o \in O : o[1] \in Nat /\ o[1] < n
          BY <2>2 DEF ObserverInv, Handles
    <3>3. \A o \in Snapshot'.observers : o[1] < Snapshot'.next
          BY <2>2, <3>1, <3>2 DEF Handles
    <3>4. \A o, q \in Snapshot'.observers : o[1] = q[1] => o[2] = q[2]
          BY <2>2, <3>1, <3>2 DEF ObserverInv, Handles
    <3>5. \A q \in Procs : mine'[q] = IF q = p THEN mine[q] \cup {n} ELSE mine[q]
          BY <2>1, <2>5, Zenon DEF SlotInv, TypeOK
    <3>6. ASSUME NEW q \in Procs
          PROVE  mine'[q] = {h \in Handles : <<h, q>> \in O \cup {<<n, p>>}}
      <4>1. mine[q] = {h \in Handles : <<h, q>> \in O}
            BY <2>2 DEF ObserverInv, ObserversKept
      <4> HIDE DEF O, n
      <4>2. CASE q = p
            BY <2>2, <3>5, <4>1, <4>2, Zenon
      <4>3. CASE q # p
            BY <3>5, <4>1, <4>3, Zenon
      <4> QED BY <4>2, <4>3
    <3> QED BY <2>2, <3>1, <3>3, <3>4, <3>6 DEF ObserverInv, ObserversKept
  <2> QED BY <2>4, <2>5
<1>12. ASSUME NEW p \in Procs, NEW h \in Handles, UnregisterObserver(p, h)
       PROVE  ObserverInv'
  <2> DEFINE O == Snapshot.observers
             R == {o \in O : o[1] # h}
             r == [Snapshot EXCEPT !.observers = {o \in @ : o[1] # h}]
  <2>1. PICK ok \in BOOLEAN :
          /\ SwapIn(r, ok)
          /\ mine' = [mine EXCEPT ![p] = IF ok THEN @ \ {h} ELSE @]
          /\ spent' = [spent EXCEPT ![p] = IF ok /\ Repeat THEN @ \cup {h} ELSE @]
        BY <1>12, Zenon DEF UnregisterObserver
  <2>2. /\ connRes = "alive" /\ connRes' = connRes
        /\ h \in mine[p]
        /\ spent' = spent
        BY <1>12, <2>1 DEF UnregisterObserver, WithConn, ObserverInv, SlotInv, TypeOK
  <2>3. r \in States /\ r.observers = R /\ r.next = Snapshot.next
        BY <1>0 DEF States
  <2>4. O \in SUBSET (Handles \X Procs)
        BY <1>0 DEF States
  <2>5. CASE ~ok
    <3>1. Snapshot' = Snapshot /\ mine' = mine
          BY <2>1, <2>3, <2>5, ObserversAfter DEF SlotInv, TypeOK
    <3> QED BY <1>1, <2>2, <3>1
  <2>6. CASE ok
    <3>1. /\ Snapshot'.observers = R
          /\ Snapshot'.observers # {} => Snapshot'.next = Snapshot.next
          BY <2>1, <2>3, <2>6, ObserversAfter, Zenon
    <3>2. \A q \in Procs : mine'[q] = IF q = p THEN mine[q] \ {h} ELSE mine[q]
          BY <2>1, <2>6, Zenon DEF SlotInv, TypeOK
    <3>3. \A q \in Procs : <<h, q>> \in O => q = p
      <4>1. <<h, p>> \in O
            BY <2>2 DEF ObserverInv, ObserversKept
      <4>2. \A o, q \in O : o[1] = q[1] => o[2] = q[2]
            BY DEF ObserverInv
      <4> HIDE DEF O
      <4> QED BY <4>1, <4>2
    <3>4. ASSUME NEW q \in Procs
          PROVE  mine'[q] = {g \in Handles : <<g, q>> \in R}
      <4>1. mine[q] = {g \in Handles : <<g, q>> \in O}
            BY <2>2 DEF ObserverInv, ObserversKept
      <4> HIDE DEF O
      <4>2. CASE q = p
            BY <3>2, <4>1, <4>2, Zenon
      <4>3. CASE q # p
            BY <3>2, <3>3, <4>1, <4>3, Zenon
      <4> QED BY <4>2, <4>3
    <3>5. ObserversKept'
          BY <3>1, <3>4 DEF ObserversKept
    <3>6. \A o \in Snapshot'.observers : o \in O
          BY <3>1
    <3>7. \A o \in Snapshot'.observers : o[1] < Snapshot'.next
          BY <3>1, <3>6 DEF ObserverInv
    <3>8. \A o, q \in Snapshot'.observers : o[1] = q[1] => o[2] = q[2]
          BY <3>6 DEF ObserverInv
    <3> QED BY <2>2, <3>5, <3>7, <3>8 DEF ObserverInv
  <2> QED BY <2>5, <2>6
<1> QED BY <1>2, <1>3, <1>4, <1>5, <1>6, <1>7, <1>8, <1>9, <1>10, <1>11, <1>12
        DEF Next, Operation

(* As long as no process unregisters a handle it has already unregistered, *)
(* the slot holds exactly the observers that processes registered and did  *)
(* not unregister, whatever policies and timeouts come and go (snapshot,   *)
(* register_observer, unregister_observer).                                *)
THEOREM ObserversSafe ==
    ASSUME ~Repeat
    PROVE  Spec => []ObserversKept
<1>1. Init => ObserverInv
      BY DEF Init, ObserverInv, ObserversKept, Snapshot, EmptyState
<1>2. SlotInv /\ ObserverInv /\ [Next]_vars => ObserverInv'
      BY ObserverStep
<1>3. SlotInv /\ [Next]_vars => SlotInv'
      BY SlotStep
<1>4. ObserverInv => ObserversKept
      BY DEF ObserverInv
<1> QED BY SlotInit, <1>1, <1>2, <1>3, <1>4, PTL DEF Spec

(* A step that changes the policy or the observers and leaves a state in   *)
(* the slot leaves the handler on it.                                      *)
LEMMA ChangeStep ==
    ASSUME SlotInv, [Next]_vars,
           <<Snapshot.policy, Snapshot.observers>>' # <<Snapshot.policy, Snapshot.observers>>,
           slot' # None
    PROVE  handler' = slot'
<1> USE BusyAssumption
<1>1. ASSUME NEW p \in Procs,
             \/ SetPolicy(p) \/ RemovePolicy(p) \/ TimeoutRemove(p)
             \/ RegisterObserver(p) \/ \E h \in Handles : UnregisterObserver(p, h)
      PROVE  handler' = slot'
  <2>1. PICK s \in States, ok \in BOOLEAN : SwapIn(s, ok)
        BY <1>1, ChangeShape DEF SlotInv
  <2>2. CASE ok
        BY <2>1, <2>2 DEF SwapIn, InstallHook, UninstallHook
  <2>3. CASE ~ok
    <3>1. Snapshot' = Snapshot
          BY <2>1, <2>3, SwapInState DEF SlotInv
    <3> QED BY <3>1
  <2> QED BY <2>2, <2>3
<1>2. ASSUME UNCHANGED <<slot, box>>
      PROVE  FALSE
  <2>1. Snapshot' = Snapshot
        BY <1>2 DEF Snapshot
  <2> QED BY <2>1
<1>3. CASE UNCHANGED vars
      BY <1>2, <1>3 DEF vars, heapVars
<1>4. ASSUME NEW p \in Procs, RawPragma(p) \/ TimeoutPragma(p)
      PROVE  FALSE
      BY <1>2, <1>4 DEF RawPragma, TimeoutPragma, SqliteTimeout, heapVars
<1>5. CASE BusyBegin \/ BusyResolved \/ Close \/ DropFields
      BY <1>2, <1>5 DEF BusyBegin, BusyResolved, Close, DropFields, heapVars
<1>6. CASE DropHook
      BY <1>6 DEF DropHook
<1>7. CASE BusyCallback
  <2>1. handler = slot
        BY <1>7 DEF SlotInv, BusyCallback, EventServed, CallbackReadsCurrentState
  <2> QED BY <1>7, <2>1 DEF BusyCallback
<1>8. CASE Tick
  <2>1. slot \in Boxes /\ box[slot] \in States
        BY <1>8 DEF Tick, SlotInv, TypeOK, SlotOwnsItsBox
  <2>2. box[slot].age + 1 \in 0..MaxElapsed
        BY <1>8, <2>1 DEF Tick, States
  <2>3. /\ Snapshot'.policy = Snapshot.policy
        /\ Snapshot'.observers = Snapshot.observers
        BY <1>8, <2>1, <2>2, AgeShape, Zenon DEF Tick, SlotInv
  <2> QED BY <2>3
<1> QED BY <1>1, <1>3, <1>4, <1>5, <1>6, <1>7, <1>8 DEF Next, Operation

(* A change of the policy or of the observers is what SQLite calls back    *)
(* with from then on, even after PRAGMA busy_timeout took the handler away *)
(* (swap_in re-registers on every change).                                 *)
THEOREM ChangesReachSqlite == Spec => ChangeTakesEffect
<1>1. SlotInv /\ [Next]_vars => SlotInv'
      BY SlotStep
<1>2. SlotInv /\ [Next]_vars =>
        [<<Snapshot.policy, Snapshot.observers>>' # <<Snapshot.policy, Snapshot.observers>>
          /\ slot' # None => handler' = slot']_vars
      BY ChangeStep
<1> QED BY SlotInit, <1>1, <1>2, PTL DEF Spec, ChangeTakesEffect

(* The first callback of a busy event measures no time from before the     *)
(* event: a policy with budget left grants the first retry (busy_callback  *)
(* restarts the clock when SQLite's count is 0).                           *)
THEOREM FirstRetryGranted == Spec => FreshClock
<1>1. SlotInv /\ [Next]_vars => SlotInv'
      BY SlotStep
<1>2. SlotInv =>
        (BusyCallback /\ event = 0
          /\ Snapshot.policy # None
          /\ Snapshot.policy.retries > 0 /\ Snapshot.policy.elapsed > 0
              => event' = 1)
  <2> SUFFICES ASSUME SlotInv, BusyCallback, event = 0, Snapshot.policy # None,
                      Snapshot.policy.retries > 0, Snapshot.policy.elapsed > 0
               PROVE  event' = 1
        OBVIOUS
  <2>1. handler = slot /\ handler \in Boxes /\ Snapshot = box[handler]
        BY BusyAssumption DEF SlotInv, BusyCallback, EventServed,
           CallbackReadsCurrentState, Snapshot
  <2>2. Snapshot.policy \in Policies
        BY SnapshotType DEF SlotInv, States
  <2>3. Snapshot.policy.retries \in Nat /\ Snapshot.policy.elapsed \in Nat
        BY <2>2, BusyAssumption DEF Policies
  <2> QED BY <2>1, <2>3 DEF BusyCallback
<1> QED BY SlotInit, <1>1, <1>2, PTL DEF Spec, FreshClock
=============================================================================
