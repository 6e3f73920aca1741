------------------------------ MODULE HookList ------------------------------
(***************************************************************************)
(* HookList<T> of hook_util.rs: the copy-on-write subscriber list behind   *)
(* the update, commit, rollback and WAL hooks and both lists of the        *)
(* progress dispatch.  The list is a heap-allocated Vec reached through an *)
(* atomic head pointer.  A writer clones the Vec, changes the clone, swaps *)
(* the pointer and frees the previous Vec at once; a SQLite callback loads *)
(* the pointer and walks the Vec with no protection of its own.  What      *)
(* keeps a walk off a freed Vec is the connection mutex, which every       *)
(* writer NIF takes and which is held around every call that can make      *)
(* SQLite run a callback.                                                  *)
(*                                                                         *)
(* A Vec is modelled by the set of the handles it holds: register pushes   *)
(* the largest handle last, so the walk order is the order of the handles. *)
(***************************************************************************)
EXTENDS Integers

CONSTANTS
  Threads,     \* scheduler threads that run NIFs on this connection
  Addrs,       \* heap addresses a Vec can be allocated at
  MaxId,       \* bound on the number of registrations
  NULL         \* the null pointer; also "nobody" for the mutex

ASSUME NullAssumption == NULL \notin Addrs /\ NULL \notin Threads
ASSUME MaxIdAssumption == MaxId \in Nat

Ids == 1..MaxId

VARIABLES
  head,        \* HookList.head: the current Vec, or NULL
  next_id,     \* HookList.next_id
  live,        \* addresses allocated and not freed
  vec,         \* contents of the Vec at each address
  mutex,       \* the connection mutex: its holder or NULL
  conn,        \* "open", "closed" or "freed" (XqliteConn dropped)
  pc,          \* where each thread is
  op,          \* "register", "unregister" or "event"
  arg,         \* the handle a writer is about
  ptr,         \* the Vec a thread has loaded (old_ptr, prev, head)
  new,         \* the Vec a writer has built
  todo,        \* what is left of the snapshot a callback walks
  given        \* history: the handles ever published in the list

vars == <<head, next_id, live, vec, mutex, conn, pc, op, arg, ptr, new, todo, given>>

Init ==
  /\ head = NULL
  /\ next_id = 1
  /\ live = {}
  /\ vec = [a \in Addrs |-> {}]
  /\ mutex = NULL
  /\ conn = "open"
  /\ pc = [t \in Threads |-> "idle"]
  /\ op = [t \in Threads |-> "event"]
  /\ arg = [t \in Threads |-> 0]
  /\ ptr = [t \in Threads |-> NULL]
  /\ new = [t \in Threads |-> NULL]
  /\ todo = [t \in Threads |-> {}]
  /\ given = {}

Subscribers == IF head = NULL THEN {} ELSE vec[head]

Goto(t, label) == pc' = [pc EXCEPT ![t] = label]

(* A register_*_hook NIF takes the connection mutex. *)
BeginRegister_unlocked(t) ==
  /\ pc[t] = "idle" /\ conn = "open" /\ next_id <= MaxId
  /\ mutex' = t
  /\ op' = [op EXCEPT ![t] = "register"]
  /\ Goto(t, "fetch")
  /\ UNCHANGED <<head, next_id, live, vec, conn, arg, ptr, new, todo, given>>

BeginRegister(t) ==
  /\ pc[t] = "idle" /\ mutex = NULL /\ conn = "open" /\ next_id <= MaxId
  /\ mutex' = t
  /\ op' = [op EXCEPT ![t] = "register"]
  /\ Goto(t, "fetch")
  /\ UNCHANGED <<head, next_id, live, vec, conn, arg, ptr, new, todo, given>>

(* An unregister_*_hook NIF takes it too; the handle is whatever integer   *)
(* the caller passes, given out, already removed, or never given out.      *)
BeginUnregister(t, id) ==
  /\ pc[t] = "idle" /\ mutex = NULL /\ conn = "open"
  /\ mutex' = t
  /\ op' = [op EXCEPT ![t] = "unregister"]
  /\ arg' = [arg EXCEPT ![t] = id]
  /\ Goto(t, "load")
  /\ UNCHANGED <<head, next_id, live, vec, conn, ptr, new, todo, given>>

(* A NIF that runs SQL takes it before SQLite can call back. *)
BeginEvent(t) ==
  /\ pc[t] = "idle" /\ mutex = NULL /\ conn = "open"
  /\ mutex' = t
  /\ op' = [op EXCEPT ![t] = "event"]
  /\ Goto(t, "load")
  /\ UNCHANGED <<head, next_id, live, vec, conn, arg, ptr, new, todo, given>>

(* let id = next_id.fetch_add(1) *)
FetchId_restarts(t) ==
  /\ pc[t] = "fetch"
  /\ LET id == IF head = NULL THEN 1 ELSE next_id
     IN /\ arg' = [arg EXCEPT ![t] = id]
        /\ next_id' = id + 1
  /\ Goto(t, "load")
  /\ UNCHANGED <<head, live, vec, mutex, conn, op, ptr, new, todo, given>>

FetchId_addFetch(t) ==
  /\ pc[t] = "fetch"
  /\ arg' = [arg EXCEPT ![t] = next_id + 1]
  /\ next_id' = next_id + 1
  /\ Goto(t, "load")
  /\ UNCHANGED <<head, live, vec, mutex, conn, op, ptr, new, todo, given>>

FetchId(t) ==
  /\ pc[t] = "fetch"
  /\ arg' = [arg EXCEPT ![t] = next_id]
  /\ next_id' = next_id + 1
  /\ Goto(t, "load")
  /\ UNCHANGED <<head, live, vec, mutex, conn, op, ptr, new, todo, given>>

(* head.load: a callback or an unregister that finds NULL is finished. *)
LoadHead(t) ==
  /\ pc[t] = "load"
  /\ ptr' = [ptr EXCEPT ![t] = head]
  /\ Goto(t, IF op[t] = "register" THEN "build"
             ELSE IF head = NULL THEN "unlock"
             ELSE IF op[t] = "unregister" THEN "build" ELSE "snapshot")
  /\ UNCHANGED <<head, next_id, live, vec, mutex, conn, op, arg, new, todo, given>>

Loaded(t) == IF ptr[t] = NULL THEN {} ELSE vec[ptr[t]]

(* register: clone the loaded Vec (vec![entry] when there is none), push.  *)
BuildRegister_forgets(t) ==
  /\ pc[t] = "build" /\ op[t] = "register"
  /\ \E a \in Addrs \ live :
       /\ live' = live \cup {a}
       /\ vec' = [vec EXCEPT ![a] = {arg[t]}]
       /\ new' = [new EXCEPT ![t] = a]
  /\ Goto(t, "swap")
  /\ UNCHANGED <<head, next_id, mutex, conn, op, arg, ptr, todo, given>>

BuildRegister(t) ==
  /\ pc[t] = "build" /\ op[t] = "register"
  /\ \E a \in Addrs \ live :
       /\ live' = live \cup {a}
       /\ vec' = [vec EXCEPT ![a] = Loaded(t) \cup {arg[t]}]
       /\ new' = [new EXCEPT ![t] = a]
  /\ Goto(t, "swap")
  /\ UNCHANGED <<head, next_id, mutex, conn, op, arg, ptr, todo, given>>

(* unregister: the filtered Vec; an unknown handle leaves the list alone,  *)
(* an empty result becomes the null pointer instead of an empty Vec.       *)
BuildUnregister(t) ==
  /\ pc[t] = "build" /\ op[t] = "unregister"
  /\ LET filtered == Loaded(t) \ {arg[t]}
     IN \/ /\ filtered = Loaded(t)
           /\ Goto(t, "unlock")
           /\ UNCHANGED <<live, vec, new>>
        \/ /\ filtered # Loaded(t) /\ filtered = {}
           /\ new' = [new EXCEPT ![t] = NULL]
           /\ Goto(t, "swap")
           /\ UNCHANGED <<live, vec>>
        \/ /\ filtered # Loaded(t) /\ filtered # {}
           /\ \E a \in Addrs \ live :
                /\ live' = live \cup {a}
                /\ vec' = [vec EXCEPT ![a] = filtered]
                /\ new' = [new EXCEPT ![t] = a]
           /\ Goto(t, "swap")
  /\ UNCHANGED <<head, next_id, mutex, conn, op, arg, ptr, todo, given>>

(* let prev = head.swap(new_ptr) *)
SwapHead(t) ==
  /\ pc[t] = "swap"
  /\ ptr' = [ptr EXCEPT ![t] = head]
  /\ head' = new[t]
  /\ given' = IF op[t] = "register" THEN given \cup {arg[t]} ELSE given
  /\ Goto(t, "free")
  /\ UNCHANGED <<next_id, live, vec, mutex, conn, op, arg, new, todo>>

(* drop(Box::from_raw(prev)) *)
FreePrev_leaks(t) ==
  /\ pc[t] = "free"
  /\ Goto(t, "unlock")
  /\ UNCHANGED <<head, next_id, live, vec, mutex, conn, op, arg, ptr, new, todo, given>>

FreePrev(t) ==
  /\ pc[t] = "free"
  /\ live' = live \ {ptr[t]}
  /\ vec' = [a \in Addrs |-> IF a = ptr[t] THEN {} ELSE vec[a]]
  /\ Goto(t, "unlock")
  /\ UNCHANGED <<head, next_id, mutex, conn, op, arg, ptr, new, todo, given>>

(* for_each_snapshot: the callback borrows the Vec it loaded ... *)
StartWalk(t) ==
  /\ pc[t] = "snapshot"
  /\ todo' = [todo EXCEPT ![t] = vec[ptr[t]]]
  /\ Goto(t, "walk")
  /\ UNCHANGED <<head, next_id, live, vec, mutex, conn, op, arg, ptr, new, given>>

(* ... and sends one message per entry, in order. *)
SendOne(t) ==
  /\ pc[t] = "walk"
  /\ \E id \in todo[t] :
       /\ \A other \in todo[t] : id <= other
       /\ todo' = [todo EXCEPT ![t] = todo[t] \ {id}]
  /\ UNCHANGED <<head, next_id, live, vec, mutex, conn, pc, op, arg, ptr, new, given>>

(* The same call into SQLite may raise the next event before it returns. *)
EndWalk(t) ==
  /\ pc[t] = "walk" /\ todo[t] = {}
  /\ \E label \in {"load", "unlock"} : Goto(t, label)
  /\ UNCHANGED <<head, next_id, live, vec, mutex, conn, op, arg, ptr, new, todo, given>>

(* The NIF returns: its locals are gone, with_conn releases the mutex. *)
Unlock(t) ==
  /\ pc[t] = "unlock"
  /\ mutex' = NULL
  /\ op' = [op EXCEPT ![t] = "event"]
  /\ arg' = [arg EXCEPT ![t] = 0]
  /\ ptr' = [ptr EXCEPT ![t] = NULL]
  /\ new' = [new EXCEPT ![t] = NULL]
  /\ Goto(t, "idle")
  /\ UNCHANGED <<head, next_id, live, vec, conn, todo, given>>

(* close: the rusqlite connection goes, the lists stay with XqliteConn. *)
Close ==
  /\ conn = "open" /\ mutex = NULL
  /\ conn' = "closed"
  /\ UNCHANGED <<head, next_id, live, vec, mutex, pc, op, arg, ptr, new, todo, given>>

(* XqliteConn::drop: no NIF holds a reference any more; the Connection is  *)
(* dropped first, drop_all then reclaims what the slot still holds.        *)
DropAll ==
  /\ conn # "freed"
  /\ \A t \in Threads : pc[t] = "idle"
  /\ head' = NULL
  /\ live' = live \ {head}
  /\ conn' = "freed"
  /\ UNCHANGED <<next_id, vec, mutex, pc, op, arg, ptr, new, todo, given>>

Step(t) ==
  \/ BeginRegister(t)
  \/ \E id \in Ids : BeginUnregister(t, id)
  \/ BeginEvent(t)
  \/ FetchId(t) \/ LoadHead(t)
  \/ BuildRegister(t) \/ BuildUnregister(t)
  \/ SwapHead(t) \/ FreePrev(t)
  \/ StartWalk(t) \/ SendOne(t) \/ EndWalk(t)
  \/ Unlock(t)

Next == Close \/ DropAll \/ \E t \in Threads : Step(t)

Spec == Init /\ [][Next]_vars
----------------------------------------------------------------------------
Labels == {"idle", "fetch", "load", "build", "swap", "free", "snapshot", "walk", "unlock"}

(* The shape of the state. *)
TypeOK ==
  /\ head \in Addrs \cup {NULL}
  /\ next_id \in 1..(MaxId + 1)
  /\ live \in SUBSET Addrs
  /\ vec \in [Addrs -> SUBSET Ids]
  /\ mutex \in Threads \cup {NULL}
  /\ conn \in {"open", "closed", "freed"}
  /\ pc \in [Threads -> Labels]
  /\ op \in [Threads -> {"register", "unregister", "event"}]
  /\ arg \in [Threads -> 0..MaxId]
  /\ ptr \in [Threads -> Addrs \cup {NULL}]
  /\ new \in [Threads -> Addrs \cup {NULL}]
  /\ todo \in [Threads -> SUBSET Ids]
  /\ given \in SUBSET Ids

(* A Vec is never freed under a thread that reads it: while a writer is    *)
(* about to clone the Vec it loaded, or a callback is about to walk or is  *)
(* walking one (for_each_snapshot dereferences the raw head), that Vec is  *)
(* still allocated and still the published one.                            *)
SnapshotLive ==
  \A t \in Threads :
    /\ (pc[t] = "build" /\ ptr[t] # NULL) => (ptr[t] \in live /\ ptr[t] = head)
    /\ pc[t] \in {"snapshot", "walk"} => (ptr[t] \in live /\ ptr[t] = head)

(* Every Vec is reclaimed exactly once: with the mutex free, the Vec the   *)
(* head points at is the only one allocated, and nothing is left once the  *)
(* XqliteConn is dropped.  register and unregister free what they replace. *)
NothingRetained ==
  /\ mutex = NULL => live = {head} \ {NULL}
  /\ conn = "freed" => live = {}

(* A handle that was given out and is no longer registered never comes     *)
(* back: unregistering a stale handle is a no-op for ever ("unregistering  *)
(* an unknown / already-removed handle is a no-op", hook_util.rs), so it   *)
(* can never remove somebody else's subscription.                          *)
HandleNeverReused ==
  [][\A id \in Ids :
       (id \in given /\ id \notin Subscribers) => id \notin Subscribers']_vars

(* The list keeps the promise of FanOut: register and unregister take      *)
(* effect at the swap of the head, an event begins when the snapshot is    *)
(* taken and reaches exactly the handles registered then.                  *)
F == INSTANCE FanOut WITH
       subs <- Subscribers,
       used <- given,
       pending <- UNION {todo[t] : t \in Threads}

FanOutSpec == F!Spec

(* The list is sound in memory: no Vec is freed under a thread that reads  *)
(* it, and none is kept (register, unregister, drop_all).                  *)
ListSound == TypeOK /\ SnapshotLive /\ NothingRetained
=============================================================================
