-------------------------- MODULE HookList_proofs --------------------------
(***************************************************************************)
(* Proofs about HookList, for any number of threads, addresses and         *)
(* registrations.  IInv is inductive.  It says what the mutex protects     *)
(* step by step: which Vecs exist while a writer is between its clone, its *)
(* swap and its free, that a thread past its load still holds the          *)
(* published pointer, and what a writer is about to publish.               *)
(***************************************************************************)
EXTENDS HookList, TLAPS

(* A thread inside a NIF holds the connection mutex. *)
LockInv ==
  /\ \A t \in Threads : pc[t] # "idle" => mutex = t
  /\ \A t \in Threads : mutex = t => pc[t] # "idle"
  /\ conn = "freed" => mutex = NULL /\ head = NULL

(* The Vecs allocated: the published one and, in the hands of a writer,    *)
(* the one it is about to publish or has just unpublished.                 *)
LiveInv ==
  /\ mutex = NULL => live = {head} \ {NULL}
  /\ \A t \in Threads :
       /\ pc[t] \in {"fetch", "load", "build", "snapshot", "walk", "unlock"} => live = {head} \ {NULL}
       /\ pc[t] = "swap" => live = {head, new[t]} \ {NULL} /\ new[t] # head
       /\ pc[t] = "free" => live = {head, ptr[t]} \ {NULL} /\ ptr[t] # head

(* What a thread has loaded is still the head. *)
PtrInv ==
  \A t \in Threads :
    /\ pc[t] \in {"build", "snapshot", "walk"} => ptr[t] = head
    /\ pc[t] \in {"snapshot", "walk"} => head # NULL /\ op[t] = "event"
    /\ pc[t] = "fetch" => op[t] = "register"
    /\ pc[t] \in {"build", "swap"} => op[t] # "event"
    /\ pc[t] # "walk" => todo[t] = {}

(* Handles are fresh, and what a writer will publish is the list it        *)
(* replaces with its one change.                                           *)
HandleInv ==
  /\ given \subseteq 1..(next_id - 1)
  /\ Subscribers \subseteq given
  /\ \A t \in Threads :
       /\ pc[t] = "fetch" => next_id <= MaxId
       /\ (pc[t] \in {"load", "build", "swap"} /\ op[t] = "register") =>
            arg[t] = next_id - 1 /\ arg[t] \in Ids /\ arg[t] \notin given
       /\ (pc[t] \in {"load", "build", "swap"} /\ op[t] = "unregister") => arg[t] \in Ids

PublishInv ==
  \A t \in Threads : pc[t] = "swap" =>
    /\ op[t] = "register" => new[t] # NULL /\ vec[new[t]] = Subscribers \cup {arg[t]}
    /\ op[t] = "unregister" =>
         (IF new[t] = NULL THEN {} ELSE vec[new[t]]) = Subscribers \ {arg[t]}

IInv == TypeOK /\ LockInv /\ LiveInv /\ PtrInv /\ HandleInv /\ PublishInv

(* The swap publishes the list with one handle more, or one less. *)
LEMMA SwapPublishes ==
  ASSUME TypeOK, PtrInv, PublishInv, NEW t \in Threads, SwapHead(t)
  PROVE  Subscribers' = IF op[t] = "register" THEN Subscribers \cup {arg[t]} ELSE Subscribers \ {arg[t]}
<1>1. head' = new[t] /\ vec' = vec /\ pc[t] = "swap"
      BY DEF SwapHead
<1>2. CASE op[t] = "register"
      BY <1>1, <1>2 DEF PublishInv, Subscribers
<1>3. CASE op[t] = "unregister"
  <2>1. (IF new[t] = NULL THEN {} ELSE vec[new[t]]) = Subscribers \ {arg[t]}
        BY <1>1, <1>3 DEF PublishInv
  <2> QED BY <1>1, <1>3, <2>1 DEF Subscribers
<1> QED BY <1>1, <1>2, <1>3 DEF TypeOK, PtrInv

(* The shape of the state is kept.                                         *)
LEMMA TypeStep ==
  ASSUME IInv, [Next]_vars
  PROVE  TypeOK'
<1> USE NullAssumption, MaxIdAssumption DEF IInv, TypeOK, HandleInv, Labels, Loaded
<1>0. CASE UNCHANGED vars
      BY <1>0 DEF vars
<1>1. CASE Close
      BY <1>1 DEF Close
<1>2. CASE DropAll
      BY <1>2, SMTT(30) DEF DropAll
<1>3. ASSUME NEW t \in Threads, Step(t)
      PROVE  TypeOK'
  <2>1. CASE BeginRegister(t)
        BY <2>1 DEF BeginRegister, Goto
  <2>2. ASSUME NEW id \in Ids, BeginUnregister(t, id)
        PROVE  TypeOK'
    <3>1. id \in 0..MaxId
          BY DEF Ids
    <3> QED BY <2>2, <3>1 DEF BeginUnregister, Goto
  <2>3. CASE BeginEvent(t)
        BY <2>3 DEF BeginEvent, Goto
  <2>4. CASE FetchId(t)
        BY <2>4 DEF FetchId, Goto
  <2>5. CASE LoadHead(t)
        BY <2>5 DEF LoadHead, Goto
  <2>6. CASE BuildRegister(t)
        BY <2>6 DEF BuildRegister, Goto
  <2>7. CASE BuildUnregister(t)
        BY <2>7 DEF BuildUnregister, Goto
  <2>8. CASE SwapHead(t)
        BY <2>8, Zenon DEF SwapHead, Goto
  <2>9. CASE FreePrev(t)
        BY <2>9 DEF FreePrev, Goto
  <2>10. CASE StartWalk(t)
    <3>1. vec[ptr[t]] \in SUBSET Ids
          BY <2>10 DEF StartWalk, PtrInv
    <3> QED BY <2>10, <3>1 DEF StartWalk, Goto
  <2>11. CASE SendOne(t)
        BY <2>11 DEF SendOne
  <2>12. CASE EndWalk(t)
        BY <2>12 DEF EndWalk, Goto
  <2>13. CASE Unlock(t)
        BY <2>13 DEF Unlock, Goto
  <2> QED BY <1>3, <2>1, <2>2, <2>3, <2>4, <2>5, <2>6, <2>7, <2>8, <2>9, <2>10, <2>11, <2>12, <2>13 DEF Step
<1> QED BY <1>0, <1>1, <1>2, <1>3 DEF Next

(* A NIF holds the mutex from its first step to its last.                  *)
LEMMA LockStep ==
  ASSUME IInv, [Next]_vars
  PROVE  LockInv'
<1> USE NullAssumption, MaxIdAssumption DEF IInv, TypeOK, LockInv
<1>0. CASE UNCHANGED vars
      BY <1>0 DEF vars
<1>1. CASE Close
      BY <1>1 DEF Close
<1>2. CASE DropAll
      BY <1>2, SMTT(30) DEF DropAll
<1>3. ASSUME NEW t \in Threads, Step(t)
      PROVE  LockInv'
  <2>1. CASE BeginRegister(t)
        BY <2>1 DEF BeginRegister, Goto
  <2>2. ASSUME NEW id \in Ids, BeginUnregister(t, id)
        PROVE  LockInv'
        BY <2>2 DEF BeginUnregister, Goto
  <2>3. CASE BeginEvent(t)
        BY <2>3 DEF BeginEvent, Goto
  <2>4. CASE FetchId(t)
        BY <2>4 DEF FetchId, Goto
  <2>5. CASE LoadHead(t)
        BY <2>5 DEF LoadHead, Goto
  <2>6. CASE BuildRegister(t)
        BY <2>6 DEF BuildRegister, Goto
  <2>7. CASE BuildUnregister(t)
        BY <2>7 DEF BuildUnregister, Goto
  <2>8. CASE SwapHead(t)
        BY <2>8 DEF SwapHead, Goto
  <2>9. CASE FreePrev(t)
        BY <2>9 DEF FreePrev, Goto
  <2>10. CASE StartWalk(t)
        BY <2>10 DEF StartWalk, Goto
  <2>11. CASE SendOne(t)
        BY <2>11 DEF SendOne
  <2>12. CASE EndWalk(t)
        BY <2>12 DEF EndWalk, Goto
  <2>13. CASE Unlock(t)
        BY <2>13 DEF Unlock, Goto
  <2> QED BY <1>3, <2>1, <2>2, <2>3, <2>4, <2>5, <2>6, <2>7, <2>8, <2>9, <2>10, <2>11, <2>12, <2>13 DEF Step
<1> QED BY <1>0, <1>1, <1>2, <1>3 DEF Next

(* Each Vec is allocated once and freed once.                              *)
LEMMA LiveStep ==
  ASSUME IInv, [Next]_vars
  PROVE  LiveInv'
<1> USE NullAssumption, MaxIdAssumption DEF IInv, TypeOK, LockInv, LiveInv, PtrInv, Loaded
<1>0. CASE UNCHANGED vars
      BY <1>0 DEF vars
<1>1. CASE Close
      BY <1>1 DEF Close
<1>2. CASE DropAll
      BY <1>2, SMTT(30) DEF DropAll
<1>3. ASSUME NEW t \in Threads, Step(t)
      PROVE  LiveInv'
  <2>1. CASE BeginRegister(t)
        BY <2>1 DEF BeginRegister, Goto
  <2>2. ASSUME NEW id \in Ids, BeginUnregister(t, id)
        PROVE  LiveInv'
        BY <2>2 DEF BeginUnregister, Goto
  <2>3. CASE BeginEvent(t)
        BY <2>3 DEF BeginEvent, Goto
  <2>4. CASE FetchId(t)
        BY <2>4 DEF FetchId, Goto
  <2>5. CASE LoadHead(t)
        BY <2>5 DEF LoadHead, Goto
  <2>6. CASE BuildRegister(t)
        BY <2>6 DEF BuildRegister, Goto
  <2>7. CASE BuildUnregister(t)
        BY <2>7 DEF BuildUnregister, Goto
  <2>8. CASE SwapHead(t)
        BY <2>8 DEF SwapHead, Goto
  <2>9. CASE FreePrev(t)
        BY <2>9 DEF FreePrev, Goto
  <2>10. CASE StartWalk(t)
        BY <2>10 DEF StartWalk, Goto
  <2>11. CASE SendOne(t)
        BY <2>11 DEF SendOne
  <2>12. CASE EndWalk(t)
        BY <2>12 DEF EndWalk, Goto
  <2>13. CASE Unlock(t)
        BY <2>13, SMTT(30) DEF Unlock, Goto
  <2> QED BY <1>3, <2>1, <2>2, <2>3, <2>4, <2>5, <2>6, <2>7, <2>8, <2>9, <2>10, <2>11, <2>12, <2>13, Zenon DEF Step
<1> QED BY <1>0, <1>1, <1>2, <1>3 DEF Next

(* Nobody else moves the head under the thread that loaded it.             *)
LEMMA PtrStep ==
  ASSUME IInv, [Next]_vars
  PROVE  PtrInv'
<1> USE NullAssumption, MaxIdAssumption DEF IInv, TypeOK, LockInv, PtrInv
<1>0. CASE UNCHANGED vars
      BY <1>0 DEF vars
<1>1. CASE Close
      BY <1>1 DEF Close
<1>2. CASE DropAll
      BY <1>2, SMTT(30) DEF DropAll
<1>3. ASSUME NEW t \in Threads, Step(t)
      PROVE  PtrInv'
  <2>1. CASE BeginRegister(t)
        BY <2>1 DEF BeginRegister, Goto
  <2>2. ASSUME NEW id \in Ids, BeginUnregister(t, id)
        PROVE  PtrInv'
        BY <2>2 DEF BeginUnregister, Goto
  <2>3. CASE BeginEvent(t)
        BY <2>3 DEF BeginEvent, Goto
  <2>4. CASE FetchId(t)
        BY <2>4 DEF FetchId, Goto
  <2>5. CASE LoadHead(t)
        BY <2>5 DEF LoadHead, Goto
  <2>6. CASE BuildRegister(t)
        BY <2>6 DEF BuildRegister, Goto
  <2>7. CASE BuildUnregister(t)
        BY <2>7 DEF BuildUnregister, Goto
  <2>8. CASE SwapHead(t)
        BY <2>8 DEF SwapHead, Goto
  <2>9. CASE FreePrev(t)
        BY <2>9 DEF FreePrev, Goto
  <2>10. CASE StartWalk(t)
        BY <2>10 DEF StartWalk, Goto
  <2>11. CASE SendOne(t)
        BY <2>11 DEF SendOne
  <2>12. CASE EndWalk(t)
        BY <2>12 DEF EndWalk, Goto
  <2>13. CASE Unlock(t)
        BY <2>13, SMTT(30) DEF Unlock, Goto
  <2> QED BY <1>3, <2>1, <2>2, <2>3, <2>4, <2>5, <2>6, <2>7, <2>8, <2>9, <2>10, <2>11, <2>12, <2>13, Zenon DEF Step
<1> QED BY <1>0, <1>1, <1>2, <1>3 DEF Next

(* fetch_add never gives out a handle twice.                               *)
LEMMA HandleStep ==
  ASSUME IInv, [Next]_vars
  PROVE  HandleInv'
<1> USE NullAssumption, MaxIdAssumption DEF IInv, TypeOK, LockInv, LiveInv, PtrInv, HandleInv, PublishInv, Subscribers, Loaded, Ids
<1>0. CASE UNCHANGED vars
      BY <1>0 DEF vars
<1>1. CASE Close
      BY <1>1 DEF Close
<1>2. CASE DropAll
      BY <1>2, SMTT(30) DEF DropAll
<1>3. ASSUME NEW t \in Threads, Step(t)
      PROVE  HandleInv'
  <2>1. CASE BeginRegister(t)
        BY <2>1 DEF BeginRegister, Goto
  <2>2. ASSUME NEW id \in Ids, BeginUnregister(t, id)
        PROVE  HandleInv'
        BY <2>2 DEF BeginUnregister, Goto
  <2>3. CASE BeginEvent(t)
        BY <2>3 DEF BeginEvent, Goto
  <2>4. CASE FetchId(t)
        BY <2>4 DEF FetchId, Goto
  <2>5. CASE LoadHead(t)
        BY <2>5 DEF LoadHead, Goto
  <2>6. CASE BuildRegister(t)
        BY <2>6 DEF BuildRegister, Goto
  <2>7. CASE BuildUnregister(t)
        BY <2>7 DEF BuildUnregister, Goto
  <2>8. CASE SwapHead(t)
    <3>1. Subscribers' = IF op[t] = "register" THEN Subscribers \cup {arg[t]} ELSE Subscribers \ {arg[t]}
          BY <2>8, SwapPublishes, Zenon
    <3> HIDE DEF Subscribers, TypeOK, LiveInv, LockInv, PublishInv
    <3>a. /\ given \subseteq 1..(next_id - 1) /\ Subscribers \subseteq given /\ next_id' = next_id
          /\ given' = IF op[t] = "register" THEN given \cup {arg[t]} ELSE given
          /\ op[t] = "register" => arg[t] = next_id - 1 /\ arg[t] \in 1..MaxId
          BY <2>8 DEF SwapHead
    <3>b. next_id \in Int
          BY DEF TypeOK
    <3>c. Subscribers' \subseteq given'
          BY <3>1, <3>a, Zenon
    <3>d. given' \subseteq 1..(next_id' - 1)
      <4>1. op[t] = "register" => arg[t] \in 1..(next_id - 1)
            BY <3>a, <3>b
      <4> QED BY <3>a, <4>1, Zenon
    <3>2. given' \subseteq 1..(next_id' - 1) /\ Subscribers' \subseteq given'
          BY <3>c, <3>d, Zenon
    <3> USE DEF TypeOK, LockInv
    <3>3. \A u \in Threads : pc'[u] \notin {"fetch", "load", "build", "swap"}
          BY <2>8, SMTT(30) DEF SwapHead, Goto
    <3> QED BY <3>2, <3>3
  <2>9. CASE FreePrev(t)
        BY <2>9, SMTT(30) DEF FreePrev, Goto
  <2>10. CASE StartWalk(t)
        BY <2>10 DEF StartWalk, Goto
  <2>11. CASE SendOne(t)
        BY <2>11 DEF SendOne
  <2>12. CASE EndWalk(t)
        BY <2>12 DEF EndWalk, Goto
  <2>13. CASE Unlock(t)
        BY <2>13, SMTT(30) DEF Unlock, Goto
  <2> QED BY <1>3, <2>1, <2>2, <2>3, <2>4, <2>5, <2>6, <2>7, <2>8, <2>9, <2>10, <2>11, <2>12, <2>13, Zenon DEF Step
<1> QED BY <1>0, <1>1, <1>2, <1>3 DEF Next

(* A writer's clone is the published list with its one change.             *)
LEMMA PublishStep ==
  ASSUME IInv, [Next]_vars
  PROVE  PublishInv'
<1> USE NullAssumption, MaxIdAssumption DEF IInv, TypeOK, LockInv, LiveInv, PtrInv, HandleInv, PublishInv, Subscribers, Loaded
<1>0. CASE UNCHANGED vars
      BY <1>0 DEF vars
<1>1. CASE Close
      BY <1>1 DEF Close
<1>2. CASE DropAll
      BY <1>2 DEF DropAll
<1>3. ASSUME NEW t \in Threads, Step(t)
      PROVE  PublishInv'
  <2>1. CASE BeginRegister(t)
        BY <2>1 DEF BeginRegister, Goto
  <2>2. ASSUME NEW id \in Ids, BeginUnregister(t, id)
        PROVE  PublishInv'
        BY <2>2 DEF BeginUnregister, Goto
  <2>3. CASE BeginEvent(t)
        BY <2>3 DEF BeginEvent, Goto
  <2>4. CASE FetchId(t)
        BY <2>4 DEF FetchId, Goto
  <2>5. CASE LoadHead(t)
        BY <2>5 DEF LoadHead, Goto
  <2>6. CASE BuildRegister(t)
        BY <2>6, SMTT(30) DEF BuildRegister, Goto
  <2>7. CASE BuildUnregister(t)
        BY <2>7 DEF BuildUnregister, Goto
  <2>8. CASE SwapHead(t)
        BY <2>8 DEF SwapHead, Goto
  <2>9. CASE FreePrev(t)
        BY <2>9 DEF FreePrev, Goto
  <2>10. CASE StartWalk(t)
        BY <2>10 DEF StartWalk, Goto
  <2>11. CASE SendOne(t)
        BY <2>11, SMTT(30) DEF SendOne
  <2>12. CASE EndWalk(t)
        BY <2>12, SMTT(30) DEF EndWalk, Goto
  <2>13. CASE Unlock(t)
        BY <2>13 DEF Unlock, Goto
  <2> QED BY <1>3, <2>1, <2>2, <2>3, <2>4, <2>5, <2>6, <2>7, <2>8, <2>9, <2>10, <2>11, <2>12, <2>13, Zenon DEF Step
<1> QED BY <1>0, <1>1, <1>2, <1>3, Zenon DEF Next

(* Init, and hence every reachable state, satisfies the invariant. *)
THEOREM Invariant == Spec => []IInv
<1>1. Init => IInv
      BY NullAssumption, MaxIdAssumption
      DEF Init, IInv, TypeOK, Labels, LockInv, LiveInv, PtrInv, HandleInv, PublishInv, Subscribers, Ids
<1>2. IInv /\ [Next]_vars => IInv'
      BY TypeStep, LockStep, LiveStep, PtrStep, HandleStep, PublishStep DEF IInv
<1> QED BY <1>1, <1>2, PTL DEF Spec

(* A callback never walks a freed Vec, and no Vec is lost (register,       *)
(* unregister and drop_all in hook_util.rs), for any number of threads,    *)
(* addresses and registrations.                                            *)
THEOREM ListSafe == Spec => []ListSound
<1>1. IInv => TypeOK
      BY DEF IInv
<1>2. IInv => SnapshotLive
      BY NullAssumption, Zenon DEF IInv, TypeOK, LiveInv, PtrInv, SnapshotLive
<1>3. IInv => NothingRetained
      BY DEF IInv, LockInv, LiveInv, NothingRetained
<1>4. IInv => ListSound
      BY <1>1, <1>2, <1>3 DEF ListSound
<1> QED BY Invariant, <1>4, PTL

(* What the one thread inside SQLite has still to deliver is all that is   *)
(* pending.                                                                *)
LEMMA OnlyOneWalks ==
  ASSUME NEW f \in [Threads -> SUBSET Ids], NEW t \in Threads,
         \A u \in Threads : u # t => f[u] = {}
  PROVE  UNION {f[u] : u \in Threads} = f[t]
BY Zenon

LEMMA NobodyWalks ==
  ASSUME NEW f \in [Threads -> SUBSET Ids], \A u \in Threads : f[u] = {}
  PROVE  UNION {f[u] : u \in Threads} = {}
BY Zenon

(* Only the swap and drop_all change who is subscribed: a clone is built   *)
(* and a replaced Vec freed somewhere else than where the head points.     *)
LEMMA OthersKeepSubscribers ==
  ASSUME IInv, NEW t \in Threads, Step(t), ~SwapHead(t)
  PROVE  Subscribers' = Subscribers
<1> USE NullAssumption DEF IInv, TypeOK, Subscribers
<1>1. CASE BuildRegister(t)
      BY <1>1 DEF BuildRegister, LiveInv
<1>2. CASE BuildUnregister(t)
      BY <1>2 DEF BuildUnregister, LiveInv
<1>3. CASE FreePrev(t)
      BY <1>3 DEF FreePrev, LiveInv
<1>4. CASE head' = head /\ vec' = vec
      BY <1>4
<1> QED BY <1>1, <1>2, <1>3, <1>4
    DEF Step, BeginRegister, BeginUnregister, BeginEvent, FetchId, LoadHead, StartWalk, SendOne,
        EndWalk, Unlock

(* Every step of the list is a step of FanOut or leaves it alone. *)
LEMMA FanOutStep ==
  ASSUME IInv, [Next]_vars
  PROVE  [F!Next]_(F!fvars)
<1> USE NullAssumption DEF IInv
<1>a. TypeOK' /\ PtrInv' /\ LockInv'
      BY TypeStep, PtrStep, LockStep
<1> DEFINE pending == UNION {todo[u] : u \in Threads}
<1>b. ASSUME NEW t \in Threads, pc[t] # "idle"
      PROVE  pending = todo[t]
      BY <1>b, OnlyOneWalks DEF TypeOK, LockInv, PtrInv
<1>0. CASE UNCHANGED vars
      BY <1>0 DEF vars, F!fvars, Subscribers
<1>1. CASE Close
      BY <1>1 DEF Close, F!fvars, Subscribers
<1>2. CASE DropAll
  <2>1. pending = {}
        BY <1>2, NobodyWalks DEF DropAll, TypeOK, PtrInv
  <2>2. Subscribers' = {} /\ todo' = todo /\ given' = given
        BY <1>2 DEF DropAll, Subscribers
  <2> QED BY <2>1, <2>2 DEF F!Next, F!DropAll
<1>3. ASSUME NEW t \in Threads, Step(t)
      PROVE  [F!Next]_(F!fvars)
  <2>1. CASE SwapHead(t)
    <3>1. pending = {} /\ todo' = todo
          BY <1>b, <2>1, SMTT(30) DEF SwapHead, TypeOK, PtrInv
    <3>2. Subscribers' = IF op[t] = "register" THEN Subscribers \cup {arg[t]} ELSE Subscribers \ {arg[t]}
          BY <2>1, SwapPublishes
    <3>3. CASE op[t] = "register"
      <4>1. arg[t] \in Ids /\ arg[t] \notin given /\ given' = given \cup {arg[t]}
            BY <2>1, <3>3 DEF SwapHead, HandleInv
      <4> QED BY <3>1, <3>2, <3>3, <4>1 DEF F!Next, F!Register
    <3>4. CASE op[t] # "register"
      <4>1. arg[t] \in Ids /\ given' = given
            BY <2>1, <3>4, SMTT(30) DEF SwapHead, HandleInv, PtrInv, TypeOK
      <4> QED BY <3>1, <3>2, <3>4, <4>1 DEF F!Next, F!Unregister
    <3> QED BY <3>3, <3>4
  <2>2. CASE StartWalk(t)
    <3>1. pending = {} /\ given' = given
          BY <1>b, <2>2, Zenon DEF StartWalk, TypeOK, PtrInv
    <3>2. Subscribers' = Subscribers
          BY <2>2, Zenon DEF StartWalk, Subscribers
    <3>3. todo'[t] = Subscribers
          BY <2>2 DEF StartWalk, TypeOK, PtrInv, Subscribers
    <3>4. pc'[t] = "walk"
          BY <2>2, SMTT(30) DEF StartWalk, Goto, TypeOK
    <3>5. pending' = todo'[t]
          BY <1>a, <3>4, OnlyOneWalks DEF TypeOK, LockInv, PtrInv
    <3> QED BY <3>1, <3>2, <3>3, <3>5 DEF F!Next, F!Fire
  <2>3. CASE SendOne(t)
    <3>1. PICK id \in todo[t] : todo' = [todo EXCEPT ![t] = todo[t] \ {id}]
          BY <2>3, Zenon DEF SendOne
    <3>2. id \in Ids /\ pc[t] = "walk" /\ pc' = pc /\ todo'[t] = todo[t] \ {id}
          BY <2>3, <3>1 DEF SendOne, TypeOK
    <3>3. pending = todo[t]
          BY <1>b, <3>2
    <3>4. pending' = todo'[t]
          BY <1>a, <3>2, OnlyOneWalks, SMTT(30) DEF TypeOK, LockInv, PtrInv
    <3>5. Subscribers' = Subscribers /\ given' = given
          BY <2>3 DEF SendOne, Subscribers
    <3> QED BY <3>1, <3>2, <3>3, <3>4, <3>5 DEF F!Next, F!Deliver
  <2>4. CASE ~SwapHead(t) /\ ~StartWalk(t) /\ ~SendOne(t)
    <3>1. Subscribers' = Subscribers
          BY <1>3, <2>4, OthersKeepSubscribers, SMTT(30)
    <3>2. todo' = todo /\ given' = given
          BY <1>3, <2>4, Zenon
          DEF Step, BeginRegister, BeginUnregister, BeginEvent, FetchId, LoadHead, BuildRegister,
              BuildUnregister, FreePrev, EndWalk, Unlock
    <3> QED BY <3>1, <3>2 DEF F!fvars
  <2> QED BY <2>1, <2>2, <2>3, <2>4
<1> QED BY <1>0, <1>1, <1>2, <1>3 DEF Next

(* The copy-on-write list implements FanOut: each registration and removal *)
(* takes effect at one instant, and an event reaches exactly the           *)
(* subscribers of the instant it is raised (for_each_snapshot).            *)
THEOREM ListIsFanOut == Spec => FanOutSpec
<1>1. Init => F!Init
  <2>1. ASSUME Init PROVE UNION {todo[u] : u \in Threads} = {}
        BY <2>1, NobodyWalks DEF Init
  <2> QED BY <2>1 DEF Init, F!Init, Subscribers
<1>2. IInv /\ [Next]_vars => [F!Next]_(F!fvars)
      BY FanOutStep
<1> QED BY Invariant, <1>1, <1>2, PTL DEF Spec, FanOutSpec, F!Spec

(* A handle is never given to a second subscriber, so a late unregister    *)
(* can only ever be a no-op.                                               *)
THEOREM HandlesFresh == Spec => HandleNeverReused
<1>1. ASSUME IInv, [Next]_vars, NEW id \in Ids, id \in given, id \notin Subscribers
      PROVE  id \notin Subscribers'
  <2>1. [F!Next]_(F!fvars)
        BY <1>1, FanOutStep
  <2> QED BY <1>1, <2>1 DEF F!Next, F!fvars, F!Register, F!Unregister, F!Fire, F!Deliver, F!DropAll
<1>2. IInv /\ [Next]_vars =>
        [\A id \in Ids : (id \in given /\ id \notin Subscribers) => id \notin Subscribers']_vars
      BY <1>1
<1> QED BY Invariant, <1>2, PTL DEF Spec, HandleNeverReused
=============================================================================
