------------------------- MODULE RunningCalls_proofs -------------------------
(***************************************************************************)
(* Proofs about the calls that run for long (Cancellation, Backup and      *)
(* RowDelivery), for any number of threads, tokens, subscribers, pages and *)
(* rows.                                                                   *)
(*                                                                         *)
(* Cancellation: IInv is inductive.  The chain it spells out is: a         *)
(* registered subscriber belongs to the one call that holds the mutex, its *)
(* flag is one of that call's tokens, and the tokens of a call in progress *)
(* cannot be collected.  CoverInv and SpentInv add that no token of the    *)
(* call is left without a subscriber, and Cadence what was sent so far.    *)
(*                                                                         *)
(* Backup: CopyInv.  RowDelivery: RowsInv, every row stepped over is in    *)
(* seen or in lost, and whoever lost a row knows it; NeverBack, only a     *)
(* failed step of multi_step starts over.                                  *)
(***************************************************************************)
EXTENDS MCRunningCalls, SequenceTheorems, WellFoundedInduction, TLAPS

(* A call past the mutex holds it. *)
LockInv ==
  \A t \in Threads : mutex = t <=> pc[t] \in {"guard", "run", "check", "drop"}

(* The subscribers are those of the call that holds the mutex. *)
OwnInv ==
  /\ mutex = NULL => cancels = {}
  /\ \A t \in Threads :
       /\ mutex = t => cancels = entries[t]
       /\ mutex # t => entries[t] = {}

(* They look at that call's tokens, and so will those still to come. *)
TargetInv ==
  \A t \in Threads :
    /\ \A id \in entries[t] : target[id] \in toks[t]
    /\ rest[t] \in Seq(toks[t])
    /\ pc[t] \notin {"wait", "guard"} => rest[t] = <<>>

(* The tokens of a call in progress are alive. *)
LiveInv == \A t \in Threads : \A k \in toks[t] : token[k] = "live"

(* Whatever makes a callback ask for an interrupt is a signalled token of  *)
(* the call it runs for.                                                   *)
HitInv ==
  \A t \in Threads :
    /\ todo[t] \subseteq entries[t]
    /\ hit[t] => pc[t] = "check" /\ \E k \in toks[t] : flag[k]
    /\ pc[t] # "check" => todo[t] = {}
    /\ result[t] = "cancelled" => pc[t] = "drop" /\ \E k \in toks[t] : flag[k]

(* A callback that started has room to count in (MaxFires bounds it). *)
RoomInv ==
  \A t \in Threads : pc[t] = "check" => \A i \in ticks : count[i] < MaxFires

IInv == TypeOK /\ LockInv /\ OwnInv /\ TargetInv /\ LiveInv /\ HitInv /\ RoomInv

(* A list is a list of its own elements. *)
LEMMA ListOfItself ==
  ASSUME NEW list \in Seq(Tokens)
  PROVE  list \in Seq(Range(list)) /\ Range(list) \subseteq Tokens
BY DEF Range

(* Registering the head of the remaining tokens leaves the tail. *)
LEMMA HeadAndTail ==
  ASSUME NEW S, NEW s \in Seq(S), s # <<>>
  PROVE  Head(s) \in S /\ Tail(s) \in Seq(S)
OBVIOUS

(* The shape of the state is kept.                                         *)
LEMMA TypeStep ==
  ASSUME IInv, [Next]_vars
  PROVE  TypeOK'
<1> USE ListAssumption, EveryAssumption, NullAssumption, BoundAssumption DEF IInv, TypeOK, RoomInv
<1>0. CASE UNCHANGED vars
      BY <1>0 DEF vars
<1>1. ASSUME NEW t \in Threads, Step(t)
      PROVE  TypeOK'
  <2>1. ASSUME NEW list \in TokenLists, Call(t, list)
        PROVE  TypeOK'
    <3>1. list \in Seq(Tokens) /\ Range(list) \subseteq Tokens
          BY ListAssumption, ListOfItself
    <3> QED BY <2>1, <3>1 DEF Call, tokenVars, tickVars
  <2>2. CASE Acquire(t)
        BY <2>2 DEF Acquire, callVars, tickVars, tokenVars
  <2>3. CASE GuardRegister(t)
    <3>1. Head(rest[t]) \in Tokens /\ Tail(rest[t]) \in Seq(Tokens)
          BY <2>3, HeadAndTail DEF GuardRegister
    <3> QED BY <2>3, <3>1 DEF GuardRegister, tokenVars, tickVars
  <2>4. CASE Run(t)
        BY <2>4 DEF Run, callVars, tickVars, tokenVars
  <2>5. CASE Fire(t)
        BY <2>5 DEF Fire, callVars, tickVars, tokenVars
  <2>6. CASE CheckOne(t)
        BY <2>6 DEF CheckOne, callVars, tickVars, tokenVars
  <2>7. CASE Panic(t)
        BY <2>7 DEF Panic, callVars, tickVars, tokenVars
  <2>8. CASE Interrupt(t)
        BY <2>8 DEF Interrupt, callVars, tickVars, tokenVars
  <2>9. CASE TickPass(t)
        BY <2>9 DEF TickPass, callVars, tickVars, tokenVars
  <2>10. CASE GuardDrop(t)
        BY <2>10 DEF GuardDrop, callVars, tickVars, tokenVars
  <2>11. CASE Return(t)
        BY <2>11 DEF Return, callVars, tickVars, tokenVars
  <2>12. ASSUME NEW outcome \in {"ok", "error"}, Finish(t, outcome)
        PROVE  TypeOK'
        BY <2>12 DEF Finish, callVars, tickVars, tokenVars
  <2> QED BY <1>1, <2>1, <2>2, <2>3, <2>4, <2>5, <2>6, <2>7, <2>8, <2>9, <2>10, <2>11, <2>12, Zenon DEF Step
<1>2. ASSUME NEW k \in Tokens, CreateToken(k)
      PROVE  TypeOK'
      BY <1>2 DEF CreateToken, callVars, tickVars, tokenVars
<1>3. ASSUME NEW k \in Tokens, CancelOperation(k)
      PROVE  TypeOK'
      BY <1>3 DEF CancelOperation, callVars, tickVars, tokenVars
<1>4. ASSUME NEW k \in Tokens, CollectToken(k)
      PROVE  TypeOK'
      BY <1>4 DEF CollectToken, callVars, tickVars, tokenVars
<1>5. ASSUME NEW i \in Ticks, RegisterTick(i)
      PROVE  TypeOK'
      BY <1>5 DEF RegisterTick, callVars, tickVars, tokenVars
<1>6. ASSUME NEW i \in Ticks, UnregisterTick(i)
      PROVE  TypeOK'
      BY <1>6 DEF UnregisterTick, callVars, tickVars, tokenVars
<1> QED BY <1>0, <1>1, <1>2, <1>3, <1>4, <1>5, <1>6, Zenon DEF Next

(* The mutex is held exactly by the call past it.                          *)
LEMMA LockStep ==
  ASSUME IInv, [Next]_vars
  PROVE  LockInv'
<1> USE ListAssumption, EveryAssumption, NullAssumption, BoundAssumption DEF IInv, TypeOK, LockInv
<1>0. CASE UNCHANGED vars
      BY <1>0 DEF vars
<1>1. ASSUME NEW t \in Threads, Step(t)
      PROVE  LockInv'
  <2>1. ASSUME NEW list \in TokenLists, Call(t, list)
        PROVE  LockInv'
        BY <2>1, Zenon DEF Call, callVars, tickVars, tokenVars
  <2>2. CASE Acquire(t) \/ GuardRegister(t) \/ Run(t) \/ Fire(t)
        BY <2>2 DEF Acquire, GuardRegister, Run, Fire, callVars, tickVars, tokenVars
  <2>3. CASE CheckOne(t) \/ Panic(t) \/ Interrupt(t) \/ TickPass(t)
        BY <2>3 DEF CheckOne, Panic, Interrupt, TickPass, callVars, tickVars, tokenVars
  <2>4. CASE GuardDrop(t) \/ Return(t) \/ (\E outcome \in {"ok", "error"} : Finish(t, outcome))
        BY <2>4 DEF GuardDrop, Return, Finish, callVars, tickVars, tokenVars
  <2> QED BY <1>1, <2>1, <2>2, <2>3, <2>4, Zenon DEF Step
<1>2. ASSUME NEW k \in Tokens, CreateToken(k) \/ CancelOperation(k) \/ CollectToken(k)
      PROVE  LockInv'
      BY <1>2 DEF CreateToken, CancelOperation, CollectToken, callVars, tickVars, tokenVars
<1>3. ASSUME NEW i \in Ticks, RegisterTick(i) \/ UnregisterTick(i)
      PROVE  LockInv'
      BY <1>3 DEF RegisterTick, UnregisterTick, callVars, tickVars, tokenVars
<1> QED BY <1>0, <1>1, <1>2, <1>3, Zenon DEF Next

(* A guard registers and removes its own entries, under the mutex.         *)
LEMMA OwnStep ==
  ASSUME IInv, [Next]_vars
  PROVE  OwnInv'
<1> USE ListAssumption, EveryAssumption, NullAssumption, BoundAssumption DEF IInv, TypeOK, LockInv, OwnInv
<1>0. CASE UNCHANGED vars
      BY <1>0 DEF vars
<1>1. ASSUME NEW t \in Threads, Step(t)
      PROVE  OwnInv'
  <2>1. ASSUME NEW list \in TokenLists, Call(t, list)
        PROVE  OwnInv'
        BY <2>1 DEF Call, callVars, tickVars, tokenVars
  <2>2. CASE Acquire(t)
        BY <2>2, Zenon DEF Acquire, callVars, tickVars, tokenVars
  <2>3. CASE GuardRegister(t)
        BY <2>3 DEF GuardRegister, callVars, tickVars, tokenVars
  <2>4. CASE Run(t)
        BY <2>4 DEF Run, callVars, tickVars, tokenVars
  <2>5. CASE Fire(t)
        BY <2>5 DEF Fire, callVars, tickVars, tokenVars
  <2>6. CASE CheckOne(t)
        BY <2>6 DEF CheckOne, callVars, tickVars, tokenVars
  <2>7. CASE Panic(t)
        BY <2>7 DEF Panic, callVars, tickVars, tokenVars
  <2>8. CASE Interrupt(t)
        BY <2>8 DEF Interrupt, callVars, tickVars, tokenVars
  <2>9. CASE TickPass(t)
        BY <2>9 DEF TickPass, callVars, tickVars, tokenVars
  <2>10. CASE GuardDrop(t)
        BY <2>10 DEF GuardDrop, callVars, tickVars, tokenVars
  <2>11. CASE Return(t)
        BY <2>11 DEF Return, callVars, tickVars, tokenVars
  <2>12. ASSUME NEW outcome \in {"ok", "error"}, Finish(t, outcome)
        PROVE  OwnInv'
        BY <2>12 DEF Finish, callVars, tickVars, tokenVars
  <2> QED BY <1>1, <2>1, <2>2, <2>3, <2>4, <2>5, <2>6, <2>7, <2>8, <2>9, <2>10, <2>11, <2>12, Zenon DEF Step
<1>2. ASSUME NEW k \in Tokens, CreateToken(k)
      PROVE  OwnInv'
      BY <1>2 DEF CreateToken, callVars, tickVars, tokenVars
<1>3. ASSUME NEW k \in Tokens, CancelOperation(k)
      PROVE  OwnInv'
      BY <1>3 DEF CancelOperation, callVars, tickVars, tokenVars
<1>4. ASSUME NEW k \in Tokens, CollectToken(k)
      PROVE  OwnInv'
      BY <1>4 DEF CollectToken, callVars, tickVars, tokenVars
<1>5. ASSUME NEW i \in Ticks, RegisterTick(i)
      PROVE  OwnInv'
      BY <1>5 DEF RegisterTick, callVars, tickVars, tokenVars
<1>6. ASSUME NEW i \in Ticks, UnregisterTick(i)
      PROVE  OwnInv'
      BY <1>6 DEF UnregisterTick, callVars, tickVars, tokenVars
<1> QED BY <1>0, <1>1, <1>2, <1>3, <1>4, <1>5, <1>6, Zenon DEF Next

(* A subscriber looks at a token of its own call.                          *)
LEMMA TargetStep ==
  ASSUME IInv, [Next]_vars
  PROVE  TargetInv'
<1> USE ListAssumption, EveryAssumption, NullAssumption, BoundAssumption DEF IInv, TypeOK, TargetInv
<1>0. CASE UNCHANGED vars
      BY <1>0 DEF vars
<1>1. ASSUME NEW t \in Threads, Step(t)
      PROVE  TargetInv'
  <2>1. ASSUME NEW list \in TokenLists, Call(t, list)
        PROVE  TargetInv'
    <3>1. list \in Seq(Range(list))
          BY ListAssumption, ListOfItself
    <3>2. entries[t] = {}
          BY <2>1, Zenon DEF Call, LockInv, OwnInv
    <3> QED BY <2>1, <3>1, <3>2, SMTT(30) DEF Call, tokenVars, tickVars
  <2>2. CASE GuardRegister(t)
    <3>1. Head(rest[t]) \in toks[t] /\ Tail(rest[t]) \in Seq(toks[t])
          BY <2>2, HeadAndTail DEF GuardRegister
    <3>2. \A u \in Threads : u # t => entries[u] = {}
          BY <2>2 DEF GuardRegister, LockInv, OwnInv
    <3> QED BY <2>2, <3>1, <3>2 DEF GuardRegister, tokenVars, tickVars
  <2>3. CASE Return(t)
    <3>1. rest[t] = <<>>
          BY <2>3, Zenon DEF Return
    <3>2. <<>> \in Seq({})
          OBVIOUS
    <3> QED BY <2>3, <3>1, <3>2, SMTT(30) DEF Return, tokenVars, tickVars
  <2>4. CASE Acquire(t) \/ Run(t) \/ Fire(t) \/ CheckOne(t)
        BY <2>4, Zenon DEF Acquire, Run, Fire, CheckOne, callVars, tickVars, tokenVars
  <2>5. CASE Panic(t) \/ Interrupt(t) \/ TickPass(t) \/ GuardDrop(t)
        BY <2>5 DEF Panic, Interrupt, TickPass, GuardDrop, callVars, tickVars, tokenVars
  <2>6. CASE (\E outcome \in {"ok", "error"} : Finish(t, outcome))
        BY <2>6, Zenon DEF Finish, callVars, tickVars, tokenVars
  <2> QED BY <1>1, <2>1, <2>2, <2>3, <2>4, <2>5, <2>6, Zenon DEF Step
<1>2. ASSUME NEW k \in Tokens, CreateToken(k) \/ CancelOperation(k) \/ CollectToken(k)
      PROVE  TargetInv'
      BY <1>2 DEF CreateToken, CancelOperation, CollectToken, callVars, tickVars, tokenVars
<1>3. ASSUME NEW i \in Ticks, RegisterTick(i) \/ UnregisterTick(i)
      PROVE  TargetInv'
      BY <1>3 DEF RegisterTick, UnregisterTick, callVars, tickVars, tokenVars
<1> QED BY <1>0, <1>1, <1>2, <1>3, Zenon DEF Next

(* A token a call was given is not collected under it.                     *)
LEMMA LiveStep ==
  ASSUME IInv, [Next]_vars
  PROVE  LiveInv'
<1> USE ListAssumption, EveryAssumption, NullAssumption, BoundAssumption DEF IInv, TypeOK, LiveInv
<1>0. CASE UNCHANGED vars
      BY <1>0 DEF vars
<1>1. ASSUME NEW t \in Threads, Step(t)
      PROVE  LiveInv'
  <2>1. ASSUME NEW list \in TokenLists, Call(t, list)
        PROVE  LiveInv'
    <3>1. list \in Seq(Tokens) /\ Range(list) \subseteq Tokens
          BY ListAssumption, ListOfItself, Zenon
    <3> QED BY <2>1, <3>1 DEF Call, tokenVars, tickVars
  <2>2. CASE Acquire(t) \/ GuardRegister(t) \/ Run(t) \/ Fire(t)
        BY <2>2, Zenon DEF Acquire, GuardRegister, Run, Fire, callVars, tickVars, tokenVars
  <2>3. CASE CheckOne(t) \/ Panic(t) \/ Interrupt(t) \/ TickPass(t)
        BY <2>3, Zenon DEF CheckOne, Panic, Interrupt, TickPass, callVars, tickVars, tokenVars
  <2>4. CASE GuardDrop(t) \/ Return(t) \/ (\E outcome \in {"ok", "error"} : Finish(t, outcome))
        BY <2>4, Zenon DEF GuardDrop, Return, Finish, callVars, tickVars, tokenVars
  <2> QED BY <1>1, <2>1, <2>2, <2>3, <2>4, Zenon DEF Step
<1>2. ASSUME NEW k \in Tokens, CreateToken(k) \/ CancelOperation(k) \/ CollectToken(k)
      PROVE  LiveInv'
      BY <1>2 DEF CreateToken, CancelOperation, CollectToken, callVars, tickVars, tokenVars
<1>3. ASSUME NEW i \in Ticks, RegisterTick(i) \/ UnregisterTick(i)
      PROVE  LiveInv'
      BY <1>3 DEF RegisterTick, UnregisterTick, callVars, tickVars, tokenVars
<1> QED BY <1>0, <1>1, <1>2, <1>3, Zenon DEF Next

(* An interrupt is asked for by a signalled token of the call.             *)
LEMMA HitStep ==
  ASSUME IInv, [Next]_vars
  PROVE  HitInv'
<1> USE ListAssumption, EveryAssumption, NullAssumption, BoundAssumption DEF IInv, TypeOK, HitInv
<1>0. CASE UNCHANGED vars
      BY <1>0 DEF vars
<1>1. ASSUME NEW t \in Threads, Step(t)
      PROVE  HitInv'
  <2>1. ASSUME NEW list \in TokenLists, Call(t, list)
        PROVE  HitInv'
        BY <2>1 DEF Call, callVars, tickVars, tokenVars
  <2>2. CASE Fire(t)
    <3>1. cancels = entries[t]
          BY <2>2, Zenon DEF Fire, LockInv, OwnInv
    <3> QED BY <2>2, <3>1, SMTT(30) DEF Fire, tokenVars, tickVars
  <2>3. CASE CheckOne(t)
    <3>1. PICK id \in todo[t] : /\ todo' = [todo EXCEPT ![t] = todo[t] \ {id}]
                               /\ hit' = [hit EXCEPT ![t] = hit[t] \/ flag[target[id]]]
          BY <2>3, Zenon DEF CheckOne
    <3>2. target[id] \in toks[t]
          BY <3>1, Zenon DEF TargetInv
    <3> QED BY <2>3, <3>1, <3>2 DEF CheckOne, tokenVars, tickVars
  <2>4. CASE GuardDrop(t)
    <3>1. todo[t] = {}
          BY <2>4, Zenon DEF GuardDrop
    <3>2. PICK id \in entries[t] : entries' = [entries EXCEPT ![t] = @ \ {id}]
          BY <2>4, Zenon DEF GuardDrop
    <3>3. UNCHANGED <<flag, pc, toks, todo, hit, result>>
          BY <2>4, Zenon DEF GuardDrop, tokenVars
    <3>4. /\ todo \in [Threads -> SUBSET Ids] /\ entries \in [Threads -> SUBSET Ids]
          /\ \A u \in Threads : todo[u] \subseteq entries[u]
          BY Zenon
    <3>5. \A u \in Threads : todo'[u] \subseteq entries'[u]
          BY ONLY <3>1, <3>2, <3>3, <3>4
    <3> QED BY <3>3, <3>5, Zenon
  <2>5. CASE Acquire(t) \/ GuardRegister(t) \/ Run(t) \/ Panic(t)
        BY <2>5, SMTT(20) DEF Acquire, GuardRegister, Run, Panic, callVars, tickVars, tokenVars
  <2>6. CASE Interrupt(t) \/ TickPass(t) \/ Return(t) \/ (\E outcome \in {"ok", "error"} : Finish(t, outcome))
        BY <2>6 DEF Interrupt, TickPass, Return, Finish, callVars, tickVars, tokenVars
  <2> QED BY <1>1, <2>1, <2>2, <2>3, <2>4, <2>5, <2>6, Zenon DEF Step
<1>2. ASSUME NEW k \in Tokens, CreateToken(k) \/ CancelOperation(k) \/ CollectToken(k)
      PROVE  HitInv'
  <2>1. CASE CreateToken(k)
        BY <2>1 DEF CreateToken, callVars, tickVars, tokenVars
  <2>2. CASE CancelOperation(k)
        BY <2>2 DEF CancelOperation, callVars, tickVars, tokenVars
  <2>3. CASE CollectToken(k)
        BY <2>3, Zenon DEF CollectToken, callVars, tickVars, tokenVars
  <2> QED BY <1>2, <2>1, <2>2, <2>3, Zenon
<1>3. ASSUME NEW i \in Ticks, RegisterTick(i) \/ UnregisterTick(i)
      PROVE  HitInv'
      BY <1>3 DEF RegisterTick, UnregisterTick, callVars, tickVars, tokenVars
<1> QED BY <1>0, <1>1, <1>2, <1>3, Zenon DEF Next

(* Nobody counts or subscribes while a callback runs.                      *)
LEMMA RoomStep ==
  ASSUME IInv, [Next]_vars
  PROVE  RoomInv'
<1> USE ListAssumption, EveryAssumption, NullAssumption, BoundAssumption DEF IInv, TypeOK, RoomInv
<1>0. CASE UNCHANGED vars
      BY <1>0 DEF vars
<1>1. ASSUME NEW t \in Threads, Step(t)
      PROVE  RoomInv'
  <2>1. ASSUME NEW list \in TokenLists, Call(t, list)
        PROVE  RoomInv'
        BY <2>1 DEF Call, callVars, tickVars, tokenVars
  <2>2. CASE TickPass(t)
        BY <2>2, Zenon DEF TickPass, LockInv, tokenVars
  <2>3. CASE Acquire(t) \/ GuardRegister(t) \/ Run(t) \/ Fire(t)
        BY <2>3, Zenon DEF Acquire, GuardRegister, Run, Fire, callVars, tickVars, tokenVars
  <2>4. CASE CheckOne(t) \/ Panic(t) \/ Interrupt(t) \/ GuardDrop(t)
        BY <2>4, Zenon DEF CheckOne, Panic, Interrupt, GuardDrop, callVars, tickVars, tokenVars
  <2>5. CASE Return(t) \/ (\E outcome \in {"ok", "error"} : Finish(t, outcome))
        BY <2>5, Zenon DEF Return, Finish, callVars, tickVars, tokenVars
  <2> QED BY <1>1, <2>1, <2>2, <2>3, <2>4, <2>5, Zenon DEF Step
<1>2. ASSUME NEW i \in Ticks, RegisterTick(i)
      PROVE  RoomInv'
      BY <1>2, SMTT(30) DEF RegisterTick, LockInv, callVars, tokenVars
<1>3. ASSUME NEW k \in Tokens, CreateToken(k) \/ CancelOperation(k) \/ CollectToken(k)
      PROVE  RoomInv'
      BY <1>3 DEF CreateToken, CancelOperation, CollectToken, callVars, tickVars, tokenVars
<1>4. ASSUME NEW i \in Ticks, UnregisterTick(i)
      PROVE  RoomInv'
      BY <1>4 DEF UnregisterTick, callVars, tickVars, tokenVars
<1> QED BY <1>0, <1>1, <1>2, <1>3, <1>4, Zenon DEF Next

(* Init, and hence every reachable state, satisfies the invariant. *)
THEOREM Invariant == Spec => []IInv
<1>1. Init => IInv
  <2> SUFFICES ASSUME Init PROVE IInv
      OBVIOUS
  <2> USE NullAssumption, BoundAssumption DEF Init
  <2>1. TypeOK
        BY DEF TypeOK
  <2>2. LockInv /\ OwnInv /\ LiveInv
        BY DEF LockInv, OwnInv, LiveInv
  <2>3. TargetInv
        BY DEF TargetInv
  <2>4. HitInv /\ RoomInv
        BY DEF HitInv, RoomInv
  <2> QED BY <2>1, <2>2, <2>3, <2>4, SMTT(30) DEF IInv
<1>2. IInv /\ [Next]_vars => IInv'
      BY TypeStep, LockStep, OwnStep, TargetStep, LiveStep, HitStep, RoomStep, SMTT(30) DEF IInv
<1> QED BY <1>1, <1>2, PTL DEF Spec

(* For any number of threads and tokens: the progress callback reads only  *)
(* flags of live tokens, subscribers exist only for the call that holds    *)
(* the mutex (ProgressHandlerGuard in cancel.rs), and a call is cancelled  *)
(* only by a signalled token of its own.                                   *)
THEOREM DispatchSafe == Spec => []DispatchSound
<1>1. IInv => TypeOK
      BY DEF IInv
<1>2. IInv => FlagsAlive
      BY NullAssumption DEF IInv, TypeOK, OwnInv, TargetInv, LiveInv, FlagsAlive
<1>3. IInv => GuardScoped
  <2> SUFFICES ASSUME IInv PROVE GuardScoped
      OBVIOUS
  <2>1. \A t \in Threads :
          entries[t] # {} => mutex = t /\ pc[t] \in {"guard", "run", "check", "drop"}
        BY DEF IInv, OwnInv, LockInv
  <2>2. CASE mutex = NULL
        BY <2>2, NullAssumption, Zenon DEF IInv, OwnInv, GuardScoped
  <2>3. ASSUME NEW t \in Threads, mutex = t
        PROVE  cancels = UNION {entries[u] : u \in Threads}
        BY <2>3, Zenon DEF IInv, OwnInv
  <2> QED BY <2>1, <2>2, <2>3, SMTT(30) DEF IInv, TypeOK, GuardScoped
<1>4. IInv => OwnTokensOnly
      BY DEF IInv, HitInv, OwnTokensOnly
<1>5. IInv => DispatchSound
      BY <1>1, <1>2, <1>3, <1>4 DEF DispatchSound
<1> QED BY Invariant, <1>5, PTL
----------------------------------------------------------------------------
(* Every token of a call has its subscriber, or will have it before the    *)
(* statement starts: GuardRegister skips none.                             *)
Served(t, k) ==
  \/ \E i \in 1..Len(rest[t]) : rest[t][i] = k
  \/ \E id \in entries[t] : target[id] = k

CoverInv ==
  \A t \in Threads :
    pc[t] \in {"wait", "guard", "run", "check"} => \A k \in toks[t] : Served(t, k)

(* A call that started with a spent token still has one, and a callback of *)
(* that call has seen it or has yet to look at it.                         *)
Pending(t) == hit[t] \/ \E id \in todo[t] : flag[target[id]]

SpentAt(t) ==
  spent[t] => /\ \E k \in toks[t] : flag[k]
              /\ pc[t] = "check" => Pending(t)

SpentInv == \A t \in Threads : SpentAt(t)

(* CoverInv is about four variables of the calls; most steps change none.  *)
LEMMA CoverKept ==
  ASSUME CoverInv, UNCHANGED <<toks, rest, entries, target>>,
         \A t \in Threads : pc'[t] \in {"wait", "guard", "run", "check"}
                              => pc[t] \in {"wait", "guard", "run", "check"}
  PROVE  CoverInv'
BY Zenon DEF CoverInv, Served

(* The others change these variables for one thread. *)
LEMMA CoverOthers ==
  ASSUME CoverInv, NEW t \in Threads,
         \A u \in Threads \ {t} :
           /\ pc'[u] = pc[u] /\ toks'[u] = toks[u] /\ rest'[u] = rest[u]
           /\ entries'[u] = entries[u]
           /\ \A id \in entries[u] : target'[id] = target[id],
         pc'[t] \in {"wait", "guard", "run", "check"} => \A k \in toks'[t] : Served(t, k)'
  PROVE  CoverInv'
<1>1. ASSUME NEW u \in Threads \ {t}, pc'[u] \in {"wait", "guard", "run", "check"}, NEW k \in toks'[u]
      PROVE  Served(u, k)'
  <2>1. Served(u, k)
        BY <1>1, Zenon DEF CoverInv
  <2> QED BY <1>1, <2>1, Zenon DEF Served
<1> QED BY <1>1, Zenon DEF CoverInv

(* No token is left without a subscriber when the statement starts.        *)
LEMMA CoverStep ==
  ASSUME IInv, CoverInv, [Next]_vars
  PROVE  CoverInv'
<1> USE ListAssumption, NullAssumption DEF IInv, TypeOK
<1>0. CASE UNCHANGED vars
      BY <1>0, CoverKept DEF vars
<1>1. ASSUME NEW t \in Threads, Step(t)
      PROVE  CoverInv'
  <2>1. ASSUME NEW list \in TokenLists, Call(t, list)
        PROVE  CoverInv'
    <3>0. DOMAIN list = 1..Len(list)
          OBVIOUS
    <3>1. \A k \in Range(list) : \E i \in 1..Len(list) : list[i] = k
          BY <3>0, Zenon DEF Range
    <3>2. toks'[t] = Range(list) /\ rest'[t] = list
          BY <2>1 DEF Call
    <3>3. \A k \in toks'[t] : Served(t, k)'
          BY <3>1, <3>2, Zenon DEF Served
    <3> QED BY <2>1, <3>3, CoverOthers DEF Call
  <2>2. CASE Acquire(t)
        BY <2>2, CoverKept DEF Acquire
  <2>3. CASE GuardRegister(t)
    <3>1. PICK id \in Ids \ cancels :
            /\ target' = [target EXCEPT ![id] = Head(rest[t])]
            /\ entries' = [entries EXCEPT ![t] = entries[t] \cup {id}]
          BY <2>3, Zenon DEF GuardRegister
    <3>2. \A u \in Threads : u # t => entries[u] = {}
          BY <2>3 DEF GuardRegister, LockInv, OwnInv
    <3>3. entries[t] \subseteq cancels
          BY <2>3, Zenon DEF GuardRegister, LockInv, OwnInv
    <3>4. \A i \in 1..Len(rest[t]) : i # 1 => i - 1 \in 1..Len(Tail(rest[t])) /\ Tail(rest[t])[i - 1] = rest[t][i]
          BY <2>3 DEF GuardRegister
    <3>5. rest' = [rest EXCEPT ![t] = Tail(rest[t])] /\ UNCHANGED <<toks, pc>> /\ Head(rest[t]) = rest[t][1]
          BY <2>3 DEF GuardRegister
    <3>6. ASSUME NEW k \in toks[t]
          PROVE  Served(t, k)'
      <4>1. Served(t, k)
            BY <2>3 DEF GuardRegister, CoverInv
      <4>2. CASE k = Head(rest[t])
            BY <3>1, <4>2, Zenon DEF Served
      <4>3. ASSUME NEW i \in 1..Len(rest[t]), rest[t][i] = k, i # 1
            PROVE  Served(t, k)'
            BY <3>4, <3>5, <4>3, Zenon DEF Served
      <4>4. ASSUME NEW j \in entries[t], target[j] = k
            PROVE  Served(t, k)'
        <5>1. j # id /\ j \in entries'[t] /\ target'[j] = k
              BY <3>1, <3>3, <4>4
        <5> QED BY <5>1, Zenon DEF Served
      <4> QED BY <3>5, <4>1, <4>2, <4>3, <4>4, Zenon DEF Served
    <3>7. \A u \in Threads \ {t} : entries'[u] = entries[u] /\ rest'[u] = rest[u]
          BY <3>1, <3>5
    <3> QED BY <3>2, <3>5, <3>6, <3>7, CoverOthers, Zenon
  <2>4. CASE Run(t)
        BY <2>4, CoverKept DEF Run
  <2>5. CASE Fire(t)
        BY <2>5, CoverKept, Zenon DEF Fire
  <2>6. CASE CheckOne(t)
        BY <2>6, CoverKept DEF CheckOne
  <2>7. CASE Panic(t)
        BY <2>7, CoverKept DEF Panic
  <2>8. CASE Interrupt(t)
        BY <2>8, CoverKept, Zenon DEF Interrupt
  <2>9. CASE TickPass(t)
        BY <2>9, CoverKept DEF TickPass
  <2>10. CASE GuardDrop(t)
        BY <2>10, CoverOthers, Zenon DEF GuardDrop
  <2>11. CASE Return(t)
        BY <2>11, CoverOthers DEF Return
  <2>12. ASSUME NEW outcome \in {"ok", "error"}, Finish(t, outcome)
        PROVE  CoverInv'
        BY <2>12, CoverKept, Zenon DEF Finish
  <2> QED BY <1>1, <2>1, <2>2, <2>3, <2>4, <2>5, <2>6, <2>7, <2>8, <2>9, <2>10, <2>11, <2>12, Zenon DEF Step
<1>2. ASSUME NEW k \in Tokens, CreateToken(k) \/ CancelOperation(k) \/ CollectToken(k)
      PROVE  CoverInv'
      BY <1>2, CoverKept, Zenon DEF CreateToken, CancelOperation, CollectToken, callVars
<1>3. ASSUME NEW i \in Ticks, RegisterTick(i) \/ UnregisterTick(i)
      PROVE  CoverInv'
      BY <1>3, CoverKept DEF RegisterTick, UnregisterTick, callVars
<1> QED BY <1>0, <1>1, <1>2, <1>3, Zenon DEF Next

(* Flags are only ever raised, and a registered subscriber keeps its flag: *)
(* what a spent call knows outlives the steps of others.                   *)
LEMMA SpentKept ==
  ASSUME IInv, SpentInv, NEW u \in Threads,
         spent'[u] = spent[u], toks'[u] = toks[u], pc'[u] = pc[u],
         hit'[u] = hit[u], todo'[u] = todo[u],
         \A k \in Tokens : flag[k] => flag'[k],
         \A id \in cancels : target'[id] = target[id]
  PROVE  SpentAt(u)'
<1>1. toks[u] \subseteq Tokens
      BY Zenon DEF IInv, TypeOK
<1>2. ASSUME NEW id \in todo[u]
      PROVE  id \in cancels /\ target[id] \in Tokens
  <2>1. id \in entries[u]
        BY <1>2, Zenon DEF IInv, HitInv
  <2>2. id \in cancels
        BY <2>1, Zenon DEF IInv, OwnInv
  <2> QED BY <1>1, <2>1, <2>2, Zenon DEF IInv, TargetInv
<1>3. Pending(u) => Pending(u)'
      BY <1>2, Zenon DEF Pending
<1> QED BY <1>1, <1>3, Zenon DEF SpentInv, SpentAt

(* A step of one call leaves the others alone. *)
LEMMA SpentOthers ==
  ASSUME IInv, SpentInv, NEW t \in Threads, SpentAt(t)',
         \A u \in Threads \ {t} :
           /\ spent'[u] = spent[u] /\ toks'[u] = toks[u] /\ pc'[u] = pc[u]
           /\ hit'[u] = hit[u] /\ todo'[u] = todo[u],
         flag' = flag,
         \A id \in cancels : target'[id] = target[id]
  PROVE  SpentInv'
BY SpentKept, Zenon DEF SpentInv

(* A spent call's next complete callback will see the signalled token.     *)
LEMMA SpentStep ==
  ASSUME IInv, CoverInv, SpentInv, [Next]_vars
  PROVE  SpentInv'
<1> USE ListAssumption, NullAssumption
<1>0. CASE UNCHANGED vars
      BY <1>0, Zenon DEF vars, SpentInv, SpentAt, Pending
<1>1. ASSUME NEW t \in Threads, Step(t)
      PROVE  SpentInv'
  <2>0. spent[t] => \E k \in toks[t] : flag[k]
        BY Zenon DEF SpentInv, SpentAt
  <2> USE DEF IInv, TypeOK
  <2>1. ASSUME NEW list \in TokenLists, Call(t, list)
        PROVE  SpentInv'
    <3>1. spent'[t] => \E k \in toks'[t] : flag'[k]
          BY <2>1, Zenon DEF Call, tokenVars
    <3>2. SpentAt(t)'
          BY <2>1, <3>1, Zenon DEF Call, SpentAt
    <3> QED BY <2>1, <3>2, SpentOthers, Zenon DEF Call, tokenVars
  <2>2. CASE Acquire(t)
    <3>1. SpentAt(t)'
          BY <2>2, <2>0, Zenon DEF Acquire, tokenVars, SpentAt
    <3> QED BY <2>2, <3>1, SpentOthers, Zenon DEF Acquire, tokenVars
  <2>3. CASE GuardRegister(t)
    <3>1. SpentAt(t)'
          BY <2>3, <2>0, Zenon DEF GuardRegister, tokenVars, SpentAt
    <3> QED BY <2>3, <3>1, SpentOthers, Zenon DEF GuardRegister, tokenVars
  <2>4. CASE Run(t)
    <3>1. SpentAt(t)'
          BY <2>4, <2>0 DEF Run, tokenVars, SpentAt
    <3> QED BY <2>4, <3>1, SpentOthers, Zenon DEF Run, tokenVars
  <2>5. CASE Fire(t)
    <3>1. cancels = entries[t] /\ rest[t] = <<>>
          BY <2>5, Zenon DEF Fire, LockInv, OwnInv, TargetInv
    <3>2. ASSUME NEW k \in toks[t], flag[k]
          PROVE  \E id \in todo'[t] : flag'[target'[id]]
      <4>1. Served(t, k)
            BY <2>5, Zenon DEF Fire, CoverInv
      <4>2. PICK id \in entries[t] : target[id] = k
            BY <3>1, <4>1 DEF Served
      <4>3. id \in todo'[t] /\ UNCHANGED <<flag, target>>
            BY <2>5, <3>1 DEF Fire, tokenVars
      <4> QED BY <3>2, <4>2, <4>3, Zenon
    <3>3. SpentAt(t)'
          BY <2>5, <2>0, <3>2, Zenon DEF Fire, tokenVars, SpentAt, Pending
    <3> QED BY <2>5, <3>3, SpentOthers, Zenon DEF Fire, tokenVars
  <2>6. CASE CheckOne(t)
    <3>1. PICK id \in todo[t] : /\ todo' = [todo EXCEPT ![t] = todo[t] \ {id}]
                               /\ hit' = [hit EXCEPT ![t] = hit[t] \/ flag[target[id]]]
          BY <2>6, Zenon DEF CheckOne
    <3>2. spent[t] => Pending(t)
          BY <2>6, Zenon DEF CheckOne, SpentInv, SpentAt
    <3>3. todo'[t] = todo[t] \ {id} /\ hit'[t] = (hit[t] \/ flag[target[id]])
          BY <3>1
    <3>4. Pending(t) => Pending(t)'
          BY <2>6, <3>3, Zenon DEF CheckOne, tokenVars, Pending
    <3>5. SpentAt(t)'
          BY <2>6, <2>0, <3>2, <3>4, Zenon DEF CheckOne, tokenVars, SpentAt
    <3> QED BY <2>6, <3>1, <3>5, SpentOthers, Zenon DEF CheckOne, tokenVars
  <2>7. CASE Panic(t)
    <3>1. SpentAt(t)'
          BY <2>7, <2>0 DEF Panic, tokenVars, SpentAt
    <3> QED BY <2>7, <3>1, SpentOthers, Zenon DEF Panic, tokenVars
  <2>8. CASE Interrupt(t)
    <3>1. SpentAt(t)'
          BY <2>8, <2>0 DEF Interrupt, tokenVars, SpentAt
    <3> QED BY <2>8, <3>1, SpentOthers, Zenon DEF Interrupt, tokenVars
  <2>9. CASE TickPass(t)
    <3>1. SpentAt(t)'
          BY <2>9, <2>0 DEF TickPass, tokenVars, SpentAt
    <3> QED BY <2>9, <3>1, SpentOthers, Zenon DEF TickPass, tokenVars
  <2>10. CASE GuardDrop(t)
    <3>1. SpentAt(t)'
          BY <2>10, <2>0 DEF GuardDrop, tokenVars, SpentAt
    <3> QED BY <2>10, <3>1, SpentOthers, Zenon DEF GuardDrop, tokenVars
  <2>11. CASE Return(t)
    <3>1. SpentAt(t)'
          BY <2>11, <2>0, Zenon DEF Return, tokenVars, SpentAt
    <3> QED BY <2>11, <3>1, SpentOthers, Zenon DEF Return, tokenVars
  <2>12. ASSUME NEW outcome \in {"ok", "error"}, Finish(t, outcome)
        PROVE  SpentInv'
    <3>1. SpentAt(t)'
          BY <2>12, <2>0 DEF Finish, tokenVars, SpentAt
    <3> QED BY <2>12, <3>1, SpentOthers, Zenon DEF Finish, tokenVars
  <2> QED BY <1>1, <2>1, <2>2, <2>3, <2>4, <2>5, <2>6, <2>7, <2>8, <2>9, <2>10, <2>11, <2>12, Zenon DEF Step
<1>2. ASSUME NEW k \in Tokens, CreateToken(k) \/ CollectToken(k)
      PROVE  SpentInv'
  <2>1. UNCHANGED <<flag, target, callVars>>
        BY <1>2, Zenon DEF CreateToken, CollectToken
  <2> QED BY <2>1, Zenon DEF callVars, SpentInv, SpentAt, Pending
<1>4. ASSUME NEW k \in Tokens, CancelOperation(k)
      PROVE  SpentInv'
  <2>1. \A j \in Tokens : flag[j] => flag'[j]
        BY <1>4 DEF CancelOperation, IInv, TypeOK
  <2> QED BY <1>4, <2>1, SpentKept, Zenon DEF CancelOperation, callVars, SpentInv
<1>3. ASSUME NEW i \in Ticks, RegisterTick(i) \/ UnregisterTick(i)
      PROVE  SpentInv'
      BY <1>3, Zenon DEF RegisterTick, UnregisterTick, callVars, tokenVars, SpentInv, SpentAt, Pending
<1> QED BY <1>0, <1>1, <1>2, <1>3, <1>4, Zenon DEF Next

(* A callback is over when its tick pass is, or when it panics. *)
LEMMA CallbackEnds ==
  ASSUME IInv, [Next]_vars, NEW t \in Threads, pc[t] = "check", pc'[t] = "run"
  PROVE  TickPass(t) \/ Panic(t)
<1> USE DEF IInv, TypeOK
<1>1. pc' # pc
      OBVIOUS
<1>2. PICK u \in Threads : Step(u)
      BY <1>1, Zenon DEF Next, vars, CreateToken, CancelOperation, CollectToken, RegisterTick,
                 UnregisterTick, callVars
<1>3. u = t
  <2> SUFFICES ASSUME u # t PROVE pc'[t] = pc[t]
      OBVIOUS
  <2>1. CASE (\E list \in TokenLists : Call(u, list)) \/ Acquire(u) \/ GuardRegister(u) \/ Run(u)
        BY <2>1, Zenon DEF Call, Acquire, GuardRegister, Run
  <2>2. CASE (\E outcome \in {"ok", "error"} : Finish(u, outcome)) \/ Fire(u) \/ CheckOne(u) \/ Panic(u)
        BY <2>2, Zenon DEF Finish, Fire, CheckOne, Panic
  <2>3. CASE Interrupt(u) \/ TickPass(u) \/ GuardDrop(u) \/ Return(u)
        BY <2>3, Zenon DEF Interrupt, TickPass, GuardDrop, Return
  <2> QED BY <1>2, <2>1, <2>2, <2>3, Zenon DEF Step
<1>4. ~(\E list \in TokenLists : Call(t, list)) /\ ~Acquire(t) /\ ~GuardRegister(t) /\ ~Run(t)
      BY Zenon DEF Call, Acquire, GuardRegister, Run
<1>5. ~(\E outcome \in {"ok", "error"} : Finish(t, outcome)) /\ ~Fire(t) /\ ~CheckOne(t)
      BY <1>1, Zenon DEF Finish, Fire, CheckOne
<1>6. ~Interrupt(t) /\ ~GuardDrop(t) /\ ~Return(t)
      BY DEF Interrupt, GuardDrop, Return
<1> QED BY <1>2, <1>3, <1>4, <1>5, <1>6, Zenon DEF Step

(* For any number of threads and tokens: a call that starts with a token   *)
(* already signalled gets past no callback that completes, because every   *)
(* one of its tokens is registered before the statement starts and the     *)
(* dispatch callback looks at all of them (progress_dispatch_callback).    *)
THEOREM SpentNeverPasses == Spec => SpentTokenInterrupts
<1>1. Spec => [](IInv /\ CoverInv /\ SpentInv)
  <2>1. Init => CoverInv /\ SpentInv
        BY DEF Init, CoverInv, SpentInv, SpentAt
  <2>2. IInv /\ CoverInv /\ SpentInv /\ [Next]_vars => CoverInv' /\ SpentInv'
        BY CoverStep, SpentStep, Zenon
  <2> QED BY Invariant, <2>1, <2>2, PTL DEF Spec
<1>2. ASSUME IInv, SpentInv, [Next]_vars, NEW t \in Threads,
             spent[t], pc[t] = "check", pc'[t] = "run"
      PROVE  panics' # panics
  <2>1. ~TickPass(t)
        BY <1>2, Zenon DEF TickPass, SpentInv, SpentAt, Pending
  <2>2. Panic(t)
        BY <1>2, <2>1, CallbackEnds
  <2> QED BY <1>2, <2>2, BoundAssumption DEF Panic, IInv, TypeOK
<1>3. IInv /\ SpentInv /\ [Next]_vars =>
        [\A t \in Threads : (spent[t] /\ pc[t] = "check" /\ pc'[t] = "run") => panics' # panics]_vars
      BY <1>2, Zenon
<1> QED BY <1>1, <1>3, PTL DEF Spec, SpentTokenInterrupts
----------------------------------------------------------------------------
(* The counts a subscriber with decimation e has been sent once it has     *)
(* counted c callbacks.                                                    *)
Upto(c, e) == (c + e - 1) \div e
Cadence(c, e) == [m \in 1..Upto(c, e) |-> (m - 1) * e]

(* Division with remainder. *)
LEMMA Quotient ==
  ASSUME NEW q \in Nat, NEW e \in Nat \ {0}, NEW r \in 0..(e - 1)
  PROVE  (q * e + r) \div e = q
<1>1. q * e \in Nat /\ q * e + r \in Nat
      OBVIOUS
<1>2. PICK d \in Nat, m \in 0..(e - 1) : q * e + r = d * e + m /\ (q * e + r) \div e = d
      BY <1>1
<1>3. (q - d) * e = m - r
      BY <1>2
<1>4. ~(q - d >= 1) /\ ~(q - d <= -1)
      BY <1>3
<1> QED BY <1>2, <1>4

LEMMA Remainder ==
  ASSUME NEW c \in Nat, NEW e \in Nat, e > 0
  PROVE  \E q \in Nat, r \in 0..(e - 1) : c = q * e + r /\ c % e = r
<1>1. PICK q \in Nat : q = c \div e
      OBVIOUS
<1>2. PICK r \in 0..(e - 1) : r = c % e
      OBVIOUS
<1>3. c % e = c - (c \div e) * e
      OBVIOUS
<1>4. c = q * e + r
      BY <1>1, <1>2, <1>3
<1> QED BY <1>1, <1>2, <1>4, Zenon

(* One more callback is one more message exactly when the count is a       *)
(* multiple of e (send_tick_to_pid).                                       *)
LEMMA OneMoreMessage ==
  ASSUME NEW c \in Nat, NEW e \in Nat \ {0}, c % e = 0
  PROVE  /\ Upto(c, e) \in Nat
         /\ Upto(c + 1, e) = Upto(c, e) + 1
         /\ c = Upto(c, e) * e
<1>0. e \in Nat /\ e > 0
      OBVIOUS
<1>1. PICK q \in Nat, r \in 0..(e - 1) : c = q * e + r /\ c % e = r
      BY <1>0, Remainder, Zenon
<1>2. c = q * e
      BY <1>1
<1>3. c + 1 + e - 1 = (q + 1) * e + 0
      BY <1>2
<1>4. c + e - 1 = q * e + (e - 1)
      BY <1>2
<1>5. Upto(c + 1, e) = q + 1
      BY <1>3, Quotient DEF Upto
<1>6. Upto(c, e) = q
      BY <1>4, Quotient DEF Upto
<1> QED BY <1>2, <1>5, <1>6

LEMMA NoMessage ==
  ASSUME NEW c \in Nat, NEW e \in Nat \ {0}, c % e # 0
  PROVE  Upto(c + 1, e) = Upto(c, e)
<1>0. e \in Nat /\ e > 0
      OBVIOUS
<1>1. PICK q \in Nat, r \in 0..(e - 1) : c = q * e + r /\ c % e = r
      BY <1>0, Remainder, Zenon
<1>2. c + 1 + e - 1 = (q + 1) * e + r
      BY <1>1
<1>3. c + e - 1 = (q + 1) * e + (r - 1) /\ r - 1 \in 0..(e - 1)
      BY <1>1
<1>4. Upto(c + 1, e) = q + 1
      BY <1>2, Quotient DEF Upto
<1>5. Upto(c, e) = q + 1
      BY <1>3, Quotient DEF Upto
<1> QED BY <1>4, <1>5

LEMMA CadenceStarts ==
  ASSUME NEW e \in Nat \ {0}
  PROVE  Cadence(0, e) = <<>>
<1>1. 0 + e - 1 = 0 * e + (e - 1)
      OBVIOUS
<1>2. Upto(0, e) = 0
      BY <1>1, Quotient DEF Upto
<1> QED BY <1>2 DEF Cadence

LEMMA CadenceGoesOn ==
  ASSUME NEW c \in Nat, NEW e \in Nat \ {0}
  PROVE  Cadence(c + 1, e) = IF c % e = 0 THEN Append(Cadence(c, e), c) ELSE Cadence(c, e)
<1>1. CASE c % e = 0
  <2> DEFINE n0 == Upto(c, e)
  <2>1. n0 \in Nat /\ Upto(c + 1, e) = n0 + 1 /\ c = n0 * e
        BY <1>1, OneMoreMessage, Zenon
  <2> HIDE DEF n0
  <2>2. Cadence(c, e) = [m \in 1..n0 |-> (m - 1) * e]
        BY DEF Cadence, n0
  <2>3. Append([m \in 1..n0 |-> (m - 1) * e], n0 * e) = [m \in 1..(n0 + 1) |-> (m - 1) * e]
        BY <2>1
  <2> QED BY <1>1, <2>1, <2>2, <2>3, Zenon DEF Cadence
<1>2. CASE c % e # 0
      BY <1>2, NoMessage, Zenon DEF Cadence
<1> QED BY <1>1, <1>2

(* For any number of subscribers and any decimations: whoever registers,   *)
(* unregisters or cancels in between, a progress subscriber has got the    *)
(* counts 0, n, 2n, ... below its own counter and no other (TickSubscriber,*)
(* whose counter the clones share).                                        *)
THEOREM TicksInCadence == Spec => []TickCadence
<1> DEFINE Inv == \A i \in ticks : sent[i] = Cadence(count[i], Every[i])
<1>1. Init => Inv
      BY DEF Init
<1>2. ASSUME IInv, Inv, [Next]_vars
      PROVE  Inv'
  <2> USE EveryAssumption, BoundAssumption
  <2>1. CASE UNCHANGED tickVars
        BY <1>2, <2>1, Zenon DEF tickVars
  <2>2. ASSUME NEW t \in Threads, TickPass(t), NEW i \in ticks
        PROVE  sent'[i] = Cadence(count'[i], Every[i])
    <3>1. count[i] \in Nat /\ Every[i] \in Nat \ {0} /\ i \in Ticks
          BY <1>2, <2>2 DEF IInv, TypeOK
    <3>2. count'[i] = count[i] + 1
          BY <2>2, <3>1, Zenon DEF TickPass
    <3>3. sent'[i] = IF count[i] % Every[i] = 0 THEN Append(sent[i], count[i]) ELSE sent[i]
          BY <2>2, <3>1, Zenon DEF TickPass
    <3>4. sent[i] = Cadence(count[i], Every[i])
          BY <1>2
    <3> QED BY <3>1, <3>2, <3>3, <3>4, CadenceGoesOn, Zenon
  <2>3. ASSUME NEW j \in Ticks, RegisterTick(j)
        PROVE  Inv'
    <3>1. sent'[j] = <<>> /\ count'[j] = 0
          BY <1>2, <2>3, Zenon DEF RegisterTick, IInv, TypeOK
    <3>2. \A i \in Ticks \ {j} : sent'[i] = sent[i] /\ count'[i] = count[i]
          BY <1>2, <2>3, Zenon DEF RegisterTick, IInv, TypeOK
    <3>3. ticks' = ticks \cup {j} /\ ticks \subseteq Ticks
          BY <1>2, <2>3 DEF RegisterTick, IInv, TypeOK
    <3>4. Cadence(0, Every[j]) = <<>>
          BY CadenceStarts
    <3> QED BY <1>2, <3>1, <3>2, <3>3, <3>4, Zenon
  <2>4. ASSUME NEW j \in Ticks, UnregisterTick(j)
        PROVE  Inv'
        BY <1>2, <2>4, Zenon DEF UnregisterTick
  <2>5. ASSUME NEW t \in Threads, Step(t)
        PROVE  UNCHANGED tickVars \/ TickPass(t)
        BY <2>5, Zenon DEF Step, Call, Acquire, GuardRegister, Run, Finish, Fire, CheckOne,
                    Panic, Interrupt, GuardDrop, Return
  <2>6. ASSUME NEW k \in Tokens, CreateToken(k) \/ CancelOperation(k) \/ CollectToken(k)
        PROVE  UNCHANGED tickVars
        BY <2>6, Zenon DEF CreateToken, CancelOperation, CollectToken
  <2>7. ASSUME NEW t \in Threads, TickPass(t)
        PROVE  Inv'
        BY <2>2, <2>7, Zenon DEF TickPass
  <2>8. UNCHANGED vars => UNCHANGED tickVars
        BY Zenon DEF vars, tickVars
  <2> QED BY <1>2, <2>1, <2>3, <2>4, <2>5, <2>6, <2>7, <2>8, Zenon DEF Next
<1>3. Inv => TickCadence
      BY Zenon DEF Cadence, Upto, TickCadence
<1> QED BY Invariant, <1>1, <1>2, <1>3, PTL DEF Spec
----------------------------------------------------------------------------
(* Nothing is in the destination before the call that put it there says so.*)
CopyInv ==
  /\ version \in Nat
  /\ copy_pc # "return" => dst = -1
  /\ OkMeansCopied

(* For any number of pages, step sizes, writes and locks of others: backup,*)
(* restore and backup_with_progress say ok exactly when the destination    *)
(* holds a complete copy, and the last progress message before ok says     *)
(* that nothing remains.                                                   *)
THEOREM OkIsACopy == B!Spec => []OkMeansCopied
<1> USE BackupAssumption DEF OkMeansCopied, B!OkMeansCopied
<1>1. B!Init => CopyInv
      BY DEF B!Init, CopyInv
<1>2. ASSUME CopyInv, [B!Next]_(B!vars)
      PROVE  CopyInv'
  <2>0. CASE UNCHANGED B!vars
        BY <1>2, <2>0 DEF B!vars, CopyInv
  <2>1. ASSUME NEW k, NEW s, B!Call(k, s)
        PROVE  CopyInv'
        BY <1>2, <2>1 DEF B!Call, CopyInv
  <2>2. CASE B!Poll
        BY <1>2, <2>2, Zenon DEF B!Poll, CopyInv
  <2>3. CASE B!Step
    <3>1. \A from : B!Reach(from) = Pages => Pages - B!Reach(from) = 0
          OBVIOUS
    <3> QED BY <1>2, <2>3, <3>1 DEF B!Step, CopyInv
  <2>4. CASE B!StepBusy
        BY <1>2, <2>4 DEF B!StepBusy, B!AfterBusy, CopyInv
  <2>5. CASE B!StepFails
        BY <1>2, <2>5 DEF B!StepFails, CopyInv
  <2>6. CASE B!Return
        BY <1>2, <2>6 DEF B!Return, CopyInv
  <2>7. CASE B!Cancel \/ B!Others
        BY <1>2, <2>7 DEF B!Cancel, B!Others, B!callVars, CopyInv
  <2> QED BY <1>2, <2>0, <2>1, <2>2, <2>3, <2>4, <2>5, <2>6, <2>7, Zenon DEF B!Next
<1>3. CopyInv => OkMeansCopied
      BY DEF CopyInv
<1> QED BY <1>1, <1>2, <1>3, PTL DEF B!Spec
----------------------------------------------------------------------------
(* Every row stepped over was handed out or dropped with a failed batch.   *)
RowsType ==
  /\ rows \in Seq({"good", "bad"}) /\ pos \in 0..Len(rows) /\ size \in Int
  /\ mode \in R!Modes /\ told \in BOOLEAN /\ errored \in BOOLEAN
  /\ seen \in Seq(1..pos) /\ lost \in SUBSET (1..pos)

SeenInv ==
  /\ \A i \in 1..Len(seen) : rows[seen[i]] = "good"
  /\ \A i, j \in 1..Len(seen) : i < j => seen[i] < seen[j]
  /\ \A p \in 1..pos : p \in lost \/ \E i \in 1..Len(seen) : seen[i] = p

(* A consumer that lost a row knows, unless it asked not to, and a stream  *)
(* ends there.                                                             *)
LostInv ==
  /\ mode # "manual" => \A i \in 1..Len(seen) : lost \cap 1..seen[i] = {}
  /\ lost # {} => told \/ mode = "halt"
  /\ lost # {} /\ mode # "manual" => fin # "no" \/ errored

(* The statement is only given back early when everything was read, and an *)
(* enumeration that completed read everything or emitted its error.        *)
EndInv ==
  /\ errored => told /\ mode = "emit_error"
  /\ fin = "unopened" => pos = 0 /\ lost = {} /\ seen = <<>> /\ ~errored
  /\ (stmt = "null" /\ mode # "manual" /\ fin = "no" /\ ~errored) => pos = Len(rows)
  /\ fin = "completed" =>
       \/ mode = "halt"
       \/ mode = "manual" /\ pos = Len(rows)
       \/ mode = "emit_error" /\ errored
       \/ mode # "manual" /\ pos = Len(rows) /\ lost = {}

RowsInv == RowsType /\ SeenInv /\ LostInv /\ EndInv

(* A set of naturals has a least element. *)
LEMMA Smallest ==
  ASSUME NEW T \in SUBSET Nat, T # {}
  PROVE  \E x \in T : \A y \in T : x <= y
<1> DEFINE Less == {ss \in Nat \X Nat : ss[1] < ss[2]}
<1>1. IsWellFoundedOn(Less, Nat)
      BY NatLessThanWellFounded, Zenon DEF OpToRel
<1> HIDE DEF Less
<1>2. PICK x \in T : \A y \in T : ~(<<y, x>> \in Less)
      BY <1>1, WFMin, Zenon
<1>3. \A y \in T : ~(y < x)
      BY <1>2, Zenon DEF Less
<1> QED BY <1>3

(* A batch is what is left of the result, up to its size. *)
LEMMA BatchOfRows ==
  ASSUME RowsType, size >= 1
  PROVE  /\ R!Batch \in Seq({"good", "bad"})
         /\ Len(R!Batch) \in 0..(Len(rows) - pos)
         /\ \A i \in 1..Len(R!Batch) : R!Batch[i] = rows[pos + i]
         /\ Len(R!Batch) < size => pos + Len(R!Batch) = Len(rows)
<1> DEFINE end == IF pos + size > Len(rows) THEN Len(rows) ELSE pos + size
<1>1. /\ end \in pos..Len(rows)
      /\ end < pos + size => end = Len(rows)
      /\ pos \in Nat /\ Len(rows) \in Nat /\ end \in Nat
      BY DEF RowsType
<1>2. R!Batch = SubSeq(rows, pos + 1, end)
      BY DEF R!Batch
<1> HIDE DEF end
<1>3. \A i \in (pos + 1)..end : rows[i] \in {"good", "bad"}
      BY <1>1 DEF RowsType
<1>4. pos + 1 \in Int /\ end \in Int
      BY <1>1
<1>5. /\ R!Batch \in Seq({"good", "bad"})
      /\ Len(R!Batch) = IF pos + 1 <= end THEN end - (pos + 1) + 1 ELSE 0
      /\ \A i \in 1..(end - (pos + 1) + 1) : R!Batch[i] = rows[pos + 1 + i - 1]
      BY <1>2, <1>3, <1>4, SubSeqProperties
<1>6. Len(R!Batch) = end - pos /\ end - (pos + 1) + 1 = end - pos
      BY <1>1, <1>5
<1>7. \A i \in 1..Len(R!Batch) : R!Batch[i] = rows[pos + i]
  <2> TAKE i \in 1..Len(R!Batch)
  <2>1. i \in 1..(end - (pos + 1) + 1) /\ pos + 1 + i - 1 = pos + i
        BY <1>1, <1>6
  <2> QED BY <1>5, <2>1, Zenon
<1>8. /\ Len(R!Batch) \in 0..(Len(rows) - pos)
      /\ Len(R!Batch) < size => pos + Len(R!Batch) = Len(rows)
      BY <1>1, <1>6 DEF RowsType
<1> QED BY <1>5, <1>7, <1>8, Zenon

(* FirstBad is a place in the batch, or there is nothing bad in it. *)
LEMMA FirstBadOfBatch ==
  ASSUME RowsType, size >= 1
  PROVE  /\ R!FirstBad # 0 => R!FirstBad \in 1..Len(R!Batch)
         /\ R!FirstBad = 0 => \A i \in 1..Len(R!Batch) : rows[pos + i] = "good"
<1>1. R!BadOnes \subseteq 1..Len(R!Batch)
      BY BatchOfRows DEF R!BadOnes
<1>2. R!BadOnes # {} => R!FirstBad \in R!BadOnes
  <2> SUFFICES ASSUME R!BadOnes # {} PROVE R!FirstBad \in R!BadOnes
      OBVIOUS
  <2>1. R!BadOnes \in SUBSET Nat
        BY <1>1
  <2>2. \E i \in R!BadOnes : \A j \in R!BadOnes : i <= j
        BY <2>1, Smallest
  <2> QED BY <2>2 DEF R!FirstBad
<1>3. R!FirstBad = 0 => R!BadOnes = {}
      BY <1>1, <1>2
<1>4. R!BadOnes = {} => \A i \in 1..Len(R!Batch) : rows[pos + i] = "good"
      BY BatchOfRows DEF R!BadOnes
<1>5. R!BadOnes = {} => R!FirstBad = 0
      BY DEF R!FirstBad
<1> QED BY <1>1, <1>2, <1>3, <1>4, <1>5, Zenon

(* The row numbers of the next L rows, appended to a sequence of row       *)
(* numbers up to P.                                                        *)
LEMMA Appended ==
  ASSUME NEW P \in Nat, NEW L \in Nat, NEW s \in Seq(1..P)
  PROVE  LET t == s \o [i \in 1..L |-> P + i] IN
         /\ t \in Seq(1..(P + L)) /\ Len(t) = Len(s) + L
         /\ \A i \in 1..Len(s) : t[i] = s[i] /\ t[i] \in 1..P
         /\ \A i \in 1..L : t[Len(s) + i] = P + i
OBVIOUS

(* An index of the longer sequence is an old one or a new one. *)
LEMMA OldOrNew ==
  ASSUME NEW N \in Nat, NEW L \in Nat, NEW i \in 1..(N + L)
  PROVE  i \in 1..N \/ \E k \in 1..L : i = N + k
<1>1. CASE i > N
  <2>1. i - N \in 1..L /\ i = N + (i - N)
        BY <1>1
  <2> QED BY <2>1, Zenon
<1> QED BY <1>1

(* What that does to the rows seen so far: they stay in order, and no row  *)
(* is passed over.                                                         *)
LEMMA SeenGrows ==
  ASSUME SeenInv, UNCHANGED <<rows, lost>>, pos \in Nat, NEW L \in Nat, NEW N \in Nat,
         N = Len(seen), pos' = pos + L, Len(seen') = N + L,
         \A i \in 1..N : seen'[i] = seen[i] /\ seen'[i] \in 1..pos,
         \A i \in 1..L : seen'[N + i] = pos + i,
         \A i \in 1..L : rows[pos + i] = "good"
  PROVE  SeenInv'
<1>1. \A i \in 1..(N + L) : rows'[seen'[i]] = "good"
  <2> TAKE i \in 1..(N + L)
  <2>1. CASE i \in 1..N
        BY <2>1, Zenon DEF SeenInv
  <2>2. ASSUME NEW k \in 1..L, i = N + k
        PROVE  rows'[seen'[i]] = "good"
        BY <2>2, Zenon
  <2> QED BY <2>1, <2>2, OldOrNew, ZenonT(40)
<1>2. ASSUME NEW i \in 1..(N + L), NEW j \in 1..(N + L), i < j
      PROVE  seen'[i] < seen'[j]
  <2>1. CASE i \in 1..N /\ j \in 1..N
        BY <1>2, <2>1, Zenon DEF SeenInv
  <2>2. ASSUME i \in 1..N, NEW k \in 1..L, j = N + k
        PROVE  seen'[i] < seen'[j]
    <3>1. seen'[i] \in 1..pos /\ seen'[j] = pos + k
          BY <2>2, Zenon
    <3> QED BY <3>1
  <2>3. ASSUME NEW k \in 1..L, i = N + k, j \in 1..N
        PROVE  FALSE
        BY <1>2, <2>3
  <2>4. ASSUME NEW k \in 1..L, i = N + k, NEW m \in 1..L, j = N + m
        PROVE  seen'[i] < seen'[j]
    <3>1. seen'[i] = pos + k /\ seen'[j] = pos + m
          BY <2>4, Zenon
    <3>2. k < m
          BY <1>2, <2>4
    <3> QED BY <3>1, <3>2
  <2>5. (i \in 1..N \/ \E k \in 1..L : i = N + k) /\ (j \in 1..N \/ \E k \in 1..L : j = N + k)
        BY OldOrNew, Zenon
  <2> QED BY <2>1, <2>2, <2>3, <2>4, <2>5, Zenon
<1>3. ASSUME NEW p \in 1..(pos + L)
      PROVE  p \in lost \/ \E i \in 1..(N + L) : seen'[i] = p
  <2>1. CASE p \in 1..pos
    <3>1. p \in lost \/ \E i \in 1..N : seen[i] = p
          BY <2>1, Zenon DEF SeenInv
    <3>2. \A i \in 1..N : i \in 1..(N + L)
          OBVIOUS
    <3> QED BY <3>1, <3>2, Zenon
  <2>2. ASSUME NEW k \in 1..L, p = pos + k
        PROVE  \E i \in 1..(N + L) : seen'[i] = p
    <3>1. N + k \in 1..(N + L)
          OBVIOUS
    <3> QED BY <2>2, <3>1, Zenon
  <2> QED BY <2>1, <2>2, OldOrNew, ZenonT(40)
<1> QED BY <1>1, <1>2, <1>3, ZenonT(40) DEF SeenInv

(* A good batch is appended to what was seen, in order. *)
LEMMA RowsArrive ==
  ASSUME RowsInv, size >= 1, R!FirstBad = 0, pos' = pos + Len(R!Batch),
         seen' = seen \o [i \in 1..Len(R!Batch) |-> pos + i], UNCHANGED <<rows, lost>>
  PROVE  /\ pos' \in 0..Len(rows) /\ seen' \in Seq(1..pos') /\ lost' \in SUBSET (1..pos')
         /\ SeenInv'
<1>1. PICK L \in Nat : L = Len(R!Batch) /\ pos + L \in 0..Len(rows)
      BY BatchOfRows DEF RowsInv, RowsType
<1>2. PICK N \in Nat : N = Len(seen)
      BY DEF RowsInv, RowsType
<1>3. pos \in Nat /\ seen \in Seq(1..pos) /\ lost \in SUBSET (1..pos)
      BY DEF RowsInv, RowsType
<1>4. /\ seen' \in Seq(1..(pos + L)) /\ Len(seen') = N + L
      /\ \A i \in 1..N : seen'[i] = seen[i] /\ seen'[i] \in 1..pos
      /\ \A i \in 1..L : seen'[N + i] = pos + i
      BY <1>1, <1>2, <1>3, Appended
<1>5. \A i \in 1..L : rows[pos + i] = "good"
      BY <1>1, FirstBadOfBatch DEF RowsInv
<1>6. SeenInv'
      BY <1>1, <1>2, <1>3, <1>4, <1>5, SeenGrows, Zenon DEF RowsInv
<1>7. \A p \in 1..pos : p \in 1..(pos + L)
      BY <1>3
<1> QED BY <1>1, <1>3, <1>4, <1>6, <1>7, Zenon

(* Rows of a failed batch are dropped, behind all rows that were handed    *)
(* out.                                                                    *)
LEMMA RowsDropped ==
  ASSUME RowsInv, NEW k \in 0..(Len(rows) - pos), pos' = pos + k,
         lost' = lost \cup (pos + 1)..(pos + k), UNCHANGED <<rows, seen>>
  PROVE  /\ pos' \in 0..Len(rows) /\ seen' \in Seq(1..pos') /\ lost' \in SUBSET (1..pos')
         /\ SeenInv'
         /\ (\A i \in 1..Len(seen) : lost \cap 1..seen[i] = {})
              => \A i \in 1..Len(seen) : lost' \cap 1..seen[i] = {}
<1>1. pos \in 0..Len(rows) /\ Len(rows) \in Nat
      BY DEF RowsInv, RowsType
<1>2. seen \in Seq(1..pos) /\ lost \in SUBSET (1..pos)
      BY DEF RowsInv, RowsType
<1>3. pos' \in 0..Len(rows) /\ pos' >= pos /\ lost' = lost \cup (pos + 1)..pos'
      BY <1>1
<1>4. seen' \in Seq(1..pos')
      BY <1>1, <1>2, <1>3
<1>5. SeenInv'
      BY <1>1, <1>2, <1>3 DEF RowsInv, SeenInv
<1>6. ASSUME NEW i \in 1..Len(seen)
      PROVE  lost' \cap 1..seen[i] = lost \cap 1..seen[i]
      BY <1>1, <1>2, <1>3
<1>7. lost' \in SUBSET (1..pos')
      BY <1>1, <1>2, <1>3
<1> QED BY <1>3, <1>4, <1>5, <1>6, <1>7, Zenon

(* A batch with a bad row fails at one of the rows that are left.          *)
LEMMA FailsInBatch ==
  ASSUME RowsInv, size >= 1, R!FirstBad # 0
  PROVE  R!FirstBad \in 0..(Len(rows) - pos)
<1>1. R!FirstBad \in 1..(Len(rows) - pos) /\ pos \in 0..Len(rows) /\ Len(rows) \in Nat
      BY BatchOfRows, FirstBadOfBatch DEF RowsInv, RowsType
<1> QED BY <1>1

(* What stream_fetch answers, and what each answer says of the position.   *)
LEMMA FetchAnswers ==
  ASSUME RowsInv, fin = "no", mode # "manual", ~errored
  PROVE  \/ R!StreamFetch = "rows" /\ R!Reads /\ R!FirstBad = 0
         \/ R!StreamFetch = "row_error" /\ R!Reads /\ R!FirstBad # 0
         \/ R!StreamFetch = "done" /\ pos = Len(rows)
         \/ R!StreamFetch \in {"invalid_batch_size", "connection_closed"}
<1>1. CASE R!Reads
  <2>1. size >= 1
        BY <1>1 DEF R!Reads
  <2>2. R!Batch = <<>> => pos = Len(rows)
        BY <2>1, BatchOfRows DEF RowsInv, RowsType
  <2> QED BY <1>1, <2>2, Zenon DEF R!StreamFetch, R!Fetched
<1>2. CASE ~R!Reads
      BY <1>2, Zenon DEF R!StreamFetch, R!Refusal, RowsInv, EndInv
<1> QED BY <1>1, <1>2

(* handle_fetch_error ends the enumeration, or leaves it to the callback   *)
(* that follows the emitted error; only mode :halt is not told.            *)
LEMMA ErrorEnds ==
  ASSUME mode \in {"raise", "halt", "emit_error"}, R!HandleFetchError
  PROVE  /\ told' \in BOOLEAN /\ errored' \in BOOLEAN
         /\ told' <=> mode # "halt"
         /\ errored' <=> mode = "emit_error"
         /\ fin' = "no" => mode = "emit_error"
         /\ fin' = "completed" => mode = "halt"
         /\ fin' # "unopened"
<1>1. CASE mode = "raise"
      BY <1>1, Zenon DEF R!HandleFetchError
<1>2. CASE mode = "halt"
      BY <1>2, Zenon DEF R!HandleFetchError
<1>3. CASE mode = "emit_error"
      BY <1>3, Zenon DEF R!HandleFetchError
<1> QED BY <1>1, <1>2, <1>3

(* One call of next_fun. *)
LEMMA NextFunStep ==
  ASSUME RowsInv, R!NextFun
  PROVE  RowsInv'
<1>0. /\ fin = "no" /\ mode # "manual" /\ ~errored /\ lost = {}
      /\ mode \in {"raise", "halt", "emit_error"} /\ UNCHANGED <<rows, mode, size>>
      BY Zenon DEF R!NextFun, RowsInv, RowsType, LostInv, R!Modes
<1>1. CASE R!StreamFetch = "rows" /\ R!Reads /\ R!FirstBad = 0
  <2>1. size >= 1 /\ stmt = "live"
        BY <1>1 DEF R!Reads
  <2>2. /\ pos' = pos + Len(R!Batch) /\ UNCHANGED <<rows, lost>>
        /\ seen' = seen \o [i \in 1..Len(R!Batch) |-> pos + i]
        BY <1>1, Zenon DEF R!NextFun, R!Advance
  <2>3. UNCHANGED <<told, errored, fin>>
        BY <1>1, Zenon DEF R!NextFun
  <2>4. /\ pos' \in 0..Len(rows) /\ seen' \in Seq(1..pos') /\ lost' \in SUBSET (1..pos')
        /\ SeenInv'
        BY <1>1, <2>1, <2>2, RowsArrive
  <2>5. stmt' = "null" => Len(R!Batch) < size
        BY <1>0, <1>1, <2>1, <2>3, Zenon DEF R!NextFun, R!Finalizes
  <2>6. stmt' = "null" => pos' = Len(rows)
        BY <2>1, <2>2, <2>5, BatchOfRows, Zenon DEF RowsInv
  <2>7. RowsType'
        BY <1>0, <2>3, <2>4, Zenon DEF RowsInv, RowsType
  <2>8. LostInv'
        BY <1>0, <2>2, <2>3, Zenon DEF LostInv
  <2>9. EndInv'
        BY <1>0, <2>2, <2>3, <2>6, Zenon DEF EndInv
  <2> QED BY <2>4, <2>7, <2>8, <2>9 DEF RowsInv
<1>2. CASE R!StreamFetch = "row_error" /\ R!Reads /\ R!FirstBad # 0
  <2>1. size >= 1
        BY <1>2 DEF R!Reads
  <2>2. /\ pos' = pos + R!FirstBad /\ UNCHANGED <<rows, seen>>
        /\ lost' = lost \cup (pos + 1)..(pos + R!FirstBad)
        BY <1>2, Zenon DEF R!NextFun, R!Advance
  <2>3. R!HandleFetchError
        BY <1>2, Zenon DEF R!NextFun
  <2>4. /\ told' \in BOOLEAN /\ errored' \in BOOLEAN
        /\ told' <=> mode # "halt"
        /\ errored' <=> mode = "emit_error"
        /\ fin' = "no" => mode = "emit_error"
        /\ fin' = "completed" => mode = "halt"
        /\ fin' # "unopened"
        BY <1>0, <2>3, ErrorEnds
  <2>5. /\ pos' \in 0..Len(rows) /\ seen' \in Seq(1..pos') /\ lost' \in SUBSET (1..pos')
        /\ SeenInv'
        /\ \A i \in 1..Len(seen) : lost' \cap 1..seen[i] = {}
    <3>1. \A i \in 1..Len(seen) : lost \cap 1..seen[i] = {}
          BY <1>0, Zenon DEF RowsInv, LostInv
    <3>2. R!FirstBad \in 0..(Len(rows) - pos)
          BY <1>2, <2>1, FailsInBatch
    <3> QED BY <2>2, <3>1, <3>2, RowsDropped, Zenon
  <2>6. RowsType'
        BY <1>0, <2>4, <2>5, Zenon DEF RowsInv, RowsType
  <2>7. LostInv'
        BY <1>0, <2>2, <2>4, <2>5, Zenon DEF LostInv
  <2>8. EndInv'
        BY <1>0, <2>4, Zenon DEF EndInv
  <2> QED BY <2>5, <2>6, <2>7, <2>8 DEF RowsInv
<1>3. CASE R!StreamFetch = "done" /\ pos = Len(rows)
  <2>1. fin' = "completed" /\ UNCHANGED <<told, errored, pos, seen, lost>>
        BY <1>3, Zenon DEF R!NextFun, R!Advance
  <2>2. EndInv'
        BY <1>0, <1>3, <2>1, Zenon DEF EndInv
  <2> QED BY <1>0, <2>1, <2>2, Zenon DEF RowsInv, RowsType, SeenInv, LostInv
<1>4. CASE R!StreamFetch \in {"invalid_batch_size", "connection_closed"}
  <2>1. R!HandleFetchError /\ UNCHANGED <<pos, seen, lost>>
        BY <1>4 DEF R!NextFun, R!Advance
  <2>2. /\ told' \in BOOLEAN /\ errored' \in BOOLEAN
        /\ told' <=> mode # "halt"
        /\ errored' <=> mode = "emit_error"
        /\ fin' = "no" => mode = "emit_error"
        /\ fin' = "completed" => mode = "halt"
        /\ fin' # "unopened"
        BY <1>0, <2>1, ErrorEnds
  <2>3. EndInv' /\ LostInv'
        BY <1>0, <2>1, <2>2, Zenon DEF EndInv, LostInv
  <2> QED BY <1>0, <2>1, <2>2, <2>3, Zenon DEF RowsInv, RowsType, SeenInv
<1> QED BY <1>0, <1>1, <1>2, <1>3, <1>4, FetchAnswers, Zenon

(* One call of next_fun in which sqlite3_step fails. *)
LEMMA NextFunFailsStep ==
  ASSUME RowsInv, R!NextFunStepFails
  PROVE  RowsInv'
<1>1. /\ fin = "no" /\ mode # "manual" /\ ~errored /\ size >= 1
      /\ mode \in {"raise", "halt", "emit_error"} /\ UNCHANGED <<rows, mode, size, seen>>
      BY Zenon DEF R!NextFunStepFails, R!Reads, RowsInv, RowsType, R!Modes
<1>2. PICK k \in R!ReadBefore : pos' = pos + k /\ lost' = lost \cup (pos + 1)..(pos + k)
      BY Zenon DEF R!NextFunStepFails
<1>3. k \in 0..(Len(rows) - pos)
  <2>0. rows \in Seq({"good", "bad"}) /\ pos \in 0..Len(rows)
        BY Zenon DEF RowsInv, RowsType
  <2>1. Len(R!Batch) \in 0..(Len(rows) - pos)
        BY <1>1, BatchOfRows, Zenon DEF RowsInv
  <2>2. k \in 0..Len(R!Batch)
        BY <1>2, Zenon DEF R!ReadBefore
  <2> QED BY ONLY <2>0, <2>1, <2>2
<1>4. /\ told' \in BOOLEAN /\ errored' \in BOOLEAN
      /\ told' <=> mode # "halt"
      /\ errored' <=> mode = "emit_error"
      /\ fin' = "no" => mode = "emit_error"
      /\ fin' = "completed" => mode = "halt"
      /\ fin' # "unopened"
      BY <1>1, ErrorEnds DEF R!NextFunStepFails
<1>5. /\ pos' \in 0..Len(rows) /\ seen' \in Seq(1..pos') /\ lost' \in SUBSET (1..pos')
      /\ SeenInv'
      /\ \A i \in 1..Len(seen) : lost' \cap 1..seen[i] = {}
  <2>1. \A i \in 1..Len(seen) : lost \cap 1..seen[i] = {}
        BY <1>1, Zenon DEF RowsInv, LostInv
  <2> QED BY <1>1, <1>2, <1>3, <2>1, RowsDropped, Zenon
<1>6. RowsType'
      BY <1>1, <1>4, <1>5, Zenon DEF RowsInv, RowsType
<1>7. LostInv' /\ EndInv'
      BY <1>1, <1>4, <1>5, Zenon DEF LostInv, EndInv
<1> QED BY <1>5, <1>6, <1>7 DEF RowsInv

(* One call of multi_step: it reports the batch that failed and goes on    *)
(* behind it.                                                              *)
LEMMA MultiStepStep ==
  ASSUME RowsInv, R!MultiStep
  PROVE  RowsInv'
<1>0. /\ fin = "no" /\ mode = "manual" /\ size >= 1 /\ ~errored /\ told \in BOOLEAN
      /\ UNCHANGED <<rows, mode, size, stmt, errored>>
      BY Zenon DEF R!MultiStep, RowsInv, RowsType, EndInv
<1>1. CASE conn = "closed"
  <2>1. told' = TRUE /\ fin' = "raised" /\ UNCHANGED <<pos, seen, lost>>
        BY <1>1, Zenon DEF R!MultiStep
  <2> QED BY <1>0, <2>1, Zenon DEF RowsInv, RowsType, SeenInv, LostInv, EndInv
<1>2. CASE conn # "closed" /\ R!FirstBad = 0
  <2>1. /\ pos' = pos + Len(R!Batch) /\ UNCHANGED <<rows, lost>>
        /\ seen' = seen \o [i \in 1..Len(R!Batch) |-> pos + i]
        BY <1>2, Zenon DEF R!MultiStep, R!Advance
  <2>2. /\ told' = told
        /\ fin' \in {"no", "completed"}
        /\ fin' = "completed" => Len(R!Batch) < size
        BY <1>0, <1>2 DEF R!MultiStep
  <2>3. /\ pos' \in 0..Len(rows) /\ seen' \in Seq(1..pos') /\ lost' \in SUBSET (1..pos')
        /\ SeenInv'
        BY <1>0, <1>2, <2>1, RowsArrive
  <2>4. fin' = "completed" => pos' = Len(rows)
        BY <1>0, <2>1, <2>2, BatchOfRows, Zenon DEF RowsInv
  <2>5. RowsType' /\ LostInv'
        BY <1>0, <2>1, <2>2, <2>3, Zenon DEF RowsInv, RowsType, LostInv
  <2>6. EndInv'
        BY <1>0, <2>2, <2>4 DEF EndInv
  <2> QED BY <2>3, <2>5, <2>6 DEF RowsInv
<1>3. CASE conn # "closed" /\ R!FirstBad # 0
  <2>1. /\ pos' = pos + R!FirstBad /\ UNCHANGED <<rows, seen>>
        /\ lost' = lost \cup (pos + 1)..(pos + R!FirstBad)
        BY <1>3, Zenon DEF R!MultiStep, R!Advance
  <2>2. told' = TRUE /\ fin' = fin
        BY <1>3, Zenon DEF R!MultiStep
  <2>3. /\ pos' \in 0..Len(rows) /\ seen' \in Seq(1..pos') /\ lost' \in SUBSET (1..pos')
        /\ SeenInv'
    <3>1. R!FirstBad \in 0..(Len(rows) - pos)
          BY <1>0, <1>3, FailsInBatch
    <3> QED BY <2>1, <3>1, RowsDropped, Zenon
  <2>4. RowsType' /\ LostInv' /\ EndInv'
        BY <1>0, <2>1, <2>2, <2>3, Zenon DEF RowsInv, RowsType, LostInv, EndInv
  <2> QED BY <2>3, <2>4 DEF RowsInv
<1> QED BY <1>1, <1>2, <1>3

(* The rows, the position and what was lost and seen, step by step. *)
LEMMA RowsStep ==
  ASSUME RowsInv, [R!Next]_(R!vars)
  PROVE  RowsInv'
<1> USE RowsAssumption
<1>0. CASE UNCHANGED R!vars
      BY <1>0, Zenon DEF R!vars, RowsInv, RowsType, SeenInv, LostInv, EndInv
<1>1. ASSUME NEW len \in 0..MaxRows, NEW r \in [1..len -> {"good", "bad"}],
             NEW m \in R!Modes, NEW b \in Sizes, R!Open(r, m, b)
      PROVE  RowsInv'
  <2>1. r \in Seq({"good", "bad"}) /\ 0 \in 0..Len(r) /\ b \in Int
        OBVIOUS
  <2>2. pos' = 0 /\ lost' = {} /\ seen' = <<>> /\ errored' = FALSE /\ told' = told
        BY <1>1 DEF R!Open, RowsInv, RowsType, EndInv
  <2>3. rows' = r /\ mode' = m /\ size' = b /\ stmt' = "live" /\ fin' = "no"
        BY <1>1, Zenon DEF R!Open
  <2>4. <<>> \in Seq(1..0) /\ {} \in SUBSET (1..0) /\ told \in BOOLEAN
        BY DEF RowsInv, RowsType
  <2>5. RowsType'
        BY <2>1, <2>2, <2>3, <2>4, Zenon DEF RowsType
  <2>6. SeenInv' /\ LostInv' /\ EndInv'
        BY <2>2, <2>3 DEF SeenInv, LostInv, EndInv
  <2> QED BY <2>5, <2>6 DEF RowsInv
<1>2. CASE R!NextFunErrored
      BY <1>2, Zenon DEF R!NextFunErrored, RowsInv, RowsType, SeenInv, LostInv, EndInv
<1>3. CASE R!MultiStepBadSize
      BY <1>3, Zenon DEF R!MultiStepBadSize, RowsInv, RowsType, SeenInv, LostInv, EndInv
<1>4. CASE R!Stop
      BY <1>4, Zenon DEF R!Stop, RowsInv, RowsType, SeenInv, LostInv, EndInv
<1>5. CASE R!CloseConnection
      BY <1>5, Zenon DEF R!CloseConnection, RowsInv, RowsType, SeenInv, LostInv, EndInv
<1>6. CASE R!MultiStepFails
  <2>1. /\ pos' = 0 /\ lost' = {} /\ seen' = <<>> /\ told' = TRUE /\ ~errored /\ fin = "no"
        /\ mode = "manual" /\ UNCHANGED <<rows, mode, size, errored, fin>>
        BY <1>6, Zenon DEF R!MultiStepFails, RowsInv, EndInv
  <2>2. <<>> \in Seq(1..0) /\ {} \in SUBSET (1..0) /\ 0 \in 0..Len(rows)
        BY DEF RowsInv, RowsType
  <2>3. RowsType'
        BY <2>1, <2>2, Zenon DEF RowsInv, RowsType
  <2>4. SeenInv' /\ LostInv' /\ EndInv'
        BY <2>1 DEF SeenInv, LostInv, EndInv
  <2> QED BY <2>3, <2>4 DEF RowsInv
<1> QED BY <1>0, <1>1, <1>2, <1>3, <1>4, <1>5, <1>6, NextFunStep, NextFunFailsStep, MultiStepStep,
        Zenon DEF R!Next, R!Consume

(* Only a sqlite3_step that fails in multi_step goes back.                 *)
LEMMA NeverBack ==
  ASSUME RowsInv, R!Next, ~R!MultiStepFails
  PROVE  ~(pos' < pos)
<1>0. pos \in Nat
      BY DEF RowsInv, RowsType
<1>1. size >= 1 => Len(R!Batch) \in Nat
      BY BatchOfRows DEF RowsInv
<1>2. size >= 1 /\ R!FirstBad # 0 => R!FirstBad \in Nat
      BY FailsInBatch DEF RowsInv, RowsType
<1>3. CASE R!NextFun
  <2>1. \/ pos' = pos
        \/ size >= 1 /\ pos' = pos + Len(R!Batch)
        \/ size >= 1 /\ R!FirstBad # 0 /\ pos' = pos + R!FirstBad
    <3>1. fin = "no" /\ mode # "manual" /\ ~errored
          BY <1>3, Zenon DEF R!NextFun
    <3>2. R!Reads => size >= 1
          BY Zenon DEF R!Reads
    <3>3. R!Advance(R!StreamFetch)
          BY <1>3, Zenon DEF R!NextFun
    <3>4. R!StreamFetch = "rows" => R!Reads
          BY <3>1, FetchAnswers
    <3>5. R!StreamFetch = "row_error" => R!Reads /\ R!FirstBad # 0
          BY <3>1, FetchAnswers
    <3>6. pos' = IF R!StreamFetch = "rows" THEN pos + Len(R!Batch)
                 ELSE IF R!StreamFetch = "row_error" THEN pos + R!FirstBad ELSE pos
          BY <3>3, Zenon DEF R!Advance
    <3> QED BY <3>2, <3>4, <3>5, <3>6
  <2> QED BY <1>0, <1>1, <1>2, <2>1
<1>4. CASE R!NextFunStepFails
  <2>1. PICK k \in R!ReadBefore : pos' = pos + k
        BY <1>4, Zenon DEF R!NextFunStepFails
  <2>2. k \in 0..Len(R!Batch) /\ size >= 1
        BY <1>4, Zenon DEF R!ReadBefore, R!NextFunStepFails, R!Reads
  <2> QED BY <1>0, <1>1, <2>1, <2>2
<1>5. CASE R!MultiStep
  <2>1. size >= 1 /\ (\/ pos' = pos
                      \/ pos' = pos + Len(R!Batch)
                      \/ R!FirstBad # 0 /\ pos' = pos + R!FirstBad)
        BY <1>5, Zenon DEF R!MultiStep, R!Advance
  <2> QED BY <1>0, <1>1, <1>2, <2>1
<1>6. CASE pos' = pos
      BY <1>0, <1>6
<1> QED BY <1>3, <1>4, <1>5, <1>6, Zenon DEF R!Next, R!Consume, R!Open, R!NextFunErrored,
        R!MultiStepBadSize, R!Stop, R!CloseConnection

(* For any result, batch size and mode, wherever the bad rows are, on      *)
(* whichever step SQLite fails and whenever the connection is closed: rows *)
(* arrive in order and none is skipped in silence, a failed read never     *)
(* passes for a completed stream, and rows come twice only to a consumer   *)
(* of multi_step who was told that it failed (next_fun over stream_fetch,  *)
(* multi_step).                                                            *)
THEOREM RowsDelivered == R!Spec => DeliversTheResult
<1>1. R!Init => RowsInv
  <2> SUFFICES ASSUME R!Init PROVE RowsInv
      OBVIOUS
  <2>1. RowsType
    <3>1. <<>> \in Seq({"good", "bad"}) /\ <<>> \in Seq(1..0) /\ 0 \in 0..Len(<<>>) /\ 0 \in Int
          OBVIOUS
    <3>2. {} \in SUBSET (1..0) /\ "manual" \in R!Modes
          BY DEF R!Modes
    <3> QED BY <3>1, <3>2, Zenon DEF R!Init, RowsType
  <2>2. SeenInv /\ LostInv /\ EndInv
        BY DEF R!Init, SeenInv, LostInv, EndInv
  <2> QED BY <2>1, <2>2 DEF RowsInv
<1>2. RowsInv /\ [R!Next]_(R!vars) => RowsInv'
      BY RowsStep
<1>3. RowsInv => R!NeverMasquerades /\ R!InOrder
  <2> SUFFICES ASSUME RowsInv PROVE R!NeverMasquerades /\ R!InOrder
      OBVIOUS
  <2>1. DOMAIN seen = 1..Len(seen) /\ DOMAIN rows = 1..Len(rows)
        BY DEF RowsInv, RowsType
  <2>2. R!Range(seen) = {seen[i] : i \in 1..Len(seen)}
        BY <2>1, Zenon DEF R!Range
  <2>3. R!InOrder
    <3>1. ASSUME NEW i \in 1..Len(seen), NEW j \in 1..(i - 1)
          PROVE  seen[j] < seen[i]
      <4>1. j \in 1..Len(seen) /\ j < i
            BY <3>1 DEF RowsInv, RowsType
      <4> QED BY <4>1, Zenon DEF RowsInv, SeenInv
    <3>2. mode # "manual" => \A p \in R!Range(seen) : lost \cap 1..p = {}
          BY <2>2, Zenon DEF RowsInv, LostInv
    <3> QED BY <2>1, <3>1, <3>2, Zenon DEF R!InOrder, RowsInv, SeenInv
  <2>4. pos = Len(rows) => R!Range(seen) \cup lost = 1..Len(rows)
    <3>1. \A i \in 1..Len(seen) : seen[i] \in 1..pos
          BY DEF RowsInv, RowsType
    <3> QED BY <2>2, <3>1, ZenonT(40) DEF RowsInv, RowsType, SeenInv
  <2>5. R!NeverMasquerades
    <3> SUFFICES ASSUME fin = "completed", mode # "halt"
                 PROVE  /\ R!Range(seen) # DOMAIN rows => told
                        /\ mode = "raise" => R!Range(seen) = DOMAIN rows
                        /\ mode = "manual" => R!Range(seen) \cup lost = DOMAIN rows
        BY DEF R!NeverMasquerades
    <3>1. CASE mode = "manual" /\ pos = Len(rows)
          BY <2>1, <2>4, <3>1, Zenon DEF RowsInv, LostInv
    <3>2. CASE mode = "emit_error" /\ errored
          BY <3>2, Zenon DEF RowsInv, EndInv
    <3>3. CASE mode # "manual" /\ pos = Len(rows) /\ lost = {}
          BY <2>1, <2>4, <3>3
    <3> QED BY <3>1, <3>2, <3>3, Zenon DEF RowsInv, EndInv
  <2> QED BY <2>3, <2>5
<1>4. RowsInv /\ [R!Next]_(R!vars) =>
        [pos' < pos => mode = "manual" /\ told' /\ seen' = <<>>]_(R!vars)
  <2>1. ASSUME R!MultiStepFails
        PROVE  mode = "manual" /\ told' /\ seen' = <<>>
        BY <2>1, Zenon DEF R!MultiStepFails
  <2> QED BY <2>1, NeverBack, Zenon
<1> QED BY <1>1, <1>2, <1>3, <1>4, PTL
        DEF R!Spec, DeliversTheResult, R!DeliversTheResult, R!RepeatsOnlyWhenTold
==============================================================================
