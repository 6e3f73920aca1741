---------------------- MODULE HandleLifecycle_control -----------------------
(***************************************************************************)
(* Part one of the proof that IInv of HandleLifecycle is inductive, for    *)
(* any number of threads and handles: types, the mutex, which operation    *)
(* may be where, references and the connection's destructor.  There is one *)
(* lemma per conjunct, with one step per family of actions; each conjunct  *)
(* is kept with the help of those it assumes.                              *)
(***************************************************************************)
EXTENDS HandleLifecycle, TLAPS

(* What a thread that enters a NIF is about to do. *)
Entry(t, o, h, l) ==
    \/ o \in ConnOps /\ h = None /\ l = "lock" /\ t \in connRefs
    \/ /\ t \in refs[h]
       /\ \/ o = "use" /\ h \in Stmts \cup Blobs /\ l = "lock"
          \/ o = "fetch" /\ h \in Streams /\ l = "lock"
          \/ o = "fin" /\ h \in Raw /\ l = "swap"
          \/ o \in {"sess", "del"} /\ h \in Sessions /\ l = "lock"

Enters(t) ==
    /\ pc[t] = "idle"
    /\ \E o \in Ops, h \in Handles \cup {None}, l \in {"lock", "swap"} :
        /\ Entry(t, o, h, l)
        /\ pc' = [pc EXCEPT ![t] = l]
        /\ op' = [op EXCEPT ![t] = o]
        /\ arg' = [arg EXCEPT ![t] = h]
    /\ left' \in [Threads -> 0..MaxBatch]
    /\ \A u \in Threads \ {t} : left'[u] = left[u]
    /\ UNCHANGED <<lockVars, sqliteVars, beamVars>>

(* What the four NIFs that open a handle may do. *)
Opens(t) ==
    /\ \E o \in OpenOps : Opened(t, o)
    /\ \/ NotOpened
       \/ \E h \in Handles : Born(t, h) \/ BornEmpty(t, h) \/ Orphan(h)

(* The entries of the NIFs have one shape. *)
LEMMA CallShape ==
    ASSUME TypeOK, NEW t \in Threads, Call(t)
    PROVE  Enters(t)
<1>1. /\ left' \in [Threads -> 0..MaxBatch]
      /\ \A u \in Threads \ {t} : left'[u] = left[u]
  <2>1. \/ UNCHANGED left
        \/ \E n \in 1..MaxBatch : left' = [left EXCEPT ![t] = n]
        BY DEF Call, CallQuery, CallOpen, CallClose, CallUse, CallFetch, CallFinalize,
           CallSession, CallDelete, Begin
  <2> QED BY <2>1, LifecycleAssumption DEF TypeOK
<1>2. CASE CallQuery(t) \/ CallOpen(t) \/ CallClose(t)
      BY <1>1, <1>2 DEF CallQuery, CallOpen, CallClose, Begin, Enters, Entry, Ops,
         OpenOps, ConnOps
<1>3. CASE \E h \in Handles : CallUse(t, h) \/ CallFinalize(t, h)
                               \/ CallSession(t, h) \/ CallDelete(t, h)
      BY <1>1, <1>3 DEF CallUse, CallFinalize, CallSession, CallDelete, Begin, Enters,
         Entry, Ops
<1>4. CASE \E h \in Handles : CallFetch(t, h)
      BY <1>1, <1>4, Zenon DEF CallFetch, Enters, Entry, Ops
<1> QED BY <1>2, <1>3, <1>4 DEF Call

(* So have the four opening NIFs. *)
LEMMA OpenShape ==
    ASSUME NEW t \in Threads,
           StmtPrepare(t) \/ StreamOpen(t) \/ BlobOpen(t) \/ SessionNew(t)
    PROVE  Opens(t)
BY DEF StmtPrepare, StreamOpen, BlobOpen, SessionNew, Opens, OpenOps, Handles, Raw

(* Leaving a NIF or a destructor's body keeps the thread variables typed. *)
LEMMA ReturnTypes ==
    ASSUME TypeOK, NEW t \in Threads, Return(t)
    PROVE  /\ pc' \in [Threads -> Pcs]
           /\ op' \in [Threads -> Ops]
           /\ arg' \in [Threads -> Handles \cup {None}]
           /\ left' \in [Threads -> 0..MaxBatch]
<1>1. pc' \in [Threads -> Pcs]
      BY DEF TypeOK, Return, Pcs
<1>2. op' \in [Threads -> Ops]
      BY DEF TypeOK, Return, Ops
<1>3. arg' \in [Threads -> Handles \cup {None}]
      BY DEF TypeOK, Return
<1>4. left' \in [Threads -> 0..MaxBatch]
      BY LifecycleAssumption DEF TypeOK, Return
<1> QED BY <1>1, <1>2, <1>3, <1>4

(* Releasing the guards keeps the lock variables typed. *)
LEMMA UnlockTypes ==
    ASSUME TypeOK, NEW t \in Threads, Unlock(t)
    PROVE  /\ lock' \in Threads \cup {None}
           /\ poisoned' \in BOOLEAN
           /\ slock' \in [Sessions -> Threads \cup {None}]
BY DEF TypeOK, Unlock

(* Storing into one handle's pointer keeps the pointers typed. *)
LEMMA PtrTypes ==
    ASSUME TypeOK, NEW h, NEW b \in BOOLEAN
    PROVE  [ptr EXCEPT ![h] = b] \in [Handles -> BOOLEAN]
BY Zenon DEF TypeOK

(* Every step keeps the types, one step per family of actions. *)
LEMMA TypeStep ==
    ASSUME TypeOK, ControlInv
    PROVE  [Next]_vars => TypeOK'
<1> USE LifecycleAssumption DEF TypeOK, lockVars, sqliteVars, beamVars, threadVars
<1>1. CASE UNCHANGED vars
      BY <1>1 DEF vars
<1>2. ASSUME NEW t \in Threads, Enters(t)
      PROVE  TypeOK'
  <2>1. pc' \in [Threads -> Pcs]
        BY <1>2 DEF Enters, Pcs
  <2>2. op' \in [Threads -> Ops] /\ arg' \in [Threads -> Handles \cup {None}]
        BY <1>2 DEF Enters
  <2> QED BY <1>2, <2>1, <2>2 DEF Enters
<1>3. ASSUME NEW t \in Threads, LockConn(t) \/ LockPoisoned(t)
      PROVE  TypeOK'
      BY <1>3, ReturnTypes DEF LockConn, LockPoisoned, Goto, Pcs
<1>4. ASSUME NEW t \in Threads, CheckOpen(t) \/ LoadPtr(t) \/ FetchEnd(t)
      PROVE  TypeOK'
      BY <1>4 DEF CheckOpen, LoadPtr, FetchEnd, Goto, Pcs
<1>5. ASSUME NEW t \in Threads, CloseTake(t)
      PROVE  TypeOK'
  <2>1. conn' \in BOOLEAN
        BY <1>5, Zenon DEF CloseTake
  <2> QED BY <1>5, <2>1 DEF CloseTake, Goto, Pcs
<1>6. ASSUME NEW t \in Threads, CheckClosed(t) \/ LoadNull(t) \/ EndCall(t)
      PROVE  TypeOK'
      BY <1>6, ReturnTypes, UnlockTypes DEF CheckClosed, LoadNull, EndCall
<1>7. ASSUME NEW t \in Threads, Opens(t)
      PROVE  TypeOK'
  <2>1. PICK o \in OpenOps : Opened(t, o)
        BY <1>7 DEF Opens
  <2>2. ptr' \in [Handles -> BOOLEAN]
        BY <1>7, PtrTypes DEF Opens, NotOpened, Orphan, Born, BornEmpty
  <2>3. /\ obj' \in [Handles -> {"none", "live", "dead"}]
        /\ res' \in [Handles -> {"unborn", "alive", "dropping", "gone", "orphan"}]
        /\ refs' \in [Handles -> SUBSET Threads]
        BY <1>7 DEF Opens, NotOpened, Orphan, Born, BornEmpty
  <2> QED BY <2>1, <2>2, <2>3, ReturnTypes, UnlockTypes DEF Opened
<1>8. ASSUME NEW t \in Threads, FetchRow(t)
      PROVE  TypeOK'
  <2>1. left[t] > 0
        BY <1>8 DEF FetchRow, ControlInv
  <2> QED BY <1>8, <2>1 DEF FetchRow, Pcs
<1>9. ASSUME NEW t \in Threads, FetchTake(t) \/ SwapPtr(t) \/ DeleteTake(t)
      PROVE  TypeOK'
  <2>1. ptr' \in [Handles -> BOOLEAN]
        BY <1>9, PtrTypes DEF FetchTake, SwapPtr, DeleteTake
  <2>2. /\ lock' \in Threads \cup {None}
        /\ poisoned' \in BOOLEAN
        /\ slock' \in [Sessions -> Threads \cup {None}]
        BY <1>9, UnlockTypes DEF FetchTake, SwapPtr, DeleteTake
  <2>3. Return(t) \/ Goto(t, "free") \/ Goto(t, "lock")
        BY <1>9 DEF FetchTake, SwapPtr, DeleteTake
  <2>4. /\ pc' \in [Threads -> Pcs]
        /\ op' \in [Threads -> Ops]
        /\ arg' \in [Threads -> Handles \cup {None}]
        /\ left' \in [Threads -> 0..MaxBatch]
        BY <2>3, ReturnTypes DEF Goto, Pcs
  <2> QED BY <1>9, <2>1, <2>2, <2>4 DEF FetchTake, SwapPtr, DeleteTake
<1>10. ASSUME NEW t \in Threads, LockSession(t)
      PROVE  TypeOK'
      BY <1>10, Zenon DEF LockSession, Goto, Pcs
<1>11. ASSUME NEW t \in Threads, Freed(t) \/ CloseEnd(t)
      PROVE  TypeOK'
      BY <1>11, ReturnTypes, UnlockTypes DEF Freed, CloseEnd, AfterClose
<1>12. ASSUME NEW t \in Threads, Panic(t)
      PROVE  TypeOK'
  <2>1. /\ obj' \in [Handles -> {"none", "live", "dead"}]
        /\ res' \in [Handles -> {"unborn", "alive", "dropping", "gone", "orphan"}]
        BY <1>12 DEF Panic, NotOpened, Orphan
  <2>2. /\ poisoned' \in BOOLEAN
        /\ slock' \in [Sessions -> Threads \cup {None}]
        BY <1>12 DEF Panic
  <2> QED BY <1>12, <2>1, <2>2, ReturnTypes DEF Panic, NotOpened, Orphan
<1>13. ASSUME NEW t \in Threads, \E u \in Threads : Share(t, u)
      PROVE  TypeOK'
      BY <1>13 DEF Share
<1>14. ASSUME NEW t \in Threads, Drop(t)
      PROVE  TypeOK'
      BY <1>14 DEF Drop, DropConnRef, DropRef, Goto, Begin, Pcs, Ops
<1>15. ASSUME NEW t \in Threads, ReleaseRef(t)
      PROVE  TypeOK'
      BY <1>15, Zenon DEF ReleaseRef, Pcs
<1>16. ASSUME NEW t \in Threads, ConnDrop(t) \/ ConnDropClose(t) \/ ConnFree(t)
      PROVE  TypeOK'
  <2>1. conn' \in BOOLEAN
        BY <1>16, Zenon DEF ConnDrop, ConnDropClose, ConnFree
  <2> QED BY <1>16, <2>1 DEF ConnDrop, ConnDropClose, AfterClose, ConnFree,
           Goto, Pcs
<1> QED BY CallShape, OpenShape, <1>1, <1>2, <1>3, <1>4, <1>5, <1>6, <1>7, <1>8, Zenon,
       <1>9, <1>10, <1>11, <1>12, <1>13, <1>14, <1>15, <1>16 DEF Next, Step

(* Only the holder of the mutex is between lock and unlock. *)
LEMMA LockStep ==
    ASSUME TypeOK, LockInv, ControlInv
    PROVE  [Next]_vars => LockInv'
<1>1. CASE UNCHANGED vars
      BY <1>1 DEF vars, lockVars, threadVars, LockInv
<1>2. ASSUME NEW t \in Threads, Enters(t)
      PROVE  LockInv'
      BY <1>2 DEF Enters, lockVars, LockInv
<1>3. ASSUME NEW t \in Threads, LockConn(t) \/ LockPoisoned(t)
      PROVE  LockInv'
      BY <1>3, LifecycleAssumption DEF LockConn, LockPoisoned, Goto, Return,
             TypeOK, LockInv
<1>4. ASSUME NEW t \in Threads, CheckOpen(t) \/ CheckClosed(t) \/ CloseTake(t)
      PROVE  LockInv'
      BY <1>4, LifecycleAssumption DEF CheckOpen, CheckClosed, CloseTake,
             Goto, lockVars, Return, Unlock, TypeOK, LockInv
<1>5. ASSUME NEW t \in Threads, LoadPtr(t) \/ LoadNull(t) \/ EndCall(t)
      PROVE  LockInv'
      BY <1>5, LifecycleAssumption DEF LoadPtr, LoadNull, EndCall, Goto,
             lockVars, Return, Unlock, TypeOK, LockInv
<1>6. ASSUME NEW t \in Threads, Opens(t)
      PROVE  LockInv'
      BY <1>6, LifecycleAssumption DEF Opens, Opened, Return, Unlock, TypeOK,
             LockInv
<1>7. ASSUME NEW t \in Threads, FetchRow(t) \/ FetchEnd(t) \/ FetchTake(t)
      PROVE  LockInv'
      BY <1>7, LifecycleAssumption DEF FetchRow, FetchEnd, FetchTake,
             lockVars, Goto, Return, Unlock, TypeOK, LockInv
<1>8. ASSUME NEW t \in Threads, SwapPtr(t)
      PROVE  LockInv'
      BY <1>8 DEF SwapPtr, Goto, Return, lockVars, TypeOK, LockInv
<1>9. ASSUME NEW t \in Threads, LockSession(t) \/ DeleteTake(t)
      PROVE  LockInv'
      BY <1>9, LifecycleAssumption DEF LockSession, DeleteTake, Goto, Return,
             Unlock, lockVars, TypeOK, LockInv
<1>10. ASSUME NEW t \in Threads, Freed(t)
      PROVE  LockInv'
      BY <1>10, LifecycleAssumption DEF Freed, Return, Unlock, TypeOK, LockInv
<1>11. ASSUME NEW t \in Threads, CloseEnd(t)
      PROVE  LockInv'
      BY <1>11, LifecycleAssumption DEF CloseEnd, Return, Unlock, TypeOK,
             LockInv
<1>12. ASSUME NEW t \in Threads, Panic(t)
      PROVE  LockInv'
      BY <1>12, LifecycleAssumption DEF Panic, Return, TypeOK, LockInv
<1>13. ASSUME NEW t \in Threads, \E u \in Threads : Share(t, u)
      PROVE  LockInv'
      BY <1>13 DEF Share, lockVars, threadVars, LockInv
<1>14. ASSUME NEW t \in Threads, Drop(t)
      PROVE  LockInv'
      BY <1>14 DEF Drop, DropConnRef, DropRef, Goto, lockVars, Begin,
             threadVars, TypeOK, LockInv
<1>15. ASSUME NEW t \in Threads, ReleaseRef(t)
      PROVE  LockInv'
      BY <1>15 DEF ReleaseRef, lockVars, LockInv
<1>16. ASSUME NEW t \in Threads, ConnDrop(t) \/ ConnDropClose(t) \/ ConnFree(t)
      PROVE  LockInv'
      BY <1>16 DEF ConnDrop, ConnDropClose, ConnFree, Goto, lockVars, TypeOK,
             LockInv
<1> QED BY CallShape, OpenShape, <1>1, <1>2, <1>3, <1>4, <1>5, <1>6, <1>7,
       <1>8, <1>9, <1>10, <1>11, <1>12, <1>13, <1>14, <1>15, <1>16 DEF Next,
       Step

(* Control stays on the paths of the operations. *)
LEMMA ControlStep ==
    ASSUME TypeOK, LockInv, ControlInv, RefInv
    PROVE  [Next]_vars => ControlInv'
<1>1. CASE UNCHANGED vars
      BY <1>1 DEF vars, threadVars, ControlInv
<1>2. ASSUME NEW t \in Threads, Enters(t)
      PROVE  ControlInv'
  <2>1. PICK o \in Ops, h \in Handles \cup {None}, l \in {"lock", "swap"} :
          /\ Entry(t, o, h, l)
          /\ pc' = [pc EXCEPT ![t] = l]
          /\ op' = [op EXCEPT ![t] = o]
          /\ arg' = [arg EXCEPT ![t] = h]
        BY <1>2, Zenon DEF Enters
  <2>2. /\ o # "none"
        /\ o \in ConnOps => h = None /\ l = "lock"
        /\ o = "use" => h \in Stmts \cup Blobs /\ l = "lock"
        /\ o = "fetch" => h \in Streams /\ l = "lock"
        /\ o = "fin" => h \in Raw
        /\ o \in {"sess", "del"} => h \in Sessions /\ l = "lock"
        BY <2>1 DEF Entry, ConnOps, OpenOps
  <2>3. /\ pc'[t] = l /\ op'[t] = o /\ arg'[t] = h
        /\ \A u \in Threads \ {t} :
             pc'[u] = pc[u] /\ op'[u] = op[u] /\ arg'[u] = arg[u] /\ left'[u] = left[u]
        BY <1>2, <2>1 DEF Enters, TypeOK
  <2> QED BY <2>2, <2>3 DEF ControlInv, ConnPhases
<1>3. ASSUME NEW t \in Threads, LockConn(t) \/ LockPoisoned(t)
      PROVE  ControlInv'
      BY <1>3 DEF LockConn, LockPoisoned, Goto, Return, Dropping, ConnPhases,
             ConnOps, OpenOps, TypeOK, ControlInv
<1>4. ASSUME NEW t \in Threads, CheckOpen(t) \/ CheckClosed(t) \/ CloseTake(t)
      PROVE  ControlInv'
      BY <1>4 DEF CheckOpen, CheckClosed, CloseTake, Goto, Return, Dropping,
             ConnPhases, ConnOps, OpenOps, TypeOK, ControlInv
<1>5. ASSUME NEW t \in Threads, LoadPtr(t) \/ LoadNull(t) \/ EndCall(t)
      PROVE  ControlInv'
      BY <1>5 DEF LoadPtr, LoadNull, EndCall, Goto, Return, Dropping,
             ConnPhases, ConnOps, OpenOps, TypeOK, ControlInv
<1>6. ASSUME NEW t \in Threads, Opens(t)
      PROVE  ControlInv'
      BY <1>6 DEF Opens, Opened, Return, Dropping, ConnOps, OpenOps, TypeOK,
             ControlInv
<1>7. ASSUME NEW t \in Threads, FetchRow(t) \/ FetchEnd(t) \/ FetchTake(t)
      PROVE  ControlInv'
      BY <1>7 DEF FetchRow, FetchEnd, FetchTake, Goto, Return, Handles, Raw,
             ConnPhases, ConnOps, OpenOps, TypeOK, ControlInv
<1>8. ASSUME NEW t \in Threads, SwapPtr(t)
      PROVE  ControlInv'
      BY <1>8 DEF SwapPtr, Goto, Return, Handles, Ops, ConnPhases, ConnOps,
             OpenOps, TypeOK, ControlInv
<1>9. ASSUME NEW t \in Threads, LockSession(t) \/ DeleteTake(t)
      PROVE  ControlInv'
      BY <1>9 DEF LockSession, DeleteTake, Goto, Return, Handles, ConnPhases,
             ConnOps, OpenOps, TypeOK, ControlInv
<1>10. ASSUME NEW t \in Threads, Freed(t)
      PROVE  ControlInv'
      BY <1>10 DEF Freed, Return, Dropping, ConnPhases, ConnOps, OpenOps,
             TypeOK, ControlInv
<1>11. ASSUME NEW t \in Threads, CloseEnd(t)
      PROVE  ControlInv'
      BY <1>11 DEF CloseEnd, Return, Dropping, ConnOps, OpenOps, TypeOK,
             ControlInv
<1>12. ASSUME NEW t \in Threads, Panic(t)
      PROVE  ControlInv'
      BY <1>12 DEF Panic, Return, Dropping, ConnOps, OpenOps, TypeOK,
             ControlInv, RefInv
<1>13. ASSUME NEW t \in Threads, \E u \in Threads : Share(t, u)
      PROVE  ControlInv'
      BY <1>13 DEF Share, lockVars, threadVars, ControlInv
<1>14. ASSUME NEW t \in Threads, Drop(t)
      PROVE  ControlInv'
      BY <1>14 DEF Drop, DropConnRef, DropRef, Goto, Begin, threadVars,
             Handles, ConnPhases, ConnOps, OpenOps, TypeOK, ControlInv
<1>15. ASSUME NEW t \in Threads, ReleaseRef(t)
      PROVE  ControlInv'
      BY <1>15 DEF ReleaseRef, ConnPhases, TypeOK, ControlInv
<1>16. ASSUME NEW t \in Threads, ConnDrop(t) \/ ConnDropClose(t) \/ ConnFree(t)
      PROVE  ControlInv'
      BY <1>16 DEF ConnDrop, ConnDropClose, AfterClose, ConnFree, Goto,
             ConnPhases, TypeOK, ControlInv
<1> QED BY CallShape, OpenShape, <1>1, <1>2, <1>3, <1>4, <1>5, <1>6, <1>7,
       <1>8, <1>9, <1>10, <1>11, <1>12, <1>13, <1>14, <1>15, <1>16 DEF Next,
       Step

(* While the connection's destructor runs, every other thread is outside   *)
(* the library: its call would hold a reference.                           *)
LEMMA DestructorAlone ==
    ASSUME TypeOK, ControlInv, RefInv, ConnInv,
           NEW t \in Threads, pc[t] \in ConnPhases,
           NEW u \in Threads \ {t}
    PROVE  op[u] = "none"
<1>1. connRefs = {} /\ \A h \in Handles : ~Holds(h)
      BY DEF ConnInv
<1>2. op[u] \notin ConnOps
      BY <1>1, Zenon DEF RefInv
<1>3. arg[u] \notin Handles \/ op[u] = "none"
      BY <1>1, LifecycleAssumption DEF RefInv, Holds
<1>4. op[u] \in {"use", "fetch", "fin", "sess", "del"} => arg[u] \in Handles
      BY Zenon DEF ControlInv, Handles, Raw
<1> QED BY <1>2, <1>3, <1>4, Zenon DEF TypeOK, Ops, ConnOps

(* A thread keeps its references while it works, a destructor has no rival. *)
LEMMA RefStep ==
    ASSUME TypeOK, ControlInv, RefInv, ConnInv
    PROVE  [Next]_vars => RefInv'
<1>1. CASE UNCHANGED vars
      BY <1>1 DEF vars, beamVars, threadVars, RefInv
<1>2. ASSUME NEW t \in Threads, Enters(t)
      PROVE  RefInv'
      BY <1>2 DEF Enters, Entry, beamVars, ConnOps, OpenOps, ControlInv,
             RefInv
<1>3. ASSUME NEW t \in Threads, LockConn(t) \/ LockPoisoned(t)
      PROVE  RefInv'
      BY <1>3 DEF LockConn, LockPoisoned, Goto, beamVars, Return, Dropping,
             ConnOps, OpenOps, TypeOK, RefInv
<1>4. ASSUME NEW t \in Threads, CheckOpen(t) \/ CheckClosed(t) \/ CloseTake(t)
      PROVE  RefInv'
      BY <1>4 DEF CheckOpen, CheckClosed, CloseTake, Goto, beamVars, Return,
             Dropping, ConnOps, OpenOps, TypeOK, RefInv, ConnInv
<1>5. ASSUME NEW t \in Threads, LoadPtr(t) \/ LoadNull(t) \/ EndCall(t)
      PROVE  RefInv'
      BY <1>5 DEF LoadPtr, LoadNull, EndCall, Goto, beamVars, Return,
             Dropping, ConnOps, OpenOps, TypeOK, RefInv
<1>6. ASSUME NEW t \in Threads, Opens(t)
      PROVE  RefInv'
      BY <1>6 DEF Opens, Opened, NotOpened, Born, BornEmpty, Orphan, Return,
             Dropping, Ops, ConnOps, OpenOps, TypeOK, RefInv
<1>7. ASSUME NEW t \in Threads, FetchRow(t) \/ FetchEnd(t) \/ FetchTake(t)
      PROVE  RefInv'
      BY <1>7 DEF FetchRow, FetchEnd, FetchTake, beamVars, Goto, Return,
             Dropping, ConnOps, OpenOps, TypeOK, RefInv
<1>8. ASSUME NEW t \in Threads, SwapPtr(t)
      PROVE  RefInv'
      BY <1>8 DEF SwapPtr, Goto, Return, beamVars, Dropping, ConnOps, OpenOps,
             TypeOK, RefInv
<1>9. ASSUME NEW t \in Threads, LockSession(t) \/ DeleteTake(t)
      PROVE  RefInv'
      BY <1>9 DEF LockSession, DeleteTake, Goto, beamVars, Return, Dropping,
             ConnOps, OpenOps, TypeOK, RefInv
<1>10. ASSUME NEW t \in Threads, Freed(t)
      PROVE  RefInv'
      BY <1>10 DEF Freed, Return, beamVars, Dropping, ConnOps, OpenOps,
             TypeOK, RefInv
<1>11. ASSUME NEW t \in Threads, CloseEnd(t)
      PROVE  RefInv'
      BY <1>11 DEF CloseEnd, Return, beamVars, ConnOps, ControlInv, RefInv
<1>12. ASSUME NEW t \in Threads, Panic(t)
      PROVE  RefInv'
      BY <1>12 DEF Panic, NotOpened, Orphan, Return, Dropping, ConnOps,
             OpenOps, TypeOK, RefInv
<1>13. ASSUME NEW t \in Threads, \E u \in Threads : Share(t, u)
      PROVE  RefInv'
      BY <1>13 DEF Share, threadVars, TypeOK, RefInv
<1>14. ASSUME NEW t \in Threads, Drop(t)
      PROVE  RefInv'
      BY <1>14, SMTT(30) DEF Drop, DropConnRef, DropRef, Goto, Begin, threadVars,
             Handles, ConnPhases, ConnOps, OpenOps, TypeOK, ControlInv, RefInv
<1>15. ASSUME NEW t \in Threads, ReleaseRef(t)
      PROVE  RefInv'
      BY <1>15, LifecycleAssumption DEF ReleaseRef, TypeOK, RefInv
<1>16. ASSUME NEW t \in Threads, ConnDrop(t) \/ ConnDropClose(t) \/ ConnFree(t)
      PROVE  RefInv'
      BY <1>16 DEF ConnDrop, ConnDropClose, ConnFree, Goto, beamVars, Handles,
             TypeOK, RefInv
<1> QED BY CallShape, OpenShape, <1>1, <1>2, <1>3, <1>4, <1>5, <1>6, <1>7,
       <1>8, <1>9, <1>10, <1>11, <1>12, <1>13, <1>14, <1>15, <1>16, Zenon DEF Next,
       Step

(* The connection's destructor starts last and runs once. *)
LEMMA ConnStep ==
    ASSUME TypeOK, LockInv, ControlInv, RefInv, ConnInv, DbInv
    PROVE  [Next]_vars => ConnInv'
<1>1. CASE UNCHANGED vars
      BY <1>1, Zenon DEF vars, sqliteVars, beamVars, threadVars, Holds, ConnInv
<1>2. ASSUME NEW t \in Threads, Enters(t)
      PROVE  ConnInv'
      BY <1>2 DEF Enters, sqliteVars, beamVars, Holds, ConnPhases, ConnInv
<1>3. ASSUME NEW t \in Threads, LockConn(t) \/ LockPoisoned(t)
      PROVE  ConnInv'
      BY <1>3 DEF LockConn, LockPoisoned, Goto, sqliteVars, beamVars, Return,
             Holds, ConnPhases, TypeOK, ConnInv
<1>4. ASSUME NEW t \in Threads, CheckOpen(t) \/ CheckClosed(t) \/ CloseTake(t)
      PROVE  ConnInv'
      BY <1>4 DEF CheckOpen, CheckClosed, CloseTake, Goto, sqliteVars,
             beamVars, Return, Holds, ConnPhases, ConnOps, TypeOK, RefInv,
             ConnInv
<1>5. ASSUME NEW t \in Threads, LoadPtr(t) \/ LoadNull(t) \/ EndCall(t)
      PROVE  ConnInv'
      BY <1>5 DEF LoadPtr, LoadNull, EndCall, Goto, sqliteVars, beamVars,
             Return, Holds, ConnPhases, TypeOK, ConnInv
<1>6. ASSUME NEW t \in Threads, Opens(t)
      PROVE  ConnInv'
      BY <1>6 DEF Opens, Opened, Return, ConnPhases, ConnOps, RefInv, ConnInv
<1>7. ASSUME NEW t \in Threads, FetchRow(t) \/ FetchEnd(t) \/ FetchTake(t)
      PROVE  ConnInv'
      BY <1>7 DEF FetchRow, FetchEnd, FetchTake, sqliteVars, beamVars, Goto,
             Return, Holds, ConnPhases, TypeOK, ConnInv
<1>8. ASSUME NEW t \in Threads, SwapPtr(t)
      PROVE  ConnInv'
      BY <1>8 DEF SwapPtr, Goto, Return, beamVars, Holds, ConnPhases, OpenOps,
             TypeOK, ConnInv
<1>9. ASSUME NEW t \in Threads, LockSession(t) \/ DeleteTake(t)
      PROVE  ConnInv'
      BY <1>9, LifecycleAssumption DEF LockSession, DeleteTake, Goto,
             beamVars, Return, Handles, Holds, Ops, ConnPhases, ConnOps,
             TypeOK, LockInv, ControlInv, RefInv, ConnInv
<1>10. ASSUME NEW t \in Threads, Freed(t)
      PROVE  ConnInv'
      BY <1>10 DEF Freed, Return, beamVars, Holds, ConnPhases, ConnInv
<1>11. ASSUME NEW t \in Threads, CloseEnd(t)
      PROVE  ConnInv'
      BY <1>11 DEF CloseEnd, Return, beamVars, ConnPhases, ConnOps, RefInv,
             ConnInv
<1>12. ASSUME NEW t \in Threads, Panic(t)
      PROVE  ConnInv'
      BY <1>12 DEF Panic, NotOpened, Return, Holds, ConnPhases, ConnOps,
             OpenOps, RefInv, ConnInv
<1>13. ASSUME NEW t \in Threads, \E u \in Threads : Share(t, u)
      PROVE  ConnInv'
      BY <1>13 DEF Share, sqliteVars, threadVars, Holds, ConnInv
<1>14. ASSUME NEW t \in Threads, Drop(t)
      PROVE  ConnInv'
      BY <1>14 DEF Drop, DropConnRef, DropRef, Goto, Begin, threadVars, Holds,
             ConnPhases, TypeOK, RefInv, ConnInv
<1>15. ASSUME NEW t \in Threads, ReleaseRef(t)
      PROVE  ConnInv'
      BY <1>15, LifecycleAssumption DEF ReleaseRef, Holds, ConnPhases, TypeOK,
             ControlInv, RefInv, ConnInv
<1>16. ASSUME NEW t \in Threads, ConnDrop(t) \/ ConnDropClose(t) \/ ConnFree(t)
      PROVE  ConnInv'
      BY <1>16 DEF ConnDrop, ConnDropClose, ConnFree, Goto, sqliteVars,
             beamVars, Holds, ConnPhases, TypeOK, ConnInv
<1> QED BY CallShape, OpenShape, <1>1, <1>2, <1>3, <1>4, <1>5, <1>6, <1>7,
       <1>8, <1>9, <1>10, <1>11, <1>12, <1>13, <1>14, <1>15, <1>16, Zenon DEF Next,
       Step
=============================================================================
