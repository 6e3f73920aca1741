----------------------- MODULE HandleLifecycle_proofs -----------------------
(***************************************************************************)
(* Part two of the proof that IInv of HandleLifecycle is inductive: who    *)
(* owns each SQLite object, the connection, and what may be lost.  Then    *)
(* the theorems, for any number of threads and handles: the safety         *)
(* properties, and that it implements SqliteContract.                      *)
(***************************************************************************)
EXTENDS HandleLifecycle_control

(* Pointers lead to live objects and have one owner once swapped out. *)
LEMMA ObjStep ==
    ASSUME TypeOK, LockInv, ControlInv, RefInv, ObjInv
    PROVE  [Next]_vars => ObjInv'
<1>1. CASE UNCHANGED vars
      BY <1>1 DEF vars, sqliteVars, beamVars, threadVars, Holds, Owns, ObjInv
<1>2. ASSUME NEW t \in Threads, Enters(t)
      PROVE  ObjInv'
      BY <1>2, LifecycleAssumption DEF Enters, Entry, sqliteVars, beamVars,
             Holds, Owns, ControlInv, ObjInv
<1>3. ASSUME NEW t \in Threads, LockConn(t) \/ LockPoisoned(t)
      PROVE  ObjInv'
      BY <1>3 DEF LockConn, LockPoisoned, Goto, sqliteVars, beamVars, Return,
             Dropping, Holds, Owns, TypeOK, RefInv, ObjInv
<1>4. ASSUME NEW t \in Threads, CheckOpen(t) \/ CheckClosed(t) \/ CloseTake(t)
      PROVE  ObjInv'
      BY <1>4, SMTT(30) DEF CheckOpen, CheckClosed, CloseTake, Goto, lockVars,
             sqliteVars, beamVars, Return, Dropping, Holds, Owns, TypeOK,
             ControlInv, RefInv, ObjInv
<1>5. ASSUME NEW t \in Threads, LoadPtr(t) \/ LoadNull(t) \/ EndCall(t)
      PROVE  ObjInv'
      BY <1>5, SMTT(30) DEF LoadPtr, LoadNull, EndCall, Goto, sqliteVars, beamVars,
             Return, Unlock, Dropping, Handles, Raw, Holds, Owns, Ops, TypeOK,
             LockInv, ControlInv, RefInv, ObjInv
<1>6. ASSUME NEW t \in Threads, Opens(t)
      PROVE  ObjInv'
  <2>1. PICK o \in OpenOps : Opened(t, o)
        BY <1>6 DEF Opens
  <2>2. /\ pc'[t] = "idle" /\ arg'[t] = None
        /\ \A u \in Threads \ {t} : pc'[u] = pc[u] /\ op'[u] = op[u] /\ arg'[u] = arg[u]
        BY <2>1, SMTT(30) DEF Opened, Return, Dropping, TypeOK, ControlInv, ConnOps
  <2>3. CASE NotOpened
        BY <2>2, <2>3, LifecycleAssumption, SMTT(30) DEF NotOpened, ObjInv, Owns, Holds
  <2>4. ASSUME NEW h \in Handles, Born(t, h) \/ BornEmpty(t, h) \/ Orphan(h)
        PROVE  ObjInv'
    <3>1. obj[h] = "none" /\ ~ptr[h] /\ \A u \in Threads : arg[u] # h
          BY <2>4, LifecycleAssumption DEF Born, BornEmpty, Orphan, ObjInv, RefInv, Holds
    <3>2. \A g \in Handles \ {h} :
            obj'[g] = obj[g] /\ ptr'[g] = ptr[g] /\ res'[g] = res[g]
          BY <2>4, Zenon DEF Born, BornEmpty, Orphan, TypeOK
    <3>3. /\ res'[h] \in {"alive", "orphan"}
          /\ ptr'[h] => obj'[h] = "live" /\ res'[h] = "alive"
          BY <2>4, <3>1, Zenon DEF Born, BornEmpty, Orphan, TypeOK
    <3>4. \A g \in Handles : res'[g] = "unborn" => obj'[g] = "none"
          BY <3>2, <3>3, Zenon DEF ObjInv
    <3>5. \A g \in Handles : ptr'[g] => obj'[g] = "live" /\ Holds(g)'
          BY <3>2, <3>3, Zenon DEF ObjInv, Holds
    <3>6. \A u \in Threads : pc'[u] = "release" => ~ptr'[arg'[u]]
          BY <2>2, <3>1, <3>2 DEF ObjInv, ControlInv
    <3>7. \A u \in Threads, g \in Handles : Owns(u, g)' =>
            u # t /\ g # h /\ Owns(u, g)
          BY <2>2, <3>1, LifecycleAssumption, Zenon DEF Owns
    <3>8. \A u \in Threads, g \in Handles : Owns(u, g)' =>
            /\ obj'[g] = "live" /\ ~ptr'[g]
            /\ \A v \in Threads \ {u} : ~Owns(v, g)'
          BY <3>2, <3>7, Zenon DEF ObjInv
    <3>9. \A u \in Threads :
            pc'[u] = "call" /\ op'[u] \in {"use", "fetch", "sess"} => obj'[arg'[u]] = "live"
      <4>1. \A u \in Threads : op[u] \in {"use", "fetch", "sess"} => arg[u] \in Handles
            BY Zenon DEF ControlInv, Handles, Raw
      <4> QED BY <2>2, <3>1, <3>2, <4>1 DEF ObjInv
    <3> QED BY <3>4, <3>5, <3>6, <3>8, <3>9, Zenon DEF ObjInv
  <2> QED BY <1>6, <2>3, <2>4 DEF Opens
<1>7. ASSUME NEW t \in Threads, FetchRow(t) \/ FetchEnd(t) \/ FetchTake(t)
      PROVE  ObjInv'
  <2>1. CASE FetchRow(t) \/ FetchEnd(t)
        BY <2>1 DEF FetchRow, FetchEnd, Goto, sqliteVars, beamVars, Holds, Owns, TypeOK,
           ObjInv
  <2>2. CASE FetchTake(t) /\ ptr[arg[t]]
    <3>1. /\ op[t] = "fetch" /\ arg[t] \in Handles
          /\ UNCHANGED <<obj, res, op, arg>>
          /\ ptr' = [ptr EXCEPT ![arg[t]] = FALSE]
          /\ pc' = [pc EXCEPT ![t] = "free"]
          BY <2>2, Zenon DEF FetchTake, Goto, beamVars, ControlInv, Handles, Raw
    <3>2. \A u \in Threads : ~Owns(u, arg[t])
          BY <2>2, <3>1, Zenon DEF ObjInv
    <3>3. \A u \in Threads, h \in Handles : Owns(u, h)' =>
            Owns(u, h) \/ (u = t /\ h = arg[t])
          BY <3>1, Zenon DEF Owns, TypeOK
    <3>4. \A u \in Threads, h \in Handles : Owns(u, h)' =>
            /\ obj'[h] = "live" /\ ~ptr'[h]
            /\ \A v \in Threads \ {u} : ~Owns(v, h)'
          BY <2>2, <3>1, <3>2, <3>3 DEF ObjInv, TypeOK
    <3>5. \A u \in Threads : pc'[u] = "release" => ~ptr'[arg'[u]]
          BY <3>1 DEF ObjInv, ControlInv, TypeOK
    <3>6. \A u \in Threads :
            pc'[u] = "call" /\ op'[u] \in {"use", "fetch", "sess"} => obj'[arg'[u]] = "live"
          BY <3>1, Zenon DEF ObjInv, TypeOK
    <3> QED BY <3>1, <3>4, <3>5, <3>6 DEF ObjInv, Holds, TypeOK
  <2>3. CASE FetchTake(t) /\ ~ptr[arg[t]]
        BY <2>3, LifecycleAssumption DEF FetchTake, Return, beamVars, Dropping, Holds, Owns,
           TypeOK, ObjInv
  <2> QED BY <1>7, <2>1, <2>2, <2>3, Zenon
<1>8. ASSUME NEW t \in Threads, SwapPtr(t)
      PROVE  ObjInv'
      BY <1>8, SMTT(30) DEF SwapPtr, Goto, Return, beamVars, Dropping, Holds, Owns,
             TypeOK, ObjInv
<1>9. ASSUME NEW t \in Threads, LockSession(t) \/ DeleteTake(t)
      PROVE  ObjInv'
      BY <1>9, SMTT(30) DEF LockSession, DeleteTake, Goto, sqliteVars, beamVars, Return,
             Handles, Raw, Holds, Owns, ConnPhases, ConnOps, OpenOps, TypeOK,
             LockInv, ControlInv, RefInv, ObjInv
<1>10. ASSUME NEW t \in Threads, Freed(t)
      PROVE  ObjInv'
      BY <1>10 DEF Freed, Return, beamVars, Dropping, Holds, Owns, TypeOK,
             LockInv, ObjInv
<1>11. ASSUME NEW t \in Threads, CloseEnd(t)
      PROVE  ObjInv'
      BY <1>11, SMTT(30) DEF CloseEnd, Return, beamVars, Dropping, Holds, Owns, RefInv,
             ObjInv
<1>12. ASSUME NEW t \in Threads, Panic(t)
      PROVE  ObjInv'
      BY <1>12, SMTT(30) DEF Panic, NotOpened, Orphan, Return, Dropping, Handles, Holds,
             Owns, TypeOK, LockInv, ControlInv, RefInv, ObjInv
<1>13. ASSUME NEW t \in Threads, \E u \in Threads : Share(t, u)
      PROVE  ObjInv'
      BY <1>13, SMTT(30) DEF Share, sqliteVars, threadVars, Holds, Owns, ObjInv
<1>14. ASSUME NEW t \in Threads, Drop(t)
      PROVE  ObjInv'
      BY <1>14, SMTT(30) DEF Drop, DropConnRef, DropRef, Goto, sqliteVars, Begin,
             threadVars, Raw, Holds, Owns, Ops, ConnPhases, ConnOps, TypeOK,
             LockInv, ControlInv, ObjInv
<1>15. ASSUME NEW t \in Threads, ReleaseRef(t)
      PROVE  ObjInv'
      BY <1>15 DEF ReleaseRef, sqliteVars, Holds, Owns, TypeOK, ObjInv
<1>16. ASSUME NEW t \in Threads, ConnDrop(t) \/ ConnDropClose(t) \/ ConnFree(t)
      PROVE  ObjInv'
      BY <1>16 DEF ConnDrop, ConnDropClose, ConnFree, Goto, sqliteVars,
             beamVars, Holds, Owns, TypeOK, ObjInv
<1> QED BY CallShape, OpenShape, <1>1, <1>2, <1>3, <1>4, <1>5, <1>6, <1>7, SMTT(30),
       <1>8, <1>9, <1>10, <1>11, <1>12, <1>13, <1>14, <1>15, <1>16 DEF Next,
       Step

(* SQLite's connection agrees with the Option and outlives what pins it. *)
LEMMA DbStep ==
    ASSUME TypeOK, LockInv, ControlInv, RefInv, ConnInv, ObjInv, DbInv,
           QuietAfterCloseOrPoison
    PROVE  [Next]_vars => DbInv'
<1>1. CASE UNCHANGED vars
      BY <1>1 DEF vars, lockVars, sqliteVars, threadVars, DbInv
<1>2. ASSUME NEW t \in Threads, Enters(t)
      PROVE  DbInv'
      BY <1>2 DEF Enters, lockVars, sqliteVars, DbInv
<1>3. ASSUME NEW t \in Threads, LockConn(t) \/ LockPoisoned(t)
      PROVE  DbInv'
      BY <1>3 DEF LockConn, LockPoisoned, Goto, sqliteVars, Return, TypeOK,
             DbInv
<1>4. ASSUME NEW t \in Threads, CheckOpen(t) \/ CheckClosed(t) \/ CloseTake(t)
      PROVE  DbInv'
      BY <1>4 DEF CheckOpen, CheckClosed, CloseTake, Goto, lockVars,
             sqliteVars, Return, TypeOK, LockInv, DbInv
<1>5. ASSUME NEW t \in Threads, LoadPtr(t) \/ LoadNull(t) \/ EndCall(t)
      PROVE  DbInv'
      BY <1>5 DEF LoadPtr, LoadNull, EndCall, Goto, sqliteVars, Return,
             ConnOps, TypeOK, LockInv, ControlInv, DbInv
<1>6. ASSUME NEW t \in Threads, Opens(t)
      PROVE  DbInv'
      BY <1>6 DEF Opens, Opened, Return, Unlock, OpenOps, DbInv,
             QuietAfterCloseOrPoison
<1>7. ASSUME NEW t \in Threads, FetchRow(t) \/ FetchEnd(t) \/ FetchTake(t)
      PROVE  DbInv'
      BY <1>7 DEF FetchRow, FetchEnd, FetchTake, lockVars, sqliteVars, Goto,
             Return, TypeOK, LockInv, DbInv, QuietAfterCloseOrPoison
<1>8. ASSUME NEW t \in Threads, SwapPtr(t)
      PROVE  DbInv'
      BY <1>8 DEF SwapPtr, Goto, Return, lockVars, TypeOK, DbInv
<1>9. ASSUME NEW t \in Threads, LockSession(t) \/ DeleteTake(t)
      PROVE  DbInv'
      BY <1>9 DEF LockSession, DeleteTake, Goto, sqliteVars, Return, Ops,
             ConnPhases, ConnOps, OpenOps, TypeOK, LockInv, ControlInv, DbInv
<1>10. ASSUME NEW t \in Threads, Freed(t)
      PROVE  DbInv'
      BY <1>10 DEF Freed, Return, Unlock, DbInv
<1>11. ASSUME NEW t \in Threads, CloseEnd(t)
      PROVE  DbInv'
      BY <1>11 DEF CloseEnd, AfterClose, Return, LockInv, DbInv
<1>12. ASSUME NEW t \in Threads, Panic(t)
      PROVE  DbInv'
      BY <1>12 DEF Panic, Return, LockInv, DbInv, QuietAfterCloseOrPoison
<1>13. ASSUME NEW t \in Threads, \E u \in Threads : Share(t, u)
      PROVE  DbInv'
      BY <1>13 DEF Share, lockVars, sqliteVars, threadVars, DbInv
<1>14. ASSUME NEW t \in Threads, Drop(t)
      PROVE  DbInv'
      BY <1>14 DEF Drop, DropConnRef, DropRef, Goto, lockVars, sqliteVars,
             Begin, threadVars, TypeOK, DbInv
<1>15. ASSUME NEW t \in Threads, ReleaseRef(t)
      PROVE  DbInv'
      BY <1>15 DEF ReleaseRef, lockVars, sqliteVars, DbInv
<1>16. ASSUME NEW t \in Threads, ConnDrop(t) \/ ConnDropClose(t) \/ ConnFree(t)
      PROVE  DbInv'
  <2>1. pc[t] \in ConnPhases
        BY <1>16 DEF ConnDrop, ConnDropClose, ConnFree, ConnPhases
  <2>2. \A u \in Threads \ {t} : op[u] = "none"
        BY <2>1, DestructorAlone, Zenon
  <2>3. \A u \in Threads : pc'[u] \notin {"check", "load", "slock", "call"}
        BY <1>16, <2>2 DEF ConnDrop, ConnDropClose, ConnFree, Goto, Return, ControlInv,
           ConnPhases, TypeOK
  <2>4. conn' => db' = "open"
        BY <1>16, Zenon DEF ConnDrop, ConnDropClose, ConnFree, sqliteVars, DbInv
  <2>5. db' = "freed" => \A h \in Raw : obj'[h] # "live"
        BY <1>16, Zenon DEF ConnDrop, ConnDropClose, ConnFree, AfterClose, sqliteVars, DbInv
  <2> QED BY <2>3, <2>4, <2>5 DEF DbInv
<1> QED BY CallShape, OpenShape, <1>1, <1>2, <1>3, <1>4, <1>5, <1>6, <1>7,
       <1>8, <1>9, <1>10, <1>11, <1>12, <1>13, <1>14, <1>15, <1>16, Zenon DEF Next,
       Step

(* No body runs on a closed or poisoned connection. *)
LEMMA QuietStep ==
    ASSUME TypeOK, LockInv, ControlInv, RefInv, ConnInv, DbInv,
           QuietAfterCloseOrPoison
    PROVE  [Next]_vars => QuietAfterCloseOrPoison'
<1>1. CASE UNCHANGED vars
      BY <1>1 DEF vars, lockVars, sqliteVars, threadVars,
             QuietAfterCloseOrPoison
<1>2. ASSUME NEW t \in Threads, Enters(t)
      PROVE  QuietAfterCloseOrPoison'
      BY <1>2 DEF Enters, lockVars, sqliteVars, QuietAfterCloseOrPoison
<1>3. ASSUME NEW t \in Threads, LockConn(t) \/ LockPoisoned(t)
      PROVE  QuietAfterCloseOrPoison'
      BY <1>3, LifecycleAssumption DEF LockConn, LockPoisoned, Goto, Return,
             TypeOK, LockInv, QuietAfterCloseOrPoison
<1>4. ASSUME NEW t \in Threads, CheckOpen(t) \/ CheckClosed(t) \/ CloseTake(t)
      PROVE  QuietAfterCloseOrPoison'
      BY <1>4 DEF CheckOpen, CheckClosed, CloseTake, Goto, lockVars,
             sqliteVars, Return, TypeOK, LockInv, DbInv,
             QuietAfterCloseOrPoison
<1>5. ASSUME NEW t \in Threads, LoadPtr(t) \/ LoadNull(t) \/ EndCall(t)
      PROVE  QuietAfterCloseOrPoison'
      BY <1>5 DEF LoadPtr, LoadNull, EndCall, lockVars, sqliteVars, Return,
             TypeOK, LockInv, DbInv, QuietAfterCloseOrPoison
<1>6. ASSUME NEW t \in Threads, Opens(t)
      PROVE  QuietAfterCloseOrPoison'
      BY <1>6 DEF Opens, Opened, Return, TypeOK, LockInv,
             QuietAfterCloseOrPoison
<1>7. ASSUME NEW t \in Threads, FetchRow(t) \/ FetchEnd(t) \/ FetchTake(t)
      PROVE  QuietAfterCloseOrPoison'
      BY <1>7 DEF FetchRow, FetchEnd, FetchTake, Goto, Return, TypeOK,
             LockInv, QuietAfterCloseOrPoison
<1>8. ASSUME NEW t \in Threads, SwapPtr(t)
      PROVE  QuietAfterCloseOrPoison'
      BY <1>8 DEF SwapPtr, Goto, Return, lockVars, TypeOK,
             QuietAfterCloseOrPoison
<1>9. ASSUME NEW t \in Threads, LockSession(t) \/ DeleteTake(t)
      PROVE  QuietAfterCloseOrPoison'
      BY <1>9 DEF LockSession, DeleteTake, Goto, Return, TypeOK, LockInv,
             QuietAfterCloseOrPoison
<1>10. ASSUME NEW t \in Threads, Freed(t)
      PROVE  QuietAfterCloseOrPoison'
      BY <1>10 DEF Freed, Return, Unlock, QuietAfterCloseOrPoison
<1>11. ASSUME NEW t \in Threads, CloseEnd(t)
      PROVE  QuietAfterCloseOrPoison'
      BY <1>11, Zenon DEF CloseEnd, Return, TypeOK, LockInv, QuietAfterCloseOrPoison
<1>12. ASSUME NEW t \in Threads, Panic(t)
      PROVE  QuietAfterCloseOrPoison'
      BY <1>12, Zenon DEF Panic, Return, TypeOK, LockInv, QuietAfterCloseOrPoison
<1>13. ASSUME NEW t \in Threads, \E u \in Threads : Share(t, u)
      PROVE  QuietAfterCloseOrPoison'
      BY <1>13 DEF Share, lockVars, sqliteVars, threadVars,
             QuietAfterCloseOrPoison
<1>14. ASSUME NEW t \in Threads, Drop(t)
      PROVE  QuietAfterCloseOrPoison'
      BY <1>14 DEF Drop, DropConnRef, DropRef, Goto, lockVars, sqliteVars,
             Begin, threadVars, TypeOK, QuietAfterCloseOrPoison
<1>15. ASSUME NEW t \in Threads, ReleaseRef(t)
      PROVE  QuietAfterCloseOrPoison'
      BY <1>15 DEF ReleaseRef, lockVars, sqliteVars, QuietAfterCloseOrPoison
<1>16. ASSUME NEW t \in Threads, ConnDrop(t) \/ ConnDropClose(t) \/ ConnFree(t)
      PROVE  QuietAfterCloseOrPoison'
  <2>1. pc[t] \in ConnPhases
        BY <1>16 DEF ConnDrop, ConnDropClose, ConnFree, ConnPhases
  <2>2. \A u \in Threads \ {t} : op[u] = "none"
        BY <2>1, DestructorAlone, Zenon
  <2>3. \A u \in Threads : pc'[u] # "call"
        BY <1>16, <2>2 DEF ConnDrop, ConnDropClose, ConnFree, Goto, Return, ControlInv,
           ConnPhases, TypeOK
  <2> QED BY <2>3 DEF QuietAfterCloseOrPoison
<1> QED BY CallShape, OpenShape, <1>1, <1>2, <1>3, <1>4, <1>5, <1>6, <1>7,
       <1>8, <1>9, <1>10, <1>11, <1>12, <1>13, <1>14, <1>15, <1>16, Zenon DEF Next,
       Step

(* No step loses a live object without one of the known causes. *)
LEMMA LostStep ==
    ASSUME TypeOK, LockInv, ControlInv, RefInv, ConnInv, ObjInv,
           NothingLostSilently
    PROVE  [Next]_vars => NothingLostSilently'
<1>1. CASE UNCHANGED vars
      BY <1>1, Zenon DEF vars, lockVars, sqliteVars, beamVars, threadVars, Owns,
             NothingLostSilently
<1>2. ASSUME NEW t \in Threads, Enters(t)
      PROVE  NothingLostSilently'
      BY <1>2 DEF Enters, lockVars, sqliteVars, beamVars, Owns,
             NothingLostSilently
<1>3. ASSUME NEW t \in Threads, LockConn(t) \/ LockPoisoned(t)
      PROVE  NothingLostSilently'
      BY <1>3 DEF LockConn, LockPoisoned, Goto, sqliteVars, beamVars, Owns,
             TypeOK, NothingLostSilently
<1>4. ASSUME NEW t \in Threads, CheckOpen(t) \/ CheckClosed(t) \/ CloseTake(t)
      PROVE  NothingLostSilently'
      BY <1>4 DEF CheckOpen, CheckClosed, CloseTake, Goto, lockVars,
             sqliteVars, beamVars, Return, Unlock, Owns, TypeOK,
             NothingLostSilently
<1>5. ASSUME NEW t \in Threads, LoadPtr(t) \/ LoadNull(t) \/ EndCall(t)
      PROVE  NothingLostSilently'
      BY <1>5 DEF LoadPtr, LoadNull, EndCall, Goto, lockVars, sqliteVars,
             beamVars, Return, Unlock, Owns, TypeOK, NothingLostSilently
<1>6. ASSUME NEW t \in Threads, Opens(t)
      PROVE  NothingLostSilently'
      BY <1>6 DEF Opens, Opened, NotOpened, Born, BornEmpty, Orphan, Return,
             Unlock, Owns, TypeOK, NothingLostSilently
<1>7. ASSUME NEW t \in Threads, FetchRow(t) \/ FetchEnd(t) \/ FetchTake(t)
      PROVE  NothingLostSilently'
      BY <1>7 DEF FetchRow, FetchEnd, FetchTake, lockVars, sqliteVars,
             beamVars, Goto, Return, Unlock, Owns, TypeOK, NothingLostSilently
<1>8. ASSUME NEW t \in Threads, SwapPtr(t)
      PROVE  NothingLostSilently'
      BY <1>8, LifecycleAssumption DEF SwapPtr, Goto, Return, lockVars,
             beamVars, Owns, Ops, ConnOps, TypeOK, ControlInv, RefInv,
             ConnInv, NothingLostSilently
<1>9. ASSUME NEW t \in Threads, LockSession(t) \/ DeleteTake(t)
      PROVE  NothingLostSilently'
      BY <1>9 DEF LockSession, DeleteTake, Goto, sqliteVars, beamVars, Return,
             Unlock, lockVars, Owns, ConnOps, TypeOK, ControlInv, ObjInv,
             NothingLostSilently
<1>10. ASSUME NEW t \in Threads, Freed(t)
      PROVE  NothingLostSilently'
      BY <1>10 DEF Freed, Return, Unlock, beamVars, Owns, TypeOK,
             NothingLostSilently
<1>11. ASSUME NEW t \in Threads, CloseEnd(t)
      PROVE  NothingLostSilently'
      BY <1>11 DEF CloseEnd, Return, Unlock, beamVars, Owns,
             NothingLostSilently
<1>12. ASSUME NEW t \in Threads, Panic(t)
      PROVE  NothingLostSilently'
      BY <1>12, Zenon DEF Panic, NothingLostSilently
<1>13. ASSUME NEW t \in Threads, \E u \in Threads : Share(t, u)
      PROVE  NothingLostSilently'
      BY <1>13 DEF Share, lockVars, sqliteVars, threadVars, Owns,
             NothingLostSilently
<1>14. ASSUME NEW t \in Threads, Drop(t)
      PROVE  NothingLostSilently'
      BY <1>14 DEF Drop, DropConnRef, DropRef, Goto, lockVars, sqliteVars,
             Begin, threadVars, Holds, Owns, TypeOK, RefInv,
             NothingLostSilently
<1>15. ASSUME NEW t \in Threads, ReleaseRef(t)
      PROVE  NothingLostSilently'
      BY <1>15, LifecycleAssumption DEF ReleaseRef, lockVars, sqliteVars,
             Owns, RefInv, NothingLostSilently
<1>16. ASSUME NEW t \in Threads, ConnDrop(t) \/ ConnDropClose(t) \/ ConnFree(t)
      PROVE  NothingLostSilently'
      BY <1>16 DEF ConnDrop, ConnDropClose, ConnFree, Goto, lockVars,
             sqliteVars, beamVars, Owns, TypeOK, NothingLostSilently
<1> QED BY CallShape, OpenShape, <1>1, <1>2, <1>3, <1>4, <1>5, <1>6, <1>7,
       <1>8, <1>9, <1>10, <1>11, <1>12, <1>13, <1>14, <1>15, <1>16 DEF Next,
       Step

(* A fresh connection satisfies the invariant. *)
LEMMA IInvInit == Init => IInv
<1> SUFFICES ASSUME Init PROVE IInv
    OBVIOUS
<1> USE LifecycleAssumption
<1>1. TypeOK
  <2>1. /\ pc \in [Threads -> Pcs]
        /\ op \in [Threads -> Ops]
        /\ arg \in [Threads -> Handles \cup {None}]
        /\ left \in [Threads -> 0..MaxBatch]
        BY DEF Init, Pcs, Ops
  <2>2. /\ obj \in [Handles -> {"none", "live", "dead"}]
        /\ ptr \in [Handles -> BOOLEAN]
        /\ res \in [Handles -> {"unborn", "alive", "dropping", "gone", "orphan"}]
        /\ refs \in [Handles -> SUBSET Threads]
        /\ slock \in [Sessions -> Threads \cup {None}]
        BY DEF Init
  <2>3. poisoned \in BOOLEAN /\ conn \in BOOLEAN
        BY Zenon DEF Init
  <2> QED BY <2>1, <2>2, <2>3, Zenon DEF Init, TypeOK
<1>2. LockInv /\ ControlInv
      BY Zenon DEF Init, LockInv, ControlInv, ConnPhases, ConnOps, OpenOps
<1>3. RefInv /\ ConnInv
      BY Zenon DEF Init, RefInv, ConnInv, ConnPhases, ConnOps, OpenOps
<1>4. ObjInv
      BY Zenon DEF Init, ObjInv, Owns
<1>5. DbInv
      BY Zenon DEF Init, DbInv, Handles
<1>6. QuietAfterCloseOrPoison
      BY Zenon DEF Init, QuietAfterCloseOrPoison
<1>7. NothingLostSilently
      BY DEF Init, NothingLostSilently, Handles
<1> QED BY <1>1, <1>2, <1>3, <1>4, <1>5, <1>6, <1>7 DEF IInv

(* Every step of every thread preserves it. *)
LEMMA IInvStep == IInv /\ [Next]_vars => IInv'
<1> SUFFICES ASSUME IInv, [Next]_vars PROVE IInv'
    OBVIOUS
<1>1. /\ TypeOK /\ LockInv /\ ControlInv /\ RefInv /\ ConnInv /\ ObjInv /\ DbInv
      /\ QuietAfterCloseOrPoison /\ NothingLostSilently
      BY DEF IInv
<1>2. TypeOK' /\ LockInv' /\ ControlInv' /\ RefInv'
      BY <1>1, TypeStep, LockStep, ControlStep, RefStep
<1>3. ConnInv' /\ ObjInv' /\ DbInv'
      BY <1>1, ConnStep, ObjStep, DbStep
<1>4. QuietAfterCloseOrPoison' /\ NothingLostSilently'
      BY <1>1, QuietStep, LostStep
<1> QED BY <1>2, <1>3, <1>4 DEF IInv

(* The abstract variable target of SqliteContract. *)
Tgt == [t \in Threads |-> Target(t)]

(* Only t moves. *)
Moves(t) ==
    \A u \in Threads \ {t} : pc'[u] = pc[u] /\ op'[u] = op[u] /\ arg'[u] = arg[u]

(* A step of one thread changes the abstract target of that thread only. *)
LEMMA TargetFrame ==
    ASSUME NEW t \in Threads, Moves(t)
    PROVE  Tgt' = [Tgt EXCEPT ![t] = Target(t)']
<1>1. \A u \in Threads \ {t} : Target(u)' = Target(u)
      BY DEF Moves, Target
<1> QED BY <1>1, Zenon DEF Tgt

(* A thread that holds the connection mutex, or is about to take it, is    *)
(* the only one that can be inside SQLite.                                 *)
LEMMA LockAlone ==
    ASSUME IInv, NEW t \in Threads, lock \in {t, None}, op[t] # "none",
           NEW u \in Threads \ {t}
    PROVE  Target(u) = None
<1>1. pc[u] \notin {"call", "free"}
      BY LifecycleAssumption DEF IInv, LockInv
<1>2. pc[u] # "cclose"
      BY DestructorAlone DEF IInv, ConnPhases
<1> QED BY <1>1, <1>2 DEF Target

(* How a step enters SQLite: nobody is inside, and the target is legal. *)
LEMMA EnterStep ==
    ASSUME IInv, NEW t \in Threads, Moves(t), UNCHANGED <<db, obj>>,
           \A u \in Threads : Target(u) = None,
           Target(t)' \in Handles \cup {Db}, Contract!Legal(Target(t)')
    PROVE  Contract!Next
<1>1. [u \in Threads |-> Target(u)]' = [[u \in Threads |-> Target(u)] EXCEPT ![t] = Target(t)']
      BY TargetFrame DEF Tgt
<1>2. Handles = Contract!Objects
      BY DEF Handles, Contract!Objects
<1>3. Contract!Enter(t)
      BY <1>1, <1>2, Zenon DEF Contract!Enter
<1> QED BY <1>3 DEF Contract!Next

(* A step that enters nothing and leaves nothing is a stuttering step. *)
LEMMA StutterStep ==
    ASSUME NEW t \in Threads, Moves(t), UNCHANGED <<db, obj>>, Target(t)' = Target(t)
    PROVE  UNCHANGED Contract!vars
<1>1. Tgt' = Tgt
      BY TargetFrame, Zenon DEF Tgt
<1> QED BY <1>1 DEF Contract!vars, Tgt

(* How a step leaves SQLite. *)
LEMMA LeaveStep ==
    ASSUME NEW t \in Threads, Moves(t), Target(t) # None, Target(t)' = None,
           \/ UNCHANGED <<db, obj>>
           \/ /\ Target(t) = Db /\ UNCHANGED db
              /\ \E h \in Handles : obj[h] = "none" /\ obj' = [obj EXCEPT ![h] = "live"]
           \/ /\ Target(t) \in Handles /\ UNCHANGED db
              /\ obj' = [obj EXCEPT ![Target(t)] = "dead"]
           \/ Target(t) = Db /\ UNCHANGED obj /\ db' = AfterClose
    PROVE  Contract!Next
<1>1. [u \in Threads |-> Target(u)]' = [[u \in Threads |-> Target(u)] EXCEPT ![t] = None]
      BY TargetFrame DEF Tgt
<1>2. Handles = Contract!Objects
      BY DEF Handles, Contract!Objects
<1>3. AfterClose = Contract!AfterClose(obj)
      BY DEF AfterClose, Contract!AfterClose
<1>4. [u \in Threads |-> Target(u)][t] = Target(t)
      OBVIOUS
<1>5. Contract!Create(t) \/ Contract!Destroy(t) \/ Contract!Close(t) \/ UNCHANGED <<db, obj>>
      BY <1>2, <1>3, <1>4 DEF Contract!Create, Contract!Destroy, Contract!Close
<1>6. Contract!Leave(t)
      BY <1>1, <1>4, <1>5 DEF Contract!Leave
<1> QED BY <1>6 DEF Contract!Next

(* Going on and returning move one thread; returning leaves SQLite. *)
LEMMA GotoMoves ==
    ASSUME TypeOK, NEW t \in Threads, NEW l, Goto(t, l)
    PROVE  Moves(t) /\ pc'[t] = l /\ op'[t] = op[t] /\ arg'[t] = arg[t]
BY DEF TypeOK, Goto, Moves

LEMMA ReturnMoves ==
    ASSUME TypeOK, NEW t \in Threads, Return(t)
    PROVE  Moves(t) /\ Target(t)' = None
<1>1. Moves(t) /\ pc'[t] \in {"release", "idle"}
      BY DEF TypeOK, Return, Moves
<1> QED BY <1>1 DEF Target

(* Outside SQLite a thread has no target. *)
LEMMA NoTarget ==
    ASSUME NEW t \in Threads, pc[t] \notin {"call", "free", "cclose"}
    PROVE  Target(t) = None
BY DEF Target

(* The steps that take or test the lock and the Option. *)
LEMMA CheckRefines ==
    ASSUME IInv, NEW t \in Threads,
           LockConn(t) \/ LockPoisoned(t) \/ CheckOpen(t) \/ CheckClosed(t) \/ CloseTake(t)
    PROVE  [Contract!Next]_Contract!vars
<1> USE LifecycleAssumption
<1>1. pc[t] \in {"lock", "check"} /\ op[t] # "none" /\ lock \in {t, None}
      BY DEF LockConn, LockPoisoned, CheckOpen, CheckClosed, CloseTake, IInv, LockInv,
         ControlInv, ConnPhases
<1>2. TypeOK /\ UNCHANGED <<db, obj>>
      BY DEF LockConn, LockPoisoned, CheckOpen, CheckClosed, CloseTake, sqliteVars, IInv
<1>3. \A u \in Threads : Target(u) = None
      BY <1>1, LockAlone, NoTarget
<1>4. CASE Return(t)
      BY <1>2, <1>3, <1>4, ReturnMoves, StutterStep
<1>5. ASSUME NEW l \in {"check", "slock", "take", "load"}, Goto(t, l)
      PROVE  UNCHANGED Contract!vars
  <2>1. Moves(t) /\ pc'[t] = l
        BY <1>2, <1>5, GotoMoves
  <2>2. Target(t)' = None
        BY <2>1, Zenon DEF Target
  <2> QED BY <1>2, <1>3, <2>1, <2>2, StutterStep, Zenon
<1>6. CASE LockConn(t) /\ op[t] = "fin"
  <2>1. Moves(t) /\ Target(t)' = arg[t]
    <3>1. Goto(t, "free")
          BY <1>6, Zenon DEF LockConn
    <3> QED BY <1>2, <3>1, GotoMoves DEF Target
  <2>2. arg[t] \in Raw /\ obj[arg[t]] = "live" /\ db # "freed"
        BY <1>6 DEF LockConn, IInv, ControlInv, ObjInv, Owns, DbInv, Handles
  <2> QED BY <1>2, <1>3, <2>1, <2>2, EnterStep, Zenon DEF Contract!Legal, Handles
<1>7. CASE LockConn(t) /\ op[t] # "fin"
  <2>1. Goto(t, "slock") \/ Goto(t, "check")
        BY <1>7 DEF LockConn
  <2> QED BY <1>5, <2>1
<1>8. CASE LockPoisoned(t)
  <2>1. Return(t) \/ Goto(t, "take") \/ Goto(t, "slock")
        BY <1>8, Zenon DEF LockPoisoned
  <2> QED BY <1>4, <1>5, <2>1, Zenon
<1>9. CASE CheckOpen(t) /\ op[t] \in {"use", "fetch", "sess"}
  <2>1. Goto(t, "load") \/ Goto(t, "slock")
        BY <1>9, Zenon DEF CheckOpen
  <2> QED BY <1>5, <2>1
<1>10. CASE (CheckOpen(t) /\ op[t] \notin {"use", "fetch", "sess"}) \/ CloseTake(t)
  <2>1. Goto(t, "call") /\ op[t] \notin {"use", "fetch", "sess"} /\ conn
        BY <1>10 DEF CheckOpen, CloseTake
  <2>2. Moves(t) /\ Target(t)' = Db
        BY <1>2, <2>1, GotoMoves DEF Target
  <2>3. db = "open"
        BY <2>1, Zenon DEF IInv, DbInv
  <2> QED BY <1>2, <1>3, <2>2, <2>3, EnterStep, Zenon DEF Contract!Legal
<1>11. CASE CheckClosed(t)
      BY <1>4, <1>11, Zenon DEF CheckClosed
<1> QED BY <1>6, <1>7, <1>8, <1>9, <1>10, <1>11

(* The steps inside the critical section that read or take a pointer. *)
LEMMA PointerRefines ==
    ASSUME IInv, NEW t \in Threads,
           \/ LoadPtr(t) \/ LoadNull(t) \/ FetchTake(t) \/ DeleteTake(t)
           \/ SwapPtr(t) \/ LockSession(t)
    PROVE  [Contract!Next]_Contract!vars
<1> USE LifecycleAssumption
<1>1. pc[t] \in {"load", "take", "swap", "slock"} /\ op[t] # "none"
      BY Zenon DEF LoadPtr, LoadNull, FetchTake, DeleteTake, SwapPtr, LockSession, IInv,
         ControlInv, ConnPhases
<1>2. TypeOK /\ UNCHANGED <<db, obj>>
      BY DEF LoadPtr, LoadNull, FetchTake, DeleteTake, SwapPtr, LockSession, sqliteVars,
         IInv
<1>3. Target(t) = None
      BY <1>1, NoTarget, Zenon
<1>4. CASE Return(t)
      BY <1>2, <1>3, <1>4, ReturnMoves, StutterStep, Zenon
<1>5. ASSUME NEW l \in {"lock", "take", "load"}, Goto(t, l)
      PROVE  UNCHANGED Contract!vars
  <2>1. Moves(t) /\ pc'[t] = l
        BY <1>2, <1>5, GotoMoves, Zenon
  <2>2. Target(t)' = None
        BY <2>1, Zenon DEF Target
  <2> QED BY <1>2, <1>3, <2>1, <2>2, StutterStep, Zenon
<1>6. ASSUME NEW l \in {"call", "free"}, Goto(t, l), pc[t] \in {"load", "take"},
             arg[t] \in Handles, obj[arg[t]] = "live",
             \/ arg[t] \in Raw
             \/ arg[t] \in Sessions /\ db = "open",
             l = "call" => op[t] \in {"use", "fetch", "sess"}
      PROVE  Contract!Next
  <2>1. lock = t
        BY <1>6, Zenon DEF IInv, LockInv
  <2>2. \A u \in Threads : Target(u) = None
        BY <1>1, <1>3, <2>1, LockAlone, Zenon
  <2>3. Moves(t) /\ Target(t)' = arg[t]
        BY <1>2, <1>6, GotoMoves, Zenon DEF Target
  <2>4. arg[t] \in Raw => db # "freed"
        BY <1>6, Zenon DEF IInv, DbInv
  <2>5. Contract!Legal(arg[t])
        BY <1>6, <2>4, Zenon DEF Contract!Legal
  <2> QED BY <1>2, <1>6, <2>2, <2>3, <2>5, EnterStep, Zenon
<1>7. CASE LoadPtr(t)
  <2>1. Goto(t, "call") /\ pc[t] = "load" /\ ptr[arg[t]]
        BY <1>7, Zenon DEF LoadPtr
  <2>2. op[t] \in {"use", "fetch", "sess"} /\ arg[t] \in Handles
        BY <2>1, Zenon DEF IInv, TypeOK, ControlInv, Ops, ConnOps, Handles, Raw, ConnPhases
  <2>3. obj[arg[t]] = "live" /\ db = "open"
        BY <2>1, <2>2, Zenon DEF IInv, ObjInv, DbInv
  <2> QED BY <1>6, <2>1, <2>2, <2>3, Zenon DEF Handles
<1>8. CASE FetchTake(t)
  <2>1. CASE Return(t)
        BY <1>4, <2>1, Zenon
  <2>2. CASE Goto(t, "free") /\ ptr[arg[t]]
    <3>1. pc[t] = "take" /\ arg[t] \in Streams
          BY <1>8, Zenon DEF FetchTake, IInv, ControlInv
    <3>2. arg[t] \in Raw /\ arg[t] \in Handles
          BY <3>1, Zenon DEF Raw, Handles
    <3>3. obj[arg[t]] = "live"
          BY <2>2, <3>2, Zenon DEF IInv, ObjInv
    <3> QED BY <1>6, <2>2, <3>1, <3>2, <3>3, Zenon
  <2> QED BY <1>8, <2>1, <2>2, Zenon DEF FetchTake
<1>9. CASE DeleteTake(t)
  <2>1. CASE Return(t)
        BY <1>4, <2>1
  <2>2. CASE Goto(t, "free") /\ ptr[arg[t]] /\ conn
    <3>1. pc[t] = "take" /\ arg[t] \in Sessions
          BY <1>9, Zenon DEF DeleteTake, IInv, ControlInv
    <3>2. arg[t] \in Handles
          BY <3>1, Zenon DEF Handles
    <3>3. obj[arg[t]] = "live" /\ db = "open"
          BY <2>2, <3>2, Zenon DEF IInv, ObjInv, DbInv
    <3> QED BY <1>6, <2>2, <3>1, <3>2, <3>3, Zenon
  <2> QED BY <1>9, <2>1, <2>2, Zenon DEF DeleteTake
<1>10. CASE LoadNull(t) \/ SwapPtr(t) \/ LockSession(t)
  <2>1. Return(t) \/ Goto(t, "lock") \/ Goto(t, "take") \/ Goto(t, "load")
        BY <1>10, Zenon DEF LoadNull, SwapPtr, LockSession
  <2> QED BY <1>4, <1>5, <2>1, Zenon
<1> QED BY <1>7, <1>8, <1>9, <1>10, Zenon

(* The steps at the end of a call of SQLite. *)
LEMMA LeaveRefines ==
    ASSUME IInv, NEW t \in Threads,
           \/ EndCall(t) \/ StmtPrepare(t) \/ StreamOpen(t) \/ BlobOpen(t) \/ SessionNew(t)
           \/ FetchRow(t) \/ FetchEnd(t) \/ Freed(t) \/ CloseEnd(t) \/ Panic(t)
    PROVE  Contract!Next
<1> USE LifecycleAssumption
<1>1. pc[t] = "call" \/ (pc[t] = "free" /\ Freed(t))
      BY DEF EndCall, StmtPrepare, StreamOpen, BlobOpen, SessionNew, Opened, FetchRow,
         FetchEnd, Freed, CloseEnd, Panic
<1>2. TypeOK
      BY Zenon DEF IInv
<1>3. Target(t) \in Handles \cup {Db}
  <2>1. CASE pc[t] = "free"
    <3>1. op[t] \in {"fetch", "fin", "del"}
          BY <2>1, <1>2, Zenon DEF IInv, TypeOK, ControlInv, Ops, ConnOps, ConnPhases
    <3> QED BY <2>1, <3>1, ZenonT(30) DEF IInv, ControlInv, Target, Handles, Raw
  <2>2. CASE pc[t] = "call" /\ op[t] \in {"use", "fetch", "sess"}
        BY <2>2 DEF IInv, ControlInv, Target, Handles, Raw
  <2>3. CASE pc[t] = "call" /\ op[t] \notin {"use", "fetch", "sess"}
        BY <2>3 DEF Target
  <2> QED BY <1>1, <2>1, <2>2, <2>3, Zenon
<1>4. Target(t) # None
      BY <1>3, Zenon
<1>5. CASE EndCall(t)
  <2>1. Return(t) /\ UNCHANGED <<db, obj>>
        BY <1>5, Zenon DEF EndCall, sqliteVars
  <2> QED BY <1>2, <1>4, <2>1, ReturnMoves, LeaveStep, Zenon
<1>6. CASE FetchRow(t) \/ FetchEnd(t)
  <2>1. Moves(t) /\ pc'[t] \in {"load", "take"} /\ UNCHANGED <<db, obj>>
        BY <1>2, <1>6 DEF FetchRow, FetchEnd, Goto, Moves, sqliteVars, TypeOK
  <2>2. Target(t)' = None
        BY <2>1, Zenon DEF Target
  <2> QED BY <1>4, <2>1, <2>2, LeaveStep, Zenon
<1>7. CASE Freed(t)
  <2>1. Target(t) = arg[t] /\ Return(t) /\ UNCHANGED db
        /\ obj' = [obj EXCEPT ![arg[t]] = "dead"]
        BY <1>7 DEF Freed, Target
  <2>2. Target(t) \in Handles
        BY <1>2, <1>3, <1>4, <2>1 DEF TypeOK
  <2> QED BY <1>2, <1>4, <2>1, <2>2, ReturnMoves, LeaveStep, Zenon
<1>8. CASE CloseEnd(t)
  <2>1. Target(t) = Db /\ Return(t) /\ UNCHANGED obj /\ db' = AfterClose
        BY <1>8 DEF CloseEnd, Target
  <2> QED BY <1>2, <1>4, <2>1, ReturnMoves, LeaveStep
<1>9. CASE StmtPrepare(t) \/ StreamOpen(t) \/ BlobOpen(t) \/ SessionNew(t) \/ Panic(t)
  <2>1. Return(t) /\ UNCHANGED db
        BY <1>9, Zenon DEF StmtPrepare, StreamOpen, BlobOpen, SessionNew, Opened, Panic
  <2>2. \/ UNCHANGED obj
        \/ /\ Target(t) = Db
           /\ \E h \in Handles : obj[h] = "none" /\ obj' = [obj EXCEPT ![h] = "live"]
    <3>1. \/ UNCHANGED obj
          \/ /\ op[t] \in OpenOps /\ pc[t] = "call"
             /\ \E h \in Handles : Born(t, h) \/ Orphan(h)
          BY <1>9, Zenon DEF StmtPrepare, StreamOpen, BlobOpen, SessionNew, Opened, Panic,
             NotOpened, BornEmpty, OpenOps, Handles, Raw
    <3>2. op[t] \in OpenOps /\ pc[t] = "call" => Target(t) = Db
          BY Zenon DEF Target, OpenOps
    <3>3. \A h \in Handles : Born(t, h) \/ Orphan(h) =>
              obj[h] = "none" /\ obj' = [obj EXCEPT ![h] = "live"]
          BY Zenon DEF IInv, ObjInv, Born, Orphan
    <3> QED BY <3>1, <3>2, <3>3, Zenon
  <2> QED BY <1>2, <1>4, <2>1, <2>2, ReturnMoves, LeaveStep
<1> QED BY <1>5, <1>6, <1>7, <1>8, <1>9, ZenonT(30)

(* The connection's destructor. *)
LEMMA DestructorRefines ==
    ASSUME IInv, NEW t \in Threads, ConnDrop(t) \/ ConnDropClose(t) \/ ConnFree(t)
    PROVE  [Contract!Next]_Contract!vars
<1> USE LifecycleAssumption
<1>1. TypeOK /\ pc[t] \in ConnPhases
      BY Zenon DEF IInv, ConnDrop, ConnDropClose, ConnFree, ConnPhases
<1>2. CASE ConnDrop(t) /\ conn
  <2>1. Goto(t, "cclose") /\ UNCHANGED <<db, obj>> /\ pc[t] = "cdrop"
        BY <1>2 DEF ConnDrop, sqliteVars
  <2>2. Moves(t) /\ Target(t)' = Db
        BY <1>1, <2>1, GotoMoves DEF Target
  <2>3. ASSUME NEW u \in Threads PROVE Target(u) = None
    <3>1. CASE u = t
          BY <2>1, <3>1, NoTarget, Zenon
    <3>2. CASE u # t
      <4>1. op[u] = "none" /\ pc[u] \notin ConnPhases
            BY <1>1, <3>2, DestructorAlone, Zenon DEF IInv, ConnInv
      <4>2. pc[u] \in {"idle", "release"}
            BY <4>1, Zenon DEF IInv, ControlInv
      <4> QED BY <4>2, NoTarget, Zenon
    <3> QED BY <3>1, <3>2, Zenon
  <2>4. db = "open"
        BY <1>2, Zenon DEF IInv, DbInv
  <2> QED BY <2>1, <2>2, <2>3, <2>4, EnterStep, Zenon DEF Contract!Legal
<1>3. CASE (ConnDrop(t) /\ ~conn) \/ ConnFree(t)
  <2>1. /\ Goto(t, "cfree") \/ Goto(t, "idle")
        /\ UNCHANGED <<db, obj>> /\ pc[t] \in {"cdrop", "cfree"}
        BY <1>3, Zenon DEF ConnDrop, ConnFree, sqliteVars
  <2>2. Moves(t) /\ pc'[t] \in {"cfree", "idle"}
        BY <1>1, <2>1, GotoMoves, Zenon
  <2>3. Target(t) = None /\ Target(t)' = None
        BY <2>1, <2>2, Zenon DEF Target
  <2> QED BY <2>1, <2>2, <2>3, StutterStep, Zenon
<1>4. CASE ConnDropClose(t)
  <2>1. Goto(t, "cfree") /\ pc[t] = "cclose" /\ db' = AfterClose /\ UNCHANGED obj
        BY <1>4 DEF ConnDropClose
  <2>2. Moves(t) /\ Target(t) = Db /\ Target(t)' = None
        BY <1>1, <2>1, GotoMoves DEF Target
  <2> QED BY <2>1, <2>2, LeaveStep, Zenon
<1> QED BY <1>2, <1>3, <1>4, Zenon

(* The steps that never touch SQLite: a call begins, a reference is passed *)
(* on, dropped or released.                                                *)
LEMMA OutsideRefines ==
    ASSUME IInv, NEW t \in Threads,
           \/ Call(t) \/ Drop(t) \/ ReleaseRef(t)
           \/ \E u \in Threads : Share(t, u)
    PROVE  UNCHANGED Contract!vars
<1>1. TypeOK
      BY Zenon DEF IInv
<1>2. UNCHANGED <<db, obj>>
      BY Zenon DEF Call, CallQuery, CallOpen, CallClose, CallUse, CallFetch, CallFinalize,
         CallSession, CallDelete, Drop, DropConnRef, DropRef, ReleaseRef, Share, sqliteVars
<1>3. CASE Call(t)
  <2>1. Enters(t)
        BY <1>1, <1>3, CallShape, Zenon
  <2>2. Moves(t) /\ pc[t] = "idle" /\ pc'[t] \in {"lock", "swap"}
        BY <1>1, <2>1 DEF Enters, Moves, TypeOK
  <2>3. Target(t) = None /\ Target(t)' = None
        BY <2>2, Zenon DEF Target
  <2> QED BY <1>2, <2>2, <2>3, StutterStep, Zenon
<1>4. CASE Drop(t) \/ ReleaseRef(t)
  <2>1. /\ Moves(t) /\ pc[t] \in {"idle", "release"}
        /\ pc'[t] \in {"idle", "lock", "swap", "cdrop"}
        BY <1>1, <1>4 DEF Drop, DropConnRef, DropRef, ReleaseRef, Begin, Goto, Moves,
           threadVars, TypeOK
  <2>2. Target(t) = None /\ Target(t)' = None
        BY <2>1, Zenon DEF Target
  <2> QED BY <1>2, <2>1, <2>2, StutterStep, Zenon
<1>5. CASE \E u \in Threads : Share(t, u)
  <2>1. Moves(t) /\ Target(t)' = Target(t)
        BY <1>5 DEF Share, threadVars, Moves, Target
  <2> QED BY <1>2, <2>1, StutterStep, Zenon
<1> QED BY <1>3, <1>4, <1>5

(* Every step of the library is a step SQLite allows, or does not concern  *)
(* it.                                                                     *)
LEMMA StepRefines ==
    ASSUME IInv
    PROVE  [Next]_vars => [Contract!Next]_Contract!vars
<1>1. CASE UNCHANGED vars
  <2>1. UNCHANGED <<db, obj, pc, op, arg>>
        BY <1>1 DEF vars, sqliteVars, threadVars
  <2>2. UNCHANGED Tgt
        BY <2>1, Zenon DEF Tgt, Target
  <2> QED BY <2>1, <2>2 DEF Contract!vars, Tgt
<1>2. CASE Next
      BY <1>2, CheckRefines, PointerRefines, LeaveRefines, DestructorRefines,
         OutsideRefines, Zenon DEF Next, Step
<1> QED BY <1>1, <1>2

-----------------------------------------------------------------------------
(* The invariant holds in every reachable state. *)
THEOREM Invariant == Spec => []IInv
<1> QED BY IInvInit, IInvStep, PTL DEF Spec

(* Whatever processes do with the handles and whatever the garbage         *)
(* collector does, the library only makes calls that SQLite allows         *)
(* (with_conn, with_live_stmt, with_live_blob, with_session,               *)
(* take_and_finalize_raw, blob::close, session::close, stream_fetch,       *)
(* close_connection and the Drop impls).                                   *)
THEOREM CallsLegal == Spec => SqliteCallsLegal
<1>1. Init => Contract!Init
  <2>1. Init => Tgt = [t \in Threads |-> None]
        BY DEF Init, Tgt, Target
  <2>2. Handles = Contract!Objects
        BY DEF Handles, Contract!Objects
  <2> QED BY <2>1, <2>2 DEF Init, Contract!Init, Tgt
<1>2. IInv /\ [Next]_vars => [Contract!Next]_Contract!vars
      BY StepRefines, Zenon
<1> QED BY <1>1, <1>2, Invariant, PTL DEF Spec, SqliteCallsLegal, Contract!Spec

(* When the connection's destructor has started, no resource on it is left *)
(* and no pointer to finalize.                                             *)
LEMMA NothingHeld ==
    ASSUME IInv, connRes # "alive" \/ \E t \in Threads : pc[t] \in ConnPhases
    PROVE  /\ connRefs = {}
           /\ \A h \in Handles : ~ptr[h]
           /\ \A u \in Threads : arg[u] = None
<1>1. connRefs = {} /\ \A h \in Handles : ~Holds(h)
      BY Zenon DEF IInv, ConnInv
<1>2. \A h \in Handles : ~ptr[h]
      BY <1>1, Zenon DEF IInv, ObjInv
<1>3. ASSUME NEW u \in Threads PROVE arg[u] = None
      BY <1>1 DEF IInv, TypeOK, RefInv, Holds
<1> QED BY <1>1, <1>2, <1>3, Zenon

(* While a thread is inside SQLite the callbacks' state is alive. *)
LEMMA CallbacksFromInv ==
    ASSUME IInv
    PROVE  CallbackStateAlive
<1> SUFFICES ASSUME NEW t \in Threads, InSqlite(t), connRes = "gone"
             PROVE  FALSE
      BY Zenon DEF CallbackStateAlive
<1>1. CASE pc[t] = "cclose"
      BY <1>1, Zenon DEF IInv, ConnInv, ConnPhases
<1>2. CASE pc[t] \in {"call", "free"}
  <2>1. connRefs = {} /\ arg[t] = None
        BY NothingHeld, Zenon
  <2>2. op[t] # "none"
        BY <1>2, Zenon DEF IInv, ControlInv, ConnPhases
  <2>3. op[t] \in ConnOps
        BY <2>1, <2>2, LifecycleAssumption, Zenon
        DEF IInv, TypeOK, ControlInv, Ops, ConnOps, Handles, Raw
  <2> QED BY <2>1, <2>3, Zenon DEF IInv, RefInv
<1> QED BY <1>1, <1>2, Zenon DEF InSqlite

(* The safety properties of the lifecycle: no live SQLite object is lost   *)
(* without a panic, an orphan or a session that outlives its connection;   *)
(* no NIF body runs in SQLite after a close or a panic; and SQLite's       *)
(* callbacks never see dropped hook state (take_and_finalize_raw,          *)
(* stream_fetch, session::close, with_conn, XqliteConn's field order).     *)
THEOREM LifecycleSafe ==
    Spec => [](TypeOK /\ NothingLostSilently /\ QuietAfterCloseOrPoison /\ CallbackStateAlive)
<1>1. IInv =>
        TypeOK /\ NothingLostSilently /\ QuietAfterCloseOrPoison /\ CallbackStateAlive
      BY CallbacksFromInv DEF IInv
<1> QED BY <1>1, Invariant, PTL

(* A connection that is only garbage collected is really freed: its        *)
(* destructor finds nothing outstanding, unless a panic or an orphan left  *)
(* something behind (the conn_resource_arc of every child resource).       *)
THEOREM CollectionFrees == Spec => CollectionFreesConnection
<1>1. IInv => \A t \in Threads : ConnDropClose(t) =>
        db' = "freed" \/ poisoned \/ \E h \in Raw : res[h] = "orphan"
  <2> SUFFICES ASSUME IInv, NEW t \in Threads, ConnDropClose(t), db' # "freed", ~poisoned
               PROVE  \E h \in Raw : res[h] = "orphan"
        OBVIOUS
  <2>1. PICK h \in Raw : obj[h] = "live"
        BY Zenon DEF ConnDropClose, AfterClose
  <2>2. h \in Handles /\ h \notin Sessions /\ h # None
        BY LifecycleAssumption, Zenon DEF Handles
  <2>3. ~ptr[h] /\ \A u \in Threads : arg[u] = None
        BY <2>2, NothingHeld, Zenon DEF ConnDropClose, ConnPhases
  <2>4. \A u \in Threads : ~Owns(u, h)
        BY <2>2, <2>3, Zenon DEF Owns
  <2>5. res[h] = "orphan"
        BY <2>1, <2>2, <2>3, <2>4, Zenon DEF IInv, NothingLostSilently
  <2> QED BY <2>5
<1>2. IInv => [\A t \in Threads : ConnDropClose(t) =>
                 \/ db' = "freed"
                 \/ poisoned
                 \/ \E h \in Raw : res[h] = "orphan"]_vars
      BY <1>1
<1> QED BY <1>2, Invariant, PTL DEF CollectionFreesConnection
=============================================================================
