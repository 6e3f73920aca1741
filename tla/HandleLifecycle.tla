-------------------------- MODULE HandleLifecycle --------------------------
(***************************************************************************)
(* The lifecycle of one connection resource and of the statements,         *)
(* streams, blobs and sessions opened on it, as the NIF library runs it:   *)
(* every BEAM process that calls a NIF is a thread, a call is a sequence   *)
(* of steps on shared memory, and a resource's destructor runs on the      *)
(* thread that drops the last reference to it.                             *)
(*                                                                         *)
(* One step is one access to shared memory: a mutex operation, an atomic   *)
(* load or swap of a raw pointer, or the begin or the end of the time a    *)
(* thread spends inside SQLite.  Nothing in an action forbids an illegal   *)
(* call of SQLite: that the calls are legal is what SqliteCallsLegal       *)
(* claims.                                                                 *)
(***************************************************************************)
EXTENDS Integers

CONSTANTS
    Threads,   \* BEAM processes that share the connection
    Stmts,     \* XqliteStatement resources that may be created
    Streams,   \* XqliteStream resources
    Blobs,     \* XqliteBlob resources
    Sessions,  \* XqliteSession resources
    MaxBatch,  \* the largest batch_size passed to stream_fetch
    Db,        \* names the connection as the target of an SQLite call
    None       \* no thread, no handle, no target

Raw == Stmts \cup Streams \cup Blobs   \* resources around an AtomicPtr
Handles == Raw \cup Sessions

ASSUME LifecycleAssumption ==
    /\ Raw \cap Sessions = {}
    /\ Streams \cap (Stmts \cup Blobs) = {}
    /\ Stmts \cap Blobs = {}
    /\ MaxBatch \in Nat \ {0}
    /\ Db \notin Handles
    /\ None \notin Threads \cup Handles \cup {Db}

VARIABLES
    lock,      \* holder of XqliteConn.conn's mutex, or None
    poisoned,  \* a thread panicked while it held that mutex
    conn,      \* the Option<Connection> inside it is Some
    db,        \* SQLite's connection object: "open", "zombie", "freed"
    obj,       \* SQLite's object behind each handle: "none", "live", "dead"
    ptr,       \* the handle's AtomicPtr is non-null, or its session is Some
    slock,     \* holder of each XqliteSession.session mutex, or None
    res,       \* each resource: "unborn", "alive", "dropping", "gone", "orphan"
    refs,      \* the processes that hold a reference to each resource
    connRefs,  \* the processes that hold a reference to the connection
    connRes,   \* the XqliteConn resource: "alive", "dropping", "gone"
    pc,        \* where each thread is in its NIF call or destructor
    op,        \* which operation that is
    arg,       \* the handle it works on, or None
    left       \* rows a stream_fetch may still read

lockVars   == <<lock, poisoned, slock>>
sqliteVars == <<conn, db, obj, ptr>>
beamVars   == <<res, refs, connRefs, connRes>>
threadVars == <<pc, op, arg, left>>
vars == <<lockVars, sqliteVars, beamVars, threadVars>>

(* Operations on the connection itself, and the four that create a handle. *)
OpenOps == {"prepare", "stream_open", "blob_open", "session_new"}
Ops == OpenOps \cup
       {"none", "query", "close", "use", "fetch", "fin", "sess", "del"}
Pcs == {"idle", "swap", "lock", "check", "slock", "load", "call", "take",
        "free", "release", "cdrop", "cclose", "cfree"}

(* One type invariant: every variable holds a value of its Rust or SQLite  *)
(* counterpart.                                                            *)
TypeOK ==
    /\ lock \in Threads \cup {None}
    /\ poisoned \in BOOLEAN
    /\ conn \in BOOLEAN
    /\ db \in {"open", "zombie", "freed"}
    /\ obj \in [Handles -> {"none", "live", "dead"}]
    /\ ptr \in [Handles -> BOOLEAN]
    /\ slock \in [Sessions -> Threads \cup {None}]
    /\ res \in [Handles -> {"unborn", "alive", "dropping", "gone", "orphan"}]
    /\ refs \in [Handles -> SUBSET Threads]
    /\ connRefs \in SUBSET Threads
    /\ connRes \in {"alive", "dropping", "gone"}
    /\ pc \in [Threads -> Pcs]
    /\ op \in [Threads -> Ops]
    /\ arg \in [Threads -> Handles \cup {None}]
    /\ left \in [Threads -> 0..MaxBatch]

Init ==
    /\ lock = None
    /\ poisoned = FALSE
    /\ conn = TRUE
    /\ db = "open"
    /\ obj = [h \in Handles |-> "none"]
    /\ ptr = [h \in Handles |-> FALSE]
    /\ slock = [s \in Sessions |-> None]
    /\ res = [h \in Handles |-> "unborn"]
    /\ refs = [h \in Handles |-> {}]
    /\ connRefs = Threads
    /\ connRes = "alive"
    /\ pc = [t \in Threads |-> "idle"]
    /\ op = [t \in Threads |-> "none"]
    /\ arg = [t \in Threads |-> None]
    /\ left = [t \in Threads |-> 0]

-----------------------------------------------------------------------------
(* Control flow of a thread.                                               *)

Begin(t, o, h, l) ==
    /\ pc[t] = "idle"
    /\ pc' = [pc EXCEPT ![t] = l]
    /\ op' = [op EXCEPT ![t] = o]
    /\ arg' = [arg EXCEPT ![t] = h]
    /\ UNCHANGED left

Goto(t, l) ==
    /\ pc' = [pc EXCEPT ![t] = l]
    /\ UNCHANGED <<op, arg, left>>

(* Back to the caller; a destructor goes on to release the resource's      *)
(* fields, its reference to the connection among them.                     *)
Dropping(t) == arg[t] # None /\ res[arg[t]] = "dropping"

Return(t) ==
    /\ pc' = [pc EXCEPT ![t] = IF Dropping(t) THEN "release" ELSE "idle"]
    /\ op' = [op EXCEPT ![t] = "none"]
    /\ arg' = [arg EXCEPT ![t] = IF Dropping(t) THEN @ ELSE None]
    /\ left' = [left EXCEPT ![t] = 0]

(* Mutant: the session guard is forgotten instead of dropped. *)
Unlock_keepsSession(t) ==
    /\ lock' = None
    /\ UNCHANGED <<slock, poisoned>>

(* Both guards go out of scope at the end of the body. *)
Unlock(t) ==
    /\ lock' = None
    /\ slock' = [s \in Sessions |-> IF slock[s] = t THEN None ELSE slock[s]]
    /\ UNCHANGED poisoned

-----------------------------------------------------------------------------
(* Entry of the NIFs: a process may call one with a handle it references.  *)

(* Any NIF that runs its body under with_conn: query, execute, pragma,     *)
(* transaction, schema, hook, backup and changeset NIFs.                   *)
CallQuery(t) ==
    /\ t \in connRefs
    /\ Begin(t, "query", None, "lock")
    /\ UNCHANGED <<lockVars, sqliteVars, beamVars>>

CallOpen(t) ==
    /\ t \in connRefs
    /\ \E o \in OpenOps : Begin(t, o, None, "lock")
    /\ UNCHANGED <<lockVars, sqliteVars, beamVars>>

CallClose(t) ==
    /\ t \in connRefs
    /\ Begin(t, "close", None, "lock")
    /\ UNCHANGED <<lockVars, sqliteVars, beamVars>>

(* stmt_bind, step, multi_step, reset, clear_bindings and column_names     *)
(* through with_live_stmt; blob read, write, size and reopen through       *)
(* with_live_blob.                                                         *)
CallUse(t, h) ==
    /\ h \in Stmts \cup Blobs /\ t \in refs[h]
    /\ Begin(t, "use", h, "lock")
    /\ UNCHANGED <<lockVars, sqliteVars, beamVars>>

(* stream_fetch looks at the pointer before it locks; null means :done. *)
CallFetch(t, h) ==
    /\ h \in Streams /\ t \in refs[h]
    /\ ptr[h]
    /\ pc[t] = "idle"
    /\ pc' = [pc EXCEPT ![t] = "lock"]
    /\ op' = [op EXCEPT ![t] = "fetch"]
    /\ arg' = [arg EXCEPT ![t] = h]
    /\ \E n \in 1..MaxBatch : left' = [left EXCEPT ![t] = n]
    /\ UNCHANGED <<lockVars, sqliteVars, beamVars>>

(* stmt_finalize, stream_close and blob_close. *)
CallFinalize(t, h) ==
    /\ h \in Raw /\ t \in refs[h]
    /\ Begin(t, "fin", h, "swap")
    /\ UNCHANGED <<lockVars, sqliteVars, beamVars>>

(* session_attach, changeset, patchset and is_empty. *)
CallSession(t, h) ==
    /\ h \in Sessions /\ t \in refs[h]
    /\ Begin(t, "sess", h, "lock")
    /\ UNCHANGED <<lockVars, sqliteVars, beamVars>>

CallDelete(t, h) ==
    /\ h \in Sessions /\ t \in refs[h]
    /\ Begin(t, "del", h, "lock")
    /\ UNCHANGED <<lockVars, sqliteVars, beamVars>>

-----------------------------------------------------------------------------
(* The connection mutex.  A lock of a poisoned mutex is still acquired:    *)
(* most callers turn the error into LockError and drop the guard at once,  *)
(* stream_fetch finalizes its statement and session::close tears its       *)
(* session down while the guard inside the error is alive.                 *)

LockConn(t) ==
    /\ pc[t] = "lock" /\ lock = None /\ ~poisoned
    /\ lock' = t
    /\ Goto(t, CASE op[t] = "fin" -> "free"
                 [] op[t] = "del" -> "slock"
                 [] OTHER -> "check")
    /\ UNCHANGED <<poisoned, slock, sqliteVars, beamVars>>

(* Mutant: every caller goes on with the guard of a poisoned mutex. *)
LockPoisoned_ignored(t) ==
    /\ pc[t] = "lock" /\ lock = None /\ poisoned
    /\ lock' = t
    /\ Goto(t, CASE op[t] = "fin" -> "free"
                 [] op[t] = "del" -> "slock"
                 [] OTHER -> "check")
    /\ UNCHANGED <<poisoned, slock, sqliteVars, beamVars>>

LockPoisoned(t) ==
    /\ pc[t] = "lock" /\ lock = None /\ poisoned
    /\ \/ /\ op[t] \in {"fetch", "del"}
          /\ lock' = t
          /\ Goto(t, IF op[t] = "fetch" THEN "take" ELSE "slock")
       \/ /\ op[t] \notin {"fetch", "del"}
          /\ Return(t)
          /\ UNCHANGED lock
    /\ UNCHANGED <<poisoned, slock, sqliteVars, beamVars>>

(* Mutant: the body runs without looking at the Option. *)
CheckOpen_unchecked(t) ==
    /\ pc[t] = "check" /\ op[t] # "close"
    /\ Goto(t, CASE op[t] \in {"use", "fetch"} -> "load"
                 [] op[t] = "sess" -> "slock"
                 [] OTHER -> "call")
    /\ UNCHANGED <<lockVars, sqliteVars, beamVars>>

(* The Option<Connection> must be Some. *)
CheckOpen(t) ==
    /\ pc[t] = "check" /\ conn /\ op[t] # "close"
    /\ Goto(t, CASE op[t] \in {"use", "fetch"} -> "load"
                 [] op[t] = "sess" -> "slock"
                 [] OTHER -> "call")
    /\ UNCHANGED <<lockVars, sqliteVars, beamVars>>

CheckClosed(t) ==
    /\ pc[t] = "check" /\ ~conn
    /\ Unlock(t) /\ Return(t)
    /\ UNCHANGED <<sqliteVars, beamVars>>

(* close_connection takes the Connection out of the Option; dropping it    *)
(* calls sqlite3_close.                                                    *)
CloseTake(t) ==
    /\ pc[t] = "check" /\ conn /\ op[t] = "close"
    /\ conn' = FALSE
    /\ Goto(t, "call")
    /\ UNCHANGED <<lockVars, db, obj, ptr, beamVars>>

-----------------------------------------------------------------------------
(* Inside the critical section. *)

(* Mutants: the pointer seen before the lock was taken is used; the batch  *)
(* is read one row too far.                                                *)
LoadPtr_stale(t) ==
    /\ pc[t] = "load"
    /\ op[t] = "fetch" => left[t] > 0
    /\ Goto(t, "call")
    /\ UNCHANGED <<lockVars, sqliteVars, beamVars>>

LoadPtr_overrun(t) ==
    /\ pc[t] = "load"
    /\ ptr[arg[t]]
    /\ Goto(t, "call")
    /\ UNCHANGED <<lockVars, sqliteVars, beamVars>>

(* The pointer is read again once the lock is held. *)
LoadPtr(t) ==
    /\ pc[t] = "load"
    /\ ptr[arg[t]]
    /\ op[t] = "fetch" => left[t] > 0
    /\ Goto(t, "call")
    /\ UNCHANGED <<lockVars, sqliteVars, beamVars>>

LoadNull(t) ==
    /\ pc[t] = "load"
    /\ ~ptr[arg[t]] \/ (op[t] = "fetch" /\ left[t] = 0)
    /\ Unlock(t) /\ Return(t)
    /\ UNCHANGED <<sqliteVars, beamVars>>

(* The body of a with_conn, with_live_stmt, with_live_blob or with_session *)
(* NIF ends, well or with an SQLite error.                                 *)
EndCall(t) ==
    /\ pc[t] = "call" /\ op[t] \in {"query", "use", "sess"}
    /\ Unlock(t) /\ Return(t)
    /\ UNCHANGED <<sqliteVars, beamVars>>

(* A resource around a fresh SQLite object, referenced by its creator. *)
Born(t, h) ==
    /\ res[h] = "unborn"
    /\ obj' = [obj EXCEPT ![h] = "live"]
    /\ ptr' = [ptr EXCEPT ![h] = TRUE]
    /\ res' = [res EXCEPT ![h] = "alive"]
    /\ refs' = [refs EXCEPT ![h] = {t}]

(* A stream resource around a null pointer. *)
BornEmpty(t, h) ==
    /\ res[h] = "unborn"
    /\ res' = [res EXCEPT ![h] = "alive"]
    /\ refs' = [refs EXCEPT ![h] = {t}]
    /\ UNCHANGED <<obj, ptr>>

(* An SQLite object that no resource was built around. *)
Orphan(h) ==
    /\ res[h] = "unborn"
    /\ obj' = [obj EXCEPT ![h] = "live"]
    /\ res' = [res EXCEPT ![h] = "orphan"]
    /\ UNCHANGED <<ptr, refs>>

(* The opening NIF failed before SQLite created an object, or finalized    *)
(* the object before it returned the error.                                *)
NotOpened == UNCHANGED <<obj, ptr, res, refs>>

Opened(t, o) ==
    /\ pc[t] = "call" /\ op[t] = o
    /\ Unlock(t) /\ Return(t)
    /\ UNCHANGED <<conn, db, connRefs, connRes>>

StmtPrepare(t) ==
    /\ Opened(t, "prepare")
    /\ NotOpened \/ \E h \in Stmts : Born(t, h)

(* A stream over SQL without a statement has a null pointer from the       *)
(* start; parameters that do not decode return before the statement is     *)
(* finalized.                                                              *)
StreamOpen(t) ==
    /\ Opened(t, "stream_open")
    /\ \/ NotOpened
       \/ \E h \in Streams : Born(t, h) \/ BornEmpty(t, h) \/ Orphan(h)

BlobOpen(t) ==
    /\ Opened(t, "blob_open")
    /\ NotOpened \/ \E h \in Blobs : Born(t, h)

SessionNew(t) ==
    /\ Opened(t, "session_new")
    /\ NotOpened \/ \E h \in Sessions : Born(t, h)

(* sqlite3_step inside stream_fetch: a row, or the end or an error. *)
FetchRow(t) ==
    /\ pc[t] = "call" /\ op[t] = "fetch"
    /\ pc' = [pc EXCEPT ![t] = "load"]
    /\ left' = [left EXCEPT ![t] = @ - 1]
    /\ UNCHANGED <<op, arg, lockVars, sqliteVars, beamVars>>

FetchEnd(t) ==
    /\ pc[t] = "call" /\ op[t] = "fetch"
    /\ Goto(t, "take")
    /\ UNCHANGED <<lockVars, sqliteVars, beamVars>>

(* Mutant: an exhausted stream drops its pointer without finalizing. *)
FetchTake_forgets(t) ==
    /\ pc[t] = "take" /\ op[t] = "fetch"
    /\ ptr' = [ptr EXCEPT ![arg[t]] = FALSE]
    /\ Unlock(t) /\ Return(t)
    /\ UNCHANGED <<conn, db, obj, beamVars>>

(* stream_fetch takes the pointer out, under the lock, to finalize it. *)
FetchTake(t) ==
    /\ pc[t] = "take" /\ op[t] = "fetch"
    /\ \/ /\ ptr[arg[t]]
          /\ ptr' = [ptr EXCEPT ![arg[t]] = FALSE]
          /\ Goto(t, "free")
          /\ UNCHANGED lockVars
       \/ /\ ~ptr[arg[t]]
          /\ Unlock(t) /\ Return(t)
          /\ UNCHANGED ptr
    /\ UNCHANGED <<conn, db, obj, beamVars>>

(* Mutant: the pointer that was swapped out is not finalized. *)
SwapPtr_forgets(t) ==
    /\ pc[t] = "swap"
    /\ Return(t)
    /\ ptr' = [ptr EXCEPT ![arg[t]] = FALSE]
    /\ UNCHANGED <<lockVars, conn, db, obj, beamVars>>

(* take_and_finalize_raw and blob::close swap the pointer out before they  *)
(* lock; a null pointer means that someone else finalizes it.              *)
SwapPtr(t) ==
    /\ pc[t] = "swap"
    /\ IF ptr[arg[t]] THEN Goto(t, "lock") ELSE Return(t)
    /\ ptr' = [ptr EXCEPT ![arg[t]] = FALSE]
    /\ UNCHANGED <<lockVars, conn, db, obj, beamVars>>

(* The per-session mutex, always taken under the connection mutex. *)
LockSession(t) ==
    /\ pc[t] = "slock" /\ slock[arg[t]] = None
    /\ slock' = [slock EXCEPT ![arg[t]] = t]
    /\ Goto(t, IF op[t] = "del" THEN "take" ELSE "load")
    /\ UNCHANGED <<lock, poisoned, sqliteVars, beamVars>>

(* Mutant: the session is deleted although the connection was closed. *)
DeleteTake_afterClose(t) ==
    /\ pc[t] = "take" /\ op[t] = "del"
    /\ IF ptr[arg[t]] /\ ~poisoned
          THEN Goto(t, "free") /\ UNCHANGED lockVars
          ELSE Unlock(t) /\ Return(t)
    /\ ptr' = [ptr EXCEPT ![arg[t]] = FALSE]
    /\ UNCHANGED <<conn, db, obj, beamVars>>

(* session::close takes the session; it deletes it if the connection is    *)
(* open and not poisoned, and forgets it otherwise.                        *)
DeleteTake(t) ==
    /\ pc[t] = "take" /\ op[t] = "del"
    /\ IF ptr[arg[t]] /\ conn /\ ~poisoned
          THEN Goto(t, "free") /\ UNCHANGED lockVars
          ELSE Unlock(t) /\ Return(t)
    /\ ptr' = [ptr EXCEPT ![arg[t]] = FALSE]
    /\ UNCHANGED <<conn, db, obj, beamVars>>

(* sqlite3_finalize, sqlite3_blob_close or sqlite3session_delete returns. *)
Freed(t) ==
    /\ pc[t] = "free"
    /\ obj' = [obj EXCEPT ![arg[t]] = "dead"]
    /\ Unlock(t) /\ Return(t)
    /\ UNCHANGED <<conn, db, ptr, beamVars>>

(* sqlite3_close frees the connection, or refuses while statements or      *)
(* blobs are outstanding; rusqlite's drop ignores the refusal.             *)
AfterClose == IF \E h \in Raw : obj[h] = "live" THEN "zombie" ELSE "freed"

CloseEnd(t) ==
    /\ pc[t] = "call" /\ op[t] = "close"
    /\ db' = AfterClose
    /\ Unlock(t) /\ Return(t)
    /\ UNCHANGED <<conn, obj, ptr, beamVars>>

(* A panic in a NIF body: unwinding drops the guards and poisons the       *)
(* mutex, rustler turns the panic into an exception.  A raw pointer that   *)
(* no resource owns yet is lost.                                           *)
Panic(t) ==
    /\ pc[t] = "call" /\ op[t] # "close"
    /\ poisoned' = TRUE
    /\ lock' = None
    /\ slock' = [s \in Sessions |-> IF slock[s] = t THEN None ELSE slock[s]]
    /\ Return(t)
    /\ \/ NotOpened
       \/ op[t] = "prepare" /\ \E h \in Stmts : Orphan(h)
       \/ op[t] = "stream_open" /\ \E h \in Streams : Orphan(h)
       \/ op[t] = "blob_open" /\ \E h \in Blobs : Orphan(h)
    /\ UNCHANGED <<conn, db, connRefs, connRes>>

-----------------------------------------------------------------------------
(* References and destructors. *)

(* A process sends a handle to another one. *)
Share(t, u) ==
    /\ pc[t] = "idle"
    /\ \/ /\ t \in connRefs
          /\ connRefs' = connRefs \cup {u}
          /\ UNCHANGED refs
       \/ \E h \in Handles :
            /\ t \in refs[h]
            /\ refs' = [refs EXCEPT ![h] = @ \cup {u}]
            /\ UNCHANGED connRefs
    /\ UNCHANGED <<lockVars, sqliteVars, res, connRes, threadVars>>

(* Garbage collection or exit of a process: the last reference runs the    *)
(* destructor, which is the code of the explicit close.                    *)
DropRef(t, h) ==
    /\ pc[t] = "idle" /\ t \in refs[h]
    /\ refs' = [refs EXCEPT ![h] = @ \ {t}]
    /\ IF refs[h] = {t}
         THEN /\ res' = [res EXCEPT ![h] = "dropping"]
              /\ IF h \in Raw THEN Begin(t, "fin", h, "swap")
                              ELSE Begin(t, "del", h, "lock")
         ELSE UNCHANGED <<res, threadVars>>
    /\ UNCHANGED <<lockVars, sqliteVars, connRefs, connRes>>

(* Mutant: the reference is released before the destructor's body runs. *)
Holds_untilDrop(h) == res[h] = "alive"

(* Every resource built on the connection holds a reference to it. *)
Holds(h) == res[h] \in {"alive", "dropping"}

(* Mutant: the reference to the connection is never given back. *)
ReleaseRef_leaks(t) ==
    /\ pc[t] = "release"
    /\ res' = [res EXCEPT ![arg[t]] = "gone"]
    /\ pc' = [pc EXCEPT ![t] = "idle"]
    /\ arg' = [arg EXCEPT ![t] = None]
    /\ UNCHANGED <<lockVars, sqliteVars, refs, connRefs, connRes, op, left>>

ReleaseRef(t) ==
    /\ pc[t] = "release"
    /\ res' = [res EXCEPT ![arg[t]] = "gone"]
    /\ pc' = [pc EXCEPT ![t] =
                IF connRefs = {} /\ \A h \in Handles \ {arg[t]} : ~Holds(h)
                THEN "cdrop" ELSE "idle"]
    /\ arg' = [arg EXCEPT ![t] = None]
    /\ UNCHANGED <<lockVars, sqliteVars, refs, connRefs, connRes, op, left>>

DropConnRef(t) ==
    /\ pc[t] = "idle" /\ t \in connRefs
    /\ connRefs' = connRefs \ {t}
    /\ Goto(t, IF connRefs = {t} /\ \A h \in Handles : ~Holds(h)
               THEN "cdrop" ELSE "idle")
    /\ UNCHANGED <<lockVars, sqliteVars, res, refs, connRes>>

(* Mutant: the hook lists are dropped before the connection. *)
ConnDrop_listsFirst(t) ==
    /\ pc[t] = "cdrop"
    /\ connRes' = "gone"
    /\ Goto(t, IF conn THEN "cclose" ELSE "cfree")
    /\ UNCHANGED <<lockVars, sqliteVars, res, refs, connRefs>>

(* The XqliteConn destructor: the body of drop, then the fields in order:  *)
(* the connection (closed without the lock) before the hook lists and      *)
(* dispatch tables its callbacks point into.                               *)
ConnDrop(t) ==
    /\ pc[t] = "cdrop"
    /\ connRes' = "dropping"
    /\ Goto(t, IF conn THEN "cclose" ELSE "cfree")
    /\ UNCHANGED <<lockVars, sqliteVars, res, refs, connRefs>>

ConnDropClose(t) ==
    /\ pc[t] = "cclose"
    /\ conn' = FALSE
    /\ db' = AfterClose
    /\ Goto(t, "cfree")
    /\ UNCHANGED <<lockVars, obj, ptr, beamVars>>

ConnFree(t) ==
    /\ pc[t] = "cfree"
    /\ connRes' = "gone"
    /\ Goto(t, "idle")
    /\ UNCHANGED <<lockVars, sqliteVars, res, refs, connRefs>>

-----------------------------------------------------------------------------
Call(t) ==
    \/ CallQuery(t) \/ CallOpen(t) \/ CallClose(t)
    \/ \E h \in Handles :
        \/ CallUse(t, h) \/ CallFetch(t, h) \/ CallFinalize(t, h)
        \/ CallSession(t, h) \/ CallDelete(t, h)

(* The steps of a call or destructor that has begun. *)
Step(t) ==
    \/ LockConn(t) \/ LockPoisoned(t) \/ CheckOpen(t) \/ CheckClosed(t)
    \/ CloseTake(t) \/ LoadPtr(t) \/ LoadNull(t) \/ EndCall(t)
    \/ StmtPrepare(t) \/ StreamOpen(t) \/ BlobOpen(t) \/ SessionNew(t)
    \/ FetchRow(t) \/ FetchEnd(t) \/ FetchTake(t)
    \/ SwapPtr(t) \/ LockSession(t) \/ DeleteTake(t) \/ Freed(t)
    \/ CloseEnd(t) \/ ReleaseRef(t)
    \/ ConnDrop(t) \/ ConnDropClose(t) \/ ConnFree(t)

Drop(t) == DropConnRef(t) \/ \E h \in Handles : DropRef(t, h)

Next ==
    \E t \in Threads :
        \/ Call(t) \/ Step(t) \/ Panic(t) \/ Drop(t)
        \/ \E u \in Threads : Share(t, u)

Spec == Init /\ [][Next]_vars

(* A thread inside a NIF or a destructor keeps running: the operating      *)
(* system schedules it and SQLite's calls return.  Whether and when a      *)
(* process calls a NIF or drops a reference is its own affair.             *)
FairSpec == Spec /\ \A t \in Threads : WF_vars(Step(t))

-----------------------------------------------------------------------------
(* Properties. *)

InSqlite(t) == pc[t] \in {"call", "free", "cclose"}

(* What the SQLite call a thread is inside of works on. *)
Target(t) ==
    CASE pc[t] = "free" -> arg[t]
      [] pc[t] = "call" /\ op[t] \in {"use", "fetch", "sess"} -> arg[t]
      [] pc[t] = "call" /\ op[t] \notin {"use", "fetch", "sess"} -> Db
      [] pc[t] = "cclose" -> Db
      [] OTHER -> None

Contract == INSTANCE SqliteContract WITH
    Pinning <- Raw, target <- [t \in Threads |-> Target(t)]

(* Whatever processes do with the handles, in whatever order, and whatever *)
(* the garbage collector does, the library only makes calls that SQLite    *)
(* allows: one thread at a time, no statement, blob or session used or     *)
(* freed after it was freed, no session touched once the connection is     *)
(* closed, no connection closed twice.  (with_conn, with_live_stmt,        *)
(* with_live_blob, with_session, take_and_finalize_raw, blob::close,       *)
(* session::close, stream_fetch, close_connection and the Drop impls.)     *)
SqliteCallsLegal == Contract!Spec

(* While a thread is inside SQLite, on a connection or on anything opened  *)
(* on it, the hook lists and dispatch tables that SQLite's callbacks point *)
(* into have not been dropped (XqliteConn's field order, and the           *)
(* conn_resource_arc of every child resource).                             *)
CallbackStateAlive ==
    \A t \in Threads : InSqlite(t) => connRes # "gone"

(* After close_connection has taken the Connection, or a panic has         *)
(* poisoned its mutex, no body of a NIF runs in SQLite any more: only the  *)
(* close itself and the tear-down of what is left.                         *)
QuietAfterCloseOrPoison ==
    /\ ~conn => \A t \in Threads : pc[t] = "call" => op[t] = "close"
    /\ poisoned => \A t \in Threads : pc[t] # "call"

(* t has swapped h's pointer out and will finalize what it pointed to. *)
Owns(t, h) ==
    /\ arg[t] = h
    /\ \/ pc[t] = "free"
       \/ pc[t] = "lock" /\ op[t] = "fin"

(* A live SQLite object is reachable from its resource, or some thread is  *)
(* about to free it.  What is lost is lost for one of three reasons: the   *)
(* opening NIF gave it no resource, the mutex is poisoned, or a session    *)
(* outlived the open connection (session.rs forgets it on purpose).        *)
NothingLostSilently ==
    \A h \in Handles : obj[h] = "live" =>
        \/ ptr[h]
        \/ \E t \in Threads : Owns(t, h)
        \/ res[h] = "orphan"
        \/ poisoned
        \/ h \in Sessions /\ ~conn

(* A connection that is never closed explicitly but only garbage collected *)
(* is really freed: when its destructor calls sqlite3_close nothing is     *)
(* outstanding, however the collection of its children interleaved, unless *)
(* a panic or an orphan left something behind (conn_resource_arc).         *)
CollectionFreesConnection ==
    [][\A t \in Threads : ConnDropClose(t) =>
        \/ db' = "freed"
        \/ poisoned
        \/ \E h \in Raw : res[h] = "orphan"]_vars

(* No thread keeps the connection mutex for ever: in particular the wait   *)
(* for a session's mutex under it always ends (lock order in session.rs).  *)
LockAlwaysReleased ==
    \A t \in Threads : lock = t ~> lock # t

NoReferences == connRefs = {} /\ \A h \in Handles : refs[h] = {}

(* Once no process holds a reference to the connection or to anything      *)
(* opened on it, every destructor finishes, the connection resource is     *)
(* released and SQLite's connection has been closed (the Drop impls).      *)
TeardownCompletes ==
    NoReferences ~> connRes = "gone" /\ db # "open"

(* nif.rs on stream_open: "Statement ownership is transferred to           *)
(* XqliteStream's AtomicPtr on success, or finalized on error before       *)
(* returning."  Every live statement of a stream is owned by its stream or *)
(* is being finalized, as long as nothing panicked.                        *)
StreamStatementsOwned ==
    \A h \in Streams : obj[h] = "live" =>
        ptr[h] \/ poisoned \/ \E t \in Threads : Owns(t, h)

-----------------------------------------------------------------------------
(* The inductive invariant behind the safety properties, in parts. *)

ConnOps == OpenOps \cup {"query", "close"}
ConnPhases == {"cdrop", "cclose", "cfree"}

(* A thread is past its lock step exactly if it holds the mutex. *)
LockInv ==
    \A t \in Threads :
        pc[t] \in {"check", "slock", "load", "call", "take", "free"} <=> lock = t

(* Which operation may be where, and on what kind of handle. *)
ControlInv ==
    \A t \in Threads :
        /\ pc[t] \in {"idle", "release"} \cup ConnPhases <=> op[t] = "none"
        /\ pc[t] \in {"idle"} \cup ConnPhases => arg[t] = None
        /\ pc[t] = "release" => arg[t] \in Handles
        /\ op[t] \in ConnOps => arg[t] = None /\ pc[t] \in {"lock", "check", "call"}
        /\ op[t] = "use" =>
            arg[t] \in Stmts \cup Blobs /\ pc[t] \in {"lock", "check", "load", "call"}
        /\ op[t] = "fetch" =>
            /\ arg[t] \in Streams
            /\ pc[t] \in {"lock", "check", "load", "call", "take", "free"}
            /\ pc[t] = "call" => left[t] > 0
        /\ op[t] = "fin" => arg[t] \in Raw /\ pc[t] \in {"swap", "lock", "free"}
        /\ op[t] = "sess" =>
            arg[t] \in Sessions /\ pc[t] \in {"lock", "check", "slock", "load", "call"}
        /\ op[t] = "del" =>
            arg[t] \in Sessions /\ pc[t] \in {"lock", "slock", "take", "free"}

(* A call holds references to what it works on; a destructor is alone.     *)
RefInv ==
    /\ \A t \in Threads : op[t] \in ConnOps => t \in connRefs
    /\ \A t \in Threads : arg[t] # None =>
        \/ res[arg[t]] = "alive" /\ t \in refs[arg[t]] /\ pc[t] # "release"
        \/ /\ res[arg[t]] = "dropping"
           /\ op[t] \in {"fin", "del"} \/ pc[t] = "release"
           /\ \A u \in Threads \ {t} : arg[u] # arg[t]
    /\ \A h \in Handles : refs[h] # {} => res[h] = "alive"

(* The connection's destructor runs once, when nothing else is left. *)
ConnInv ==
    /\ \A t \in Threads : pc[t] \in ConnPhases =>
        /\ connRes = IF pc[t] = "cdrop" THEN "alive" ELSE "dropping"
        /\ pc[t] = "cclose" => conn
        /\ \A u \in Threads \ {t} : pc[u] \notin ConnPhases
    /\ (connRes # "alive" \/ \E t \in Threads : pc[t] \in ConnPhases) =>
        connRefs = {} /\ \A h \in Handles : ~Holds(h)

(* Who may free each SQLite object, and who may rely on it. *)
ObjInv ==
    /\ \A h \in Handles : res[h] = "unborn" => obj[h] = "none"
    /\ \A h \in Handles : ptr[h] => obj[h] = "live" /\ Holds(h)
    /\ \A t \in Threads : pc[t] = "release" => ~ptr[arg[t]]
    /\ \A t \in Threads, h \in Handles : Owns(t, h) =>
        /\ obj[h] = "live" /\ ~ptr[h]
        /\ \A u \in Threads \ {t} : ~Owns(u, h)
    /\ \A t \in Threads :
        pc[t] = "call" /\ op[t] \in {"use", "fetch", "sess"} => obj[arg[t]] = "live"

(* The connection, its Option and the code that checked it. *)
DbInv ==
    /\ conn => db = "open"
    /\ db = "freed" => \A h \in Raw : obj[h] # "live"
    /\ \A t \in Threads : pc[t] = "call" /\ op[t] = "close" => ~conn
    /\ \A t \in Threads : pc[t] = "check" => ~poisoned
    /\ \A t \in Threads :
        pc[t] = "load" \/ (pc[t] = "slock" /\ op[t] = "sess") => conn /\ ~poisoned

IInv ==
    /\ TypeOK /\ LockInv /\ ControlInv /\ RefInv /\ ConnInv /\ ObjInv /\ DbInv
    /\ QuietAfterCloseOrPoison /\ NothingLostSilently
=============================================================================
