--------------------------- MODULE SqliteContract ---------------------------
(***************************************************************************)
(* What SQLite asks of the program that links it, for one connection that  *)
(* is opened without SQLite's own mutexes (SQLITE_OPEN_NO_MUTEX, the       *)
(* default of rusqlite, which native/xqlitenif relies on).  The module     *)
(* says nothing about locks: it only lists the calls that are legal.       *)
(*                                                                         *)
(*  - Two threads are never inside SQLite on the same connection.          *)
(*  - A statement or a blob may be used as long as it has not been         *)
(*    finalized, even after the connection was asked to close: SQLite then *)
(*    refuses to free the connection ("zombie").                           *)
(*  - A session does not keep the connection alive, so it may be used, and *)
(*    deleted, only while the connection is open.                          *)
(*  - Finalizing, closing or deleting something is the last call made on   *)
(*    it, and a connection is asked to close at most once.                 *)
(***************************************************************************)
CONSTANTS
    Threads,   \* the threads that call SQLite
    Pinning,   \* statements and blobs: while one lives, the connection stays
    Sessions,  \* sessions: they do not keep the connection alive
    Db,        \* names the connection as the target of a call
    None       \* "not inside SQLite"

Objects == Pinning \cup Sessions

VARIABLES
    db,     \* the sqlite3 object: "open", "zombie" or "freed"
    obj,    \* each object: "none" (not created yet), "live" or "dead"
    target  \* what each thread's current SQLite call works on, or None

vars == <<db, obj, target>>

Init ==
    /\ db = "open"
    /\ obj = [x \in Objects |-> "none"]
    /\ target = [t \in Threads |-> None]

Legal(x) ==
    \/ x = Db /\ db = "open"
    \/ x \in Pinning /\ obj[x] = "live" /\ db # "freed"
    \/ x \in Sessions /\ obj[x] = "live" /\ db = "open"

Enter(t) ==
    /\ \A u \in Threads : target[u] = None
    /\ \E x \in Objects \cup {Db} :
        /\ Legal(x)
        /\ target' = [target EXCEPT ![t] = x]
    /\ UNCHANGED <<db, obj>>

(* sqlite3_close: freed at once, or refused while a statement or blob is   *)
(* outstanding.                                                            *)
AfterClose(o) ==
    IF \E x \in Pinning : o[x] = "live" THEN "zombie" ELSE "freed"

Create(t) ==
    /\ target[t] = Db
    /\ \E x \in Objects : obj[x] = "none" /\ obj' = [obj EXCEPT ![x] = "live"]
    /\ UNCHANGED db

Destroy(t) ==
    /\ target[t] \in Objects
    /\ obj' = [obj EXCEPT ![target[t]] = "dead"]
    /\ UNCHANGED db

Close(t) ==
    /\ target[t] = Db
    /\ db' = AfterClose(obj)
    /\ UNCHANGED obj

Leave(t) ==
    /\ target[t] # None
    /\ target' = [target EXCEPT ![t] = None]
    /\ Create(t) \/ Destroy(t) \/ Close(t) \/ UNCHANGED <<db, obj>>

Next == \E t \in Threads : Enter(t) \/ Leave(t)

Spec == Init /\ [][Next]_vars
=============================================================================
