---------------------------- MODULE Transactions ----------------------------
(***************************************************************************)
(* The transaction NIFs (transaction.rs, nif.rs), query_with_changes       *)
(* (query.rs) and the update, commit and rollback hooks seen by a process  *)
(* that follows a connection through their messages.  Every action is one  *)
(* NIF call under the connection mutex; what SQLite does inside it is      *)
(* external and modelled from how the NIFs use it.                         *)
(*                                                                         *)
(* A table is the set of rows it holds; a statement toggles some rows, or  *)
(* fails behind some of them.                                              *)
(* Child refers to Parent through a deferred foreign key.  The follower    *)
(* keeps a buffer of the rows the update hook named, applies it to its     *)
(* mirror on a commit message and drops it on a rollback message.          *)
(***************************************************************************)
EXTENDS Integers, Sequences, FiniteSets

CONSTANTS
  Rows, Parent, Child,  \* rows; Child needs Parent at commit
  Names,                \* savepoint names
  MaxDepth,             \* bound: savepoints on the stack
  MaxTotal              \* bound: value of sqlite3_total_changes

VARIABLES
  tx,          \* "none" (autocommit), "begin" or "savepoint": what opened it
  writing,     \* the transaction holds a write lock
  stack,       \* savepoints, outermost first: name and the table then
  table,       \* the table as this connection sees it
  committed,   \* the table on disk
  changes,     \* sqlite3_changes, which later statements leave alone
  total,       \* sqlite3_total_changes
  buffer, mirror,   \* the follower
  announced,   \* history: the open transaction's commit was announced and failed
  rewound,     \* history: the open transaction took back rows the follower had
               \* heard of, by ROLLBACK TO or in a statement that failed
  torn,        \* history: a commit was announced and undone, or one was
               \* announced of a transaction that had taken rows back
  last         \* the last call: "ok" or "error", rows reported and changed

dbVars == <<tx, writing, stack, table, committed>>
vars == <<tx, writing, stack, table, committed, changes, total, buffer, mirror, announced, rewound, torn, last>>

Toggle(s, r) == (s \ r) \cup (r \ s)
FkBroken(s) == Child \in s /\ Parent \notin s

Answer(result) == last' = [result |-> result, reported |-> 0, changed |-> 0]

Init ==
  /\ tx = "none" /\ writing = FALSE /\ stack = <<>>
  /\ table = {} /\ committed = {}
  /\ changes = 0 /\ total = 0
  /\ buffer = {} /\ mirror = {}
  /\ announced = FALSE /\ rewound = FALSE /\ torn = FALSE
  /\ last = [result |-> "ok", reported |-> 0, changed |-> 0]
----------------------------------------------------------------------------
(* What the callbacks make of the follower: update_hook sends each row,    *)
(* commit_hook and rollback_hook send the end of the transaction.          *)
Hear(rows, told) ==
  LET buf == Toggle(buffer, rows)
  IN /\ buffer' = IF told = {} THEN buf ELSE {}
     /\ mirror' = IF "commit" \in told THEN Toggle(mirror, buf) ELSE mirror

(* SQLite ends the transaction and keeps, or drops, its work. *)
End(content) ==
  /\ tx' = "none" /\ writing' = FALSE /\ stack' = <<>>
  /\ announced' = FALSE /\ rewound' = FALSE
  /\ table' = content /\ committed' = content

(* sqlite3RollbackAll: the rollback hook runs if a transaction was open.   *)
RollbackAll_silent == {}
RollbackAll == {"rollback"}

(* The commit hook runs before SQLite commits, and only if something was   *)
(* locked for writing; it never vetoes.                                    *)
CommitHook(write) == IF write THEN {"commit"} ELSE {}
----------------------------------------------------------------------------
Begin(mode) ==
  /\ tx = "none"
  /\ tx' = "begin"
  /\ writing' = (mode # "deferred")
  /\ Answer("ok")
  /\ UNCHANGED <<stack, table, committed, changes, total, buffer, mirror, announced, torn, rewound>>

(* A call SQLite refuses because of the transaction state changes nothing. *)
Refused(call) ==
  /\ \/ call = "begin" /\ tx # "none"
     \/ call \in {"commit", "rollback"} /\ tx = "none"
  /\ Answer("error")
  /\ UNCHANGED <<dbVars, changes, total, buffer, mirror, announced, torn, rewound>>

(* COMMIT, and RELEASE of the savepoint that opened the transaction: with  *)
(* a broken deferred key nothing ends; a busy database leaves it open too, *)
(* but the hook has already run.                                           *)
EndByCommit ==
  \/ /\ FkBroken(table)
     /\ Answer("error")
     /\ UNCHANGED <<dbVars, announced, rewound, torn, buffer, mirror>>
  \/ /\ ~FkBroken(table)
     /\ End(table)
     /\ Hear({}, CommitHook(writing))
     /\ Answer("ok")
     /\ torn' = (torn \/ rewound)
  \/ /\ ~FkBroken(table) /\ writing
     /\ Hear({}, CommitHook(writing))
     /\ Answer("error")
     /\ announced' = TRUE /\ torn' = (torn \/ rewound)
     /\ UNCHANGED <<dbVars, rewound>>

Commit ==
  /\ tx # "none"
  /\ EndByCommit
  /\ UNCHANGED <<changes, total>>

(* ROLLBACK, or a statement cancelled while it writes: SQLite gives up the *)
(* whole transaction.  A commit announced before is then undone.           *)
Rollback(call) ==
  /\ tx # "none"
  /\ End(committed)
  /\ Hear({}, RollbackAll)
  /\ Answer(IF call = "rollback" THEN "ok" ELSE "error")
  /\ torn' = (torn \/ announced)
  /\ UNCHANGED <<changes, total>>

Savepoint(name) ==
  /\ Len(stack) < MaxDepth
  /\ tx' = IF tx = "none" THEN "savepoint" ELSE tx
  /\ stack' = Append(stack, [name |-> name, table |-> table])
  /\ Answer("ok")
  /\ UNCHANGED <<writing, table, committed, changes, total, buffer, mirror, announced, torn, rewound>>

(* The innermost savepoint of that name. *)
Innermost(name) ==
  {i \in DOMAIN stack : stack[i].name = name /\ \A j \in i+1..Len(stack) : stack[j].name # name}

RollbackTo(name) ==
  /\ \E i \in Innermost(name) :
       /\ table' = stack[i].table
       /\ stack' = SubSeq(stack, 1, i)
       /\ rewound' = (rewound \/ table' # table)
  /\ Answer("ok")
  /\ UNCHANGED <<tx, writing, committed, changes, total, buffer, mirror, announced, torn>>

Release(name) ==
  /\ \E i \in Innermost(name) :
       \/ /\ i = 1 /\ tx = "savepoint"
          /\ EndByCommit
       \/ /\ i > 1 \/ tx # "savepoint"
          /\ stack' = SubSeq(stack, 1, i - 1)
          /\ Answer("ok")
          /\ UNCHANGED <<tx, writing, table, committed, announced, rewound, torn, buffer, mirror>>
  /\ UNCHANGED <<changes, total>>
----------------------------------------------------------------------------
(* core_query_with_changes: sqlite3_changes is sticky, so it only counts   *)
(* when sqlite3_total_changes moved during this statement.                 *)
Reported_sticky(before, after, count) == count
Reported(before, after, count) == IF after = before THEN 0 ELSE count

(* A statement through query_with_changes that toggles rows, with trigger  *)
(* rows counted in the total only; no rows at all is a SELECT or DDL.      *)
(* Outside a transaction it commits by itself or is rolled back.           *)
Statement(rows, triggered) ==
  LET n == Cardinality(rows)
      new == Toggle(table, rows)
      t == total + n + (IF n = 0 THEN 0 ELSE triggered)
      c == IF n = 0 THEN changes ELSE n
      Succeed(told) ==
        /\ changes' = c /\ total' = t
        /\ Hear(rows, told)
        /\ last' = [result |-> "ok", reported |-> Reported(total, t, c), changed |-> n]
        /\ UNCHANGED torn
      Fail ==
        /\ changes' = 0
        /\ Answer("error")
        /\ End(committed)
        /\ UNCHANGED total
  IN /\ t <= MaxTotal
     /\ \/ /\ tx # "none"
           /\ table' = new
           /\ writing' = (writing \/ n > 0)
           /\ UNCHANGED <<tx, stack, committed, announced, rewound>>
           /\ Succeed({})
        \/ /\ tx = "none" /\ ~FkBroken(new)
           /\ End(new)
           /\ Succeed(CommitHook(n > 0))
        \/ /\ tx = "none" /\ FkBroken(new)
           /\ Fail
           /\ Hear(rows, RollbackAll)
           /\ UNCHANGED torn
        \/ /\ tx = "none" /\ ~FkBroken(new) /\ n > 0
           /\ Fail
           /\ Hear(rows, CommitHook(TRUE))
           /\ torn' = TRUE

(* A statement that breaks a constraint after it changed the rows heard,   *)
(* of which the update hook has told.  SQLite takes them back, without a   *)
(* message when a transaction stays open, or with OR FAIL keeps them, and  *)
(* then outside a transaction commits them.                                *)
StatementFails(heard, kept) ==
  /\ kept \in {{}, heard}
  /\ changes' = Cardinality(kept) /\ total' = total + Cardinality(kept) /\ total' <= MaxTotal
  /\ Answer("error")
  /\ UNCHANGED torn
  /\ \/ /\ tx # "none"
        /\ table' = Toggle(table, kept) /\ writing' = TRUE
        /\ rewound' = (rewound \/ heard # kept)
        /\ Hear(heard, {})
        /\ UNCHANGED <<tx, stack, committed, announced>>
     \/ /\ tx = "none" /\ kept = {}
        /\ End(committed)
        /\ Hear(heard, RollbackAll)
     \/ /\ tx = "none" /\ kept # {} /\ ~FkBroken(Toggle(table, kept))
        /\ End(Toggle(table, kept))
        /\ Hear(heard, CommitHook(TRUE))

Next ==
  \/ \E mode \in {"deferred", "immediate", "exclusive"} : Begin(mode)
  \/ \E call \in {"begin", "commit", "rollback"} : Refused(call)
  \/ Commit
  \/ \E call \in {"rollback", "query_with_changes"} : Rollback(call)
  \/ \E name \in Names : Savepoint(name) \/ RollbackTo(name) \/ Release(name)
  \/ \E rows \in SUBSET Rows, triggered \in 0..1 : Statement(rows, triggered)
  \/ \E heard, kept \in SUBSET Rows : StatementFails(heard, kept)

Spec == Init /\ [][Next]_vars
----------------------------------------------------------------------------
(* A process that only listens to the three hooks has the committed table  *)
(* whenever no transaction is open, through nested savepoints, refused     *)
(* calls, failed statements, failed commits and cancelled writes: whatever *)
(* is rolled back, it forgets.  What SQLite has no message for is stated   *)
(* as it is: a commit that is announced and then fails, and the commit of  *)
(* a transaction that took rows back (ROLLBACK TO, or a statement that     *)
(* failed part-way).                                                       *)
FollowerAgrees ==
  (tx = "none" /\ ~torn) => (mirror = committed /\ buffer = {})

(* query_with_changes reports the rows this very statement changed: never  *)
(* the count of an earlier statement, never the rows of its triggers.      *)
ReportedIsOwn == last.reported = last.changed
=============================================================================
