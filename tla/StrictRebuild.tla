--------------------------- MODULE StrictRebuild ---------------------------
(***************************************************************************)
(* Xqlite.enable_strict_table/2 (lib/xqlite.ex): a table is checked, then  *)
(* rebuilt as STRICT by a sequence of separate NIF calls on a connection.  *)
(* Another connection writes rows and creates indexes between any two of   *)
(* them, unless a transaction of this one holds the write lock.  Any call  *)
(* may fail.  The caller may be inside a transaction of their own.         *)
(* The table has one column; a value is its storage class, where a text is *)
(* not a numeral and a real not integral (no affinity changes those).      *)
(* "other" is a column without a type or with one STRICT does not know.    *)
(* The column is plain, a PRIMARY KEY that is not the rowid, or the key of *)
(* a WITHOUT ROWID table.                                                  *)
(***************************************************************************)
CONSTANTS
  Ids,       \* rowids
  Indexes    \* names of indexes on the table

VARIABLES
  column,   \* declared type of the column, and what it is in the table
  db,       \* the database: the table, the temporary table, the indexes
  saved,    \* the database when the open transaction began
  tx,       \* "none", "caller", or "own" after BEGIN IMMEDIATE
  pc,       \* "new", or the next call of enable_strict_table
  known,    \* index_sqls
  late,     \* history: rows others added after the check, and indexes they
            \* added after the list of them was made
  result,   \* what enable_strict_table answered
  before    \* the table, its indexes and tx when it was called, and what
            \* others added since

vars == <<column, db, saved, tx, pc, known, late, result, before>>

Classes == {"integer", "real", "text", "blob", "null"}
Types == {"integer", "real", "text", "blob", "any", "other"}
Columns == [type : Types, role : {"plain", "key", "without_rowid"}]

(* SQLite: what a column of this type makes of a value (its affinity), and *)
(* what a table accepts after that.  A key of a STRICT or a WITHOUT ROWID  *)
(* table is NOT NULL.                                                      *)
Stored(type, v) ==
  IF type = "real" /\ v = "integer" THEN "real"
  ELSE IF type = "text" /\ v \in {"integer", "real"} THEN "text" ELSE v
TypeAccepts(type, v) == type = "any" \/ v \in {type, "null"}
KeyRefuses(col, strict, v) ==
  v = "null" /\ (col.role = "without_rowid" \/ (col.role = "key" /\ strict))
Accepts(col, strict, v) == (strict => TypeAccepts(col.type, v)) /\ ~KeyRefuses(col, strict, v)

(* strict_allowed_types; columns of other types are not looked at.         *)
Allowed_noNull(type) ==
  CASE type = "integer" -> {"integer"}
    [] type = "real" -> {"real", "integer"}
    [] type = "text" -> {"text", "integer", "real"}
    [] type = "blob" -> {"blob"}
    [] type \in {"any", "other"} -> Classes

Allowed_anyNumber(type) ==
  CASE type = "integer" -> {"integer", "real", "null"}
    [] type = "real" -> {"real", "integer", "null"}
    [] type = "text" -> {"text", "integer", "real", "null"}
    [] type = "blob" -> {"blob", "null"}
    [] type \in {"any", "other"} -> Classes

Allowed(type) ==
  CASE type = "integer" -> {"integer", "null"}
    [] type = "real" -> {"real", "integer", "null"}
    [] type = "text" -> {"text", "integer", "real", "null"}
    [] type = "blob" -> {"blob", "null"}
    [] type \in {"any", "other"} -> Classes
Violations(rows) == {i \in DOMAIN rows : rows[i] \notin Allowed(column.type)}

(* get_typed_columns: the columns the check has a query for.               *)
Typed == column.type \notin {"any", "other"}

(* The rewritten DDL: only one that ends in a parenthesis, or in STRICT    *)
(* behind one, gets the word.                                              *)
StrictSql == column.role # "without_rowid" \/ db.table.strict

Empty == [i \in {} |-> "null"]
NoTable == [there |-> FALSE, strict |-> FALSE, rows |-> Empty]
Table(strict, rows) == [there |-> TRUE, strict |-> strict, rows |-> rows]

(* SQLite: an inserted row holds what the column makes of the value. *)
Insert(rows, i, v) ==
  [j \in DOMAIN rows \cup {i} |-> IF j = i THEN Stored(column.type, v) ELSE rows[j]]

Converted(rows) == [i \in DOMAIN rows |-> Stored(column.type, rows[i])]

Init ==
  /\ column = [type |-> "any", role |-> "plain"] /\ db = [table |-> NoTable, tmp |-> NoTable, ixs |-> {}]
  /\ saved = db /\ tx = "none" /\ pc = "new" /\ known = {} /\ late = [rows |-> {}, ixs |-> {}] /\ result = "none"
  /\ before = [table |-> NoTable, ixs |-> {}, tx |-> tx]

(* The table, as its owner declared it; it may be STRICT already. *)
CreateTable(col, strict) ==
  /\ pc = "new" /\ (strict => col.type # "other")
  /\ column' = col /\ db' = [db EXCEPT !.table = Table(strict, Empty)]
  /\ pc' = "idle"
  /\ UNCHANGED <<saved, tx, known, late, result, before>>

(* The caller's own work, uncommitted when enable_strict_table is called.  *)
CallerWrites(i, v) ==
  /\ pc = "idle" /\ result = "none" /\ i \notin DOMAIN db.table.rows
  /\ Accepts(column, db.table.strict, Stored(column.type, v))
  /\ saved' = IF tx = "none" THEN db ELSE saved
  /\ tx' = "caller"
  /\ db' = [db EXCEPT !.table.rows = Insert(@, i, v)]
  /\ UNCHANGED <<column, pc, known, late, result, before>>

Call ==
  /\ pc = "idle" /\ result = "none"
  /\ pc' = "check" /\ before' = [table |-> db.table, ixs |-> db.ixs, tx |-> tx]
  /\ UNCHANGED <<column, db, saved, tx, known, late, result>>

Return(r) == pc' = "idle" /\ result' = r
Then(next) == pc' = next /\ UNCHANGED result

(* check_strict_violations and reject_violations.  Its query names the     *)
(* rowid, so it fails where there is none.                                 *)
CheckStrictViolations ==
  /\ pc = "check"
  /\ IF Typed /\ column.role = "without_rowid" THEN Return("error")
     ELSE IF Violations(db.table.rows) = {} THEN Then("ddl") ELSE Return("strict_violations")
  /\ UNCHANGED <<column, db, saved, tx, known, late, before>>

(* table_create_sql: the DDL of the table, which no one else changes here. *)
TableCreateSql ==
  /\ pc = "ddl" /\ Then("indexes")
  /\ UNCHANGED <<column, db, saved, tx, known, late, before>>

GetIndexSqls ==
  /\ pc = "indexes" /\ known' = db.ixs /\ Then("begin")
  /\ UNCHANGED <<column, db, saved, tx, late, before>>

(* BEGIN fails inside a transaction. *)
BeginImmediate ==
  /\ pc = "begin"
  /\ IF tx = "none" THEN tx' = "own" /\ saved' = db /\ Then("create")
     ELSE Then("rollback") /\ UNCHANGED <<tx, saved>>
  /\ UNCHANGED <<column, db, known, late, before>>

CreateStrict ==
  /\ pc = "create"
  /\ IF column.type = "other" /\ StrictSql THEN Then("rollback") /\ UNCHANGED db
     ELSE Then("copy") /\ db' = [db EXCEPT !.tmp = Table(StrictSql, Empty)]
  /\ UNCHANGED <<column, saved, tx, known, late, before>>

(* INSERT ... SELECT: all rows or none. *)
Copy ==
  /\ pc = "copy"
  /\ LET rows == Converted(db.table.rows)
     IN  IF \A i \in DOMAIN rows : Accepts(column, db.tmp.strict, rows[i])
         THEN Then("drop") /\ db' = [db EXCEPT !.tmp.rows = rows]
         ELSE Then("rollback") /\ UNCHANGED db
  /\ UNCHANGED <<column, saved, tx, known, late, before>>

(* Indexes go with the table. *)
DropTable ==
  /\ pc = "drop" /\ Then("rename")
  /\ db' = [db EXCEPT !.table = NoTable, !.ixs = {}]
  /\ UNCHANGED <<column, saved, tx, known, late, before>>

Rename ==
  /\ pc = "rename" /\ Then("reindex")
  /\ db' = [db EXCEPT !.table = db.tmp, !.tmp = NoTable]
  /\ UNCHANGED <<column, saved, tx, known, late, before>>

(* recreate_indexes, one statement each. *)
RecreateIndex ==
  /\ pc = "reindex"
  /\ IF known \subseteq db.ixs THEN Then("commit") /\ UNCHANGED db
     ELSE \E ix \in known \ db.ixs : db' = [db EXCEPT !.ixs = @ \cup {ix}] /\ UNCHANGED <<pc, result>>
  /\ UNCHANGED <<column, saved, tx, known, late, before>>

Commit ==
  /\ pc = "commit" /\ tx' = "none" /\ Return("ok")
  /\ UNCHANGED <<column, db, saved, known, late, before>>

(* A call fails.  From get_index_sqls on, the error branch sends ROLLBACK, *)
(* whichever of the calls it was and whoever's transaction is open.        *)
Fail_noRollback ==
  /\ pc \notin {"new", "idle", "rollback"}
  /\ Return("error")
  /\ UNCHANGED <<column, db, saved, tx, known, late, before>>

Fail ==
  /\ pc \notin {"new", "idle", "rollback"}
  /\ IF pc \in {"check", "ddl"} THEN Return("error") ELSE Then("rollback")
  /\ UNCHANGED <<column, db, saved, tx, known, late, before>>

Rollback ==
  /\ pc = "rollback" /\ Return("error")
  /\ tx' = "none" /\ db' = IF tx = "none" THEN db ELSE saved
  /\ UNCHANGED <<column, saved, known, late, before>>

(* The other connection; it waits while a transaction here is writing.     *)
OtherInserts(i, v) ==
  /\ tx = "none" /\ db.table.there /\ i \notin DOMAIN db.table.rows
  /\ Accepts(column, db.table.strict, Stored(column.type, v))
  /\ db' = [db EXCEPT !.table.rows = Insert(@, i, v)]
  /\ before' = [before EXCEPT !.table.rows = Insert(@, i, v)]
  /\ late' = IF pc \in {"new", "idle", "check"} THEN late ELSE [late EXCEPT !.rows = @ \cup {i}]
  /\ UNCHANGED <<column, saved, tx, pc, known, result>>

OtherIndexes(ix) ==
  /\ tx = "none" /\ db.table.there /\ ix \notin db.ixs
  /\ db' = [db EXCEPT !.ixs = @ \cup {ix}] /\ before' = [before EXCEPT !.ixs = @ \cup {ix}]
  /\ late' = IF pc = "begin" THEN [late EXCEPT !.ixs = @ \cup {ix}] ELSE late
  /\ UNCHANGED <<column, saved, tx, pc, known, result>>

Next ==
  \/ \E col \in Columns, strict \in BOOLEAN : CreateTable(col, strict)
  \/ Call \/ CheckStrictViolations \/ TableCreateSql \/ GetIndexSqls \/ BeginImmediate \/ CreateStrict \/ Copy
  \/ DropTable \/ Rename \/ RecreateIndex \/ Commit \/ Fail \/ Rollback
  \/ \E i \in Ids, v \in Classes : CallerWrites(i, v) \/ OtherInserts(i, v)
  \/ \E ix \in Indexes : OtherIndexes(ix)

Spec == Init /\ [][Next]_vars
-----------------------------------------------------------------------------
Answered == pc = "idle" /\ result # "none"

(* Whatever call fails and whatever another connection commits meanwhile,  *)
(* enable_strict_table leaves no temporary table and no transaction of its *)
(* own.  After :ok the table has every row that was ever committed to it,  *)
(* converted to its column, and every index but one that another           *)
(* connection created between get_index_sqls and BEGIN IMMEDIATE.  It is   *)
(* STRICT, unless its DDL ends in WITHOUT ROWID: the rewrite misses that   *)
(* and :ok is answered for the table as it was.  After an error it is the  *)
(* table that was there, with its indexes, unless the caller was in a      *)
(* transaction (see UntouchedOnError).                                     *)
AllOrNothing == Answered =>
  /\ tx # "own" /\ db.tmp = NoTable
  /\ result = "ok" =>
       /\ db.table = Table(column.role # "without_rowid" \/ before.table.strict, Converted(before.table.rows))
       /\ before.ixs \ late.ixs \subseteq db.ixs
  /\ (result # "ok" /\ before.tx = "none") => db.table = before.table /\ db.ixs = before.ixs

(* check_strict_violations raises no false alarm: a table it refuses has a *)
(* row that a STRICT table of these columns does not accept.               *)
NoFalseAlarm ==
  [][(pc = "check" /\ result' = "strict_violations") =>
       \E i \in DOMAIN db.table.rows : ~Accepts(column, TRUE, Stored(column.type, db.table.rows[i]))]_vars

(* And when the copy runs, some calls later, it refuses no row that the    *)
(* check could have seen, but for a NULL in a primary key, which           *)
(* strict_allowed_types lets pass and STRICT does not.                     *)
NothingMissed ==
  \A i \in DOMAIN db.table.rows \ late.rows :
     \/ Accepts(column, db.tmp.strict, Stored(column.type, db.table.rows[i]))
     \/ column.role = "key" /\ db.table.rows[i] = "null"

(* The check of enable_strict_table foresees what its copy will refuse,    *)
(* whatever another connection inserts between the two.                    *)
CheckForeseesCopy == NoFalseAlarm /\ [](pc = "copy" => NothingMissed)

(* "# Original table untouched" (test/strict_table_test.exs): a call that  *)
(* fails leaves the rows that were there when it was made.                 *)
UntouchedOnError == (Answered /\ result # "ok") =>
  \A i \in DOMAIN before.table.rows : i \in DOMAIN db.table.rows
=============================================================================
