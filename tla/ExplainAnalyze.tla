--------------------------- MODULE ExplainAnalyze ---------------------------
(***************************************************************************)
(* Xqlite.explain_analyze (explain_analyze.rs): one NIF call that prepares *)
(* the statement, asks SQLite for the plan of the same SQL, then runs the  *)
(* statement for real and reads its counters.  A connection makes several  *)
(* calls; every sqlite3_* call may fail.  SQL is told apart by what the    *)
(* calls make of it.                                                       *)
(***************************************************************************)
EXTENDS Naturals, Sequences

CONSTANTS
  MaxRows,    \* bound: rows and effects of a statement
  MaxScans,   \* bound: loops of its plan
  MaxCalls    \* bound: calls of explain_analyze

(* kind: "plain"; "empty" is blank or a comment; "explain" is an EXPLAIN   *)
(* itself, of which there is no plan; "nul" holds a NUL byte.  rows: what  *)
(* it returns.  writes: what it changes.  scans: loops of the plan.        *)
Statements == [kind : {"plain", "empty", "explain", "nul"}, rows : 0..MaxRows,
               writes : 0..1, scans : 0..MaxScans]

VARIABLES
  sql,        \* the call's statement
  pc,         \* where the call is
  prepared,   \* statements of the connection not yet finalized
  applied,    \* changes made to the database by this call
  produced,   \* rows_produced
  plan,       \* query_plan: its number of rows
  scans,      \* scans: the idx of each entry
  report,     \* what the call answered
  calls,
  held,       \* history: prepared when the call began
  ran         \* history: the call reached run_and_collect

vars == <<sql, pc, prepared, applied, produced, plan, scans, report, calls, held, ran>>

Init ==
  /\ sql = [kind |-> "empty", rows |-> 0, writes |-> 0, scans |-> 0] /\ pc = "idle"
  /\ prepared = 0 /\ applied = 0 /\ produced = 0 /\ plan = 0 /\ scans = <<>>
  /\ report = "none" /\ calls = 0 /\ held = 0 /\ ran = FALSE

Return(r) == pc' = "idle" /\ report' = r
Goto(l) == pc' = l /\ UNCHANGED report

Call(s) ==
  /\ pc = "idle" /\ calls < MaxCalls /\ calls' = calls + 1
  /\ sql' = s /\ pc' = "prepare" /\ report' = "none"
  /\ applied' = 0 /\ produced' = 0 /\ plan' = 0 /\ scans' = <<>>
  /\ held' = prepared /\ ran' = FALSE
  /\ UNCHANGED prepared

(* CString::new, sqlite3_prepare_v2. *)
Prepare(ok) ==
  /\ pc = "prepare"
  /\ IF sql.kind = "nul" \/ ~ok THEN Return("error") /\ UNCHANGED prepared
     ELSE IF sql.kind = "empty" THEN Return("ok") /\ UNCHANGED prepared
     ELSE prepared' = prepared + 1 /\ Goto("plan")
  /\ UNCHANGED <<sql, applied, produced, plan, scans, calls, held, ran>>

(* collect_query_plan; its own statement is rusqlite's and is dropped.     *)
(* The `?` on its answer returns before sqlite3_finalize.                  *)
CollectQueryPlan(ok) ==
  /\ pc = "plan"
  /\ IF ok /\ sql.kind = "plain" THEN plan' = sql.scans /\ ran' = TRUE /\ Goto("bind")
     ELSE Return("error") /\ UNCHANGED <<plan, ran>>
  /\ UNCHANGED <<sql, prepared, applied, produced, scans, calls, held>>

BindParams(ok) ==
  /\ pc = "bind" /\ Goto(IF ok THEN "step" ELSE "failed")
  /\ UNCHANGED <<sql, prepared, applied, produced, plan, scans, calls, held, ran>>

(* sqlite3_step: a row, the end, or an error.  What an error leaves of the *)
(* statement's effects is SQLite's affair: none by default, any part of    *)
(* them with OR FAIL or RAISE(FAIL).  The call does not look.              *)
Step_stopsAtRow(ok) ==
  /\ pc = "step"
  /\ IF ~ok THEN Goto("failed") /\ applied' \in 0..sql.writes /\ UNCHANGED produced
     ELSE /\ applied' = sql.writes
          /\ produced' = IF sql.rows > 0 THEN 1 ELSE 0
          /\ Goto("counters")
  /\ UNCHANGED <<sql, prepared, plan, scans, calls, held, ran>>

Step(ok) ==
  /\ pc = "step"
  /\ IF ~ok THEN Goto("failed") /\ applied' \in 0..sql.writes /\ UNCHANGED produced
     ELSE IF produced < sql.rows
     THEN applied' = sql.writes /\ produced' = produced + 1 /\ UNCHANGED <<pc, report>>
     ELSE applied' = sql.writes /\ Goto("counters") /\ UNCHANGED produced
  /\ UNCHANGED <<sql, prepared, plan, scans, calls, held, ran>>

(* collect_stmt_counters reads without resetting; then collect_scan_status *)
(* asks for entry after entry until SQLite has none.                       *)
CollectScanStatus ==
  /\ pc = "counters"
  /\ IF Len(scans) < sql.scans THEN scans' = Append(scans, Len(scans)) /\ UNCHANGED <<pc, report>>
     ELSE Goto("done") /\ UNCHANGED scans
  /\ UNCHANGED <<sql, prepared, applied, produced, plan, calls, held, ran>>

(* sqlite3_finalize, whatever run_and_collect answered. *)
Finalize_onSuccess ==
  /\ pc \in {"done", "failed"}
  /\ prepared' = IF pc = "done" THEN prepared - 1 ELSE prepared
  /\ Return(IF pc = "done" THEN "ok" ELSE "error")
  /\ UNCHANGED <<sql, applied, produced, plan, scans, calls, held, ran>>

Finalize ==
  /\ pc \in {"done", "failed"} /\ prepared' = prepared - 1
  /\ Return(IF pc = "done" THEN "ok" ELSE "error")
  /\ UNCHANGED <<sql, applied, produced, plan, scans, calls, held, ran>>

Next ==
  \/ \E s \in Statements : Call(s)
  \/ \E ok \in BOOLEAN : Prepare(ok) \/ CollectQueryPlan(ok) \/ BindParams(ok) \/ Step(ok)
  \/ CollectScanStatus
  \/ Finalize

Spec == Init /\ [][Next]_vars
-----------------------------------------------------------------------------
(* An answer of ok is the report of one whole run: the statement ran to    *)
(* its end, once, its rows are counted and every loop of its plan is there.*)
ReportIsOfTheRun == (pc = "idle" /\ report = "ok") =>
  IF sql.kind = "empty" THEN applied = 0 /\ produced = 0 /\ scans = <<>>
  ELSE /\ applied = sql.writes /\ produced = sql.rows
       /\ plan = sql.scans /\ scans = [i \in 1..sql.scans |-> i - 1]

(* A call that reached run_and_collect leaves the connection with the      *)
(* statements it found, whatever failed there.  Nothing is claimed of a    *)
(* call that fails at its plan: the `?` of explain_analyze.rs:103 leaks.   *)
RunIsFinalized == (pc = "idle" /\ ran) => prepared = held

(* A run of explain_analyze is whole: an ok report is of one complete run  *)
(* of the statement, and the statement is finalized however the run ended. *)
RunIsWhole == ReportIsOfTheRun /\ RunIsFinalized
=============================================================================
