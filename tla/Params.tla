------------------------------- MODULE Params -------------------------------
(***************************************************************************)
(* How a call's parameters reach the statement it runs and come back in    *)
(* the rows: query and execute (query.rs, through rusqlite), stream_open,  *)
(* explain_analyze and stmt_bind (nif.rs, explain_analyze.rs, through the  *)
(* binders of stream.rs).  The statement is SELECT :p1, :p2, ..., column.  *)
(* A one-shot call prepares, binds, reads one row and finalizes; a manual  *)
(* statement keeps its bindings from call to call.  Each call holds the    *)
(* connection mutex, so a call is one step.                                *)
(***************************************************************************)
EXTENDS Values, SequencesExt

CONSTANTS
  Terms,      \* terms callers pass
  Columns,    \* values the column may hold
  Names,      \* the statement's parameters, in order
  Strangers,  \* names the statement does not have
  MaxLen,     \* bound: length of a positional list
  MaxKeys     \* bound: length of a keyword list

VARIABLES
  column,   \* the value of the column read
  bound,    \* the manual statement's bindings
  given,    \* what the successful binds gave it since the last clear
  mixed,    \* parameters that a bind set before it failed, and none since
  phase,    \* the manual statement: "ready", "row" or "done" after a step
  call      \* the last call: its arguments, what ran, what it returned

vars == <<column, bound, given, mixed, phase, call>>

N == Len(Names)
Unbound == [i \in 1..N |-> "NULL"]
Junk == <<"junk">>   \* an element that is no {atom, term} pair
Pairs == (Range(Names) \cup Strangers) \X Terms
NoCall == [api |-> "none", sql |-> "plain", params |-> <<"none">>, result |-> "none",
           row |-> <<>>]

(* What is_keyword and get_type tell apart: no list, an empty list, a list *)
(* that starts with a {atom, term} pair, any other list.                   *)
Lists == BoundedSeq(Terms, MaxLen) \ {<<>>}
Keywords == {<<p>> \o rest : p \in Pairs, rest \in BoundedSeq(Pairs \cup {Junk}, MaxKeys - 1)}
Inputs == {<<"nil">>, <<"other">>, <<"empty">>}
            \cup {<<"list", l>> : l \in Lists} \cup {<<"keywords", k>> : k \in Keywords}

(* decode_plain_list_params and decode_exec_keyword_params stop at the     *)
(* first element they refuse; nothing is bound before they are done.       *)
Decode(params) ==
  CASE params[1] = "list" ->
         LET bad == SelectInSeq(params[2], LAMBDA t : ~Converts(t))
         IN  IF bad = 0 THEN "ok" ELSE ToSqlite(params[2][bad])
    [] params[1] = "keywords" ->
         LET bad == SelectInSeq(params[2], LAMBDA p : p = Junk \/ ~Converts(p[2]))
         IN  IF bad = 0 THEN "ok"
             ELSE IF params[2][bad] = Junk THEN "expected_keyword_tuple"
             ELSE ToSqlite(params[2][bad][2])
    [] OTHER -> "ok"

(* The bindings to make, as <<index, value>>; index 0 for a name that the  *)
(* statement does not have.                                                *)
IndexOf(name) == SelectInSeq(Names, LAMBDA n : n = name)
Positional(items) == [i \in DOMAIN items |-> <<i, ToSqlite(items[i])>>]
Named(items) == [i \in DOMAIN items |-> <<IndexOf(items[i][1]), ToSqlite(items[i][2])>>]

Assignments(params) ==
  CASE params[1] = "list" -> Positional(params[2])
    [] params[1] = "keywords" -> Named(params[2])
    [] OTHER -> <<>>

(* sqlite3_bind_*: an index out of range or a value too long is refused.   *)
BindError(params, a) ==
  IF a[1] \notin 1..N
  THEN IF params[1] = "keywords" THEN "invalid_parameter_name" ELSE "sqlite_failure"
  ELSE IF a[2] = "huge" THEN "cannot_convert_to_sqlite_value" ELSE "ok"

(* The binders go through the list and stop at the first error; what came  *)
(* before it stays bound.                                                  *)
Binds(start, params) ==
  LET as == Assignments(params)
      bad == SelectInSeq(as, LAMBDA a : BindError(params, a) # "ok")
      done == IF bad = 0 THEN as ELSE SubSeq(as, 1, bad - 1)
      Assign(b, a) == [b EXCEPT ![a[1]] = a[2]]
  IN  [result |-> IF bad = 0 THEN "ok" ELSE BindError(params, as[bad]),
       bound |-> FoldLeft(Assign, start, done),
       set |-> {done[i][1] : i \in DOMAIN done}]

(* rusqlite: query([]), query(slice) and execute want every placeholder of *)
(* the statement; a keyword list may leave some out.                       *)
CountOk_atMost(params) == params[1] # "keywords" => Len(Assignments(params)) <= N
CountOk(params) == params[1] # "keywords" => Len(Assignments(params)) = N

(* reject_interior_nul, and CString::new on the other paths. *)
RejectInteriorNul_off(sql) == FALSE
RejectInteriorNul(sql) == sql = "nul"

(* The parameters of a one-shot call, up to the statement's first step.    *)
ListOrNil(params) == params[1] # "other"
Attempt(api, sql, params) ==
  LET b == Binds(Unbound, params) IN
  IF RejectInteriorNul(sql) THEN [result |-> "null_byte_in_string", bound |-> Unbound]
  ELSE IF ~ListOrNil(params) THEN [result |-> "expected_list", bound |-> Unbound]
  ELSE IF Decode(params) # "ok" THEN [result |-> Decode(params), bound |-> Unbound]
  ELSE IF api \in {"query", "execute"} /\ ~CountOk(params)
  THEN [result |-> IF b.result = "cannot_convert_to_sqlite_value" THEN b.result
                   ELSE "invalid_parameter_count", bound |-> Unbound]
  ELSE [result |-> b.result, bound |-> b.bound]

(* The row as each interface reads it; execute and explain_analyze count   *)
(* rows and hand out none.  SQLite stops at a NUL in the SQL text.         *)
Read(api, sql, values) ==
  LET row == IF sql = "nul" THEN <<>> ELSE Append(values, column) IN
  CASE api = "query" -> ProcessRow(row)
    [] api \in {"stream", "step"} -> SteppedRow(row)
    [] OTHER -> row

OneShot(api, sql, params) ==
  LET a == Attempt(api, sql, params)
      row == Read(api, sql, a.bound)
  IN  /\ call' = [api |-> api, sql |-> sql, params |-> params,
                  result |-> IF a.result # "ok" THEN a.result
                             ELSE IF row = NoRow THEN "row_error" ELSE "ok",
                  row |-> IF a.result # "ok" \/ row = NoRow THEN <<>> ELSE row]
      /\ UNCHANGED <<column, bound, given, mixed, phase>>

(* What a caller may expect of a successful bind: a list gives every       *)
(* parameter its value, a keyword list the last value of each name in it.  *)
LastFor(items, name) == SelectLastInSeq(items, LAMBDA p : p[1] = name)
Given(old, params) == [i \in 1..N |->
  CASE params[1] = "list" /\ i <= Len(params[2]) -> ToSqlite(params[2][i])
    [] params[1] = "keywords" /\ LastFor(params[2], Names[i]) > 0 ->
         ToSqlite(params[2][LastFor(params[2], Names[i])][2])
    [] OTHER -> old[i]]

(* stmt_bind: as above, with a count check of its own and no nil; a        *)
(* statement that has been stepped is refused by SQLite at the first bind. *)
BindRefusal_noCount(params) ==
  IF params[1] \in {"nil", "other"} THEN "expected_list"
  ELSE IF Decode(params) # "ok" THEN Decode(params)
  ELSE IF phase # "ready" /\ params[1] # "empty" THEN "sqlite_failure"
  ELSE "ok"

BindRefusal(params) ==
  IF params[1] \in {"nil", "other"} THEN "expected_list"
  ELSE IF Decode(params) # "ok" THEN Decode(params)
  ELSE IF params[1] = "list" /\ Len(params[2]) # N THEN "invalid_parameter_count"
  ELSE IF phase # "ready" /\ params[1] # "empty" THEN "sqlite_failure"
  ELSE "ok"

(* The errors that leave a bind half done: all others come before it.      *)
PartWay == {"invalid_parameter_name", "cannot_convert_to_sqlite_value"}

StmtBind(params) ==
  LET b == Binds(bound, params)
  IN  /\ IF BindRefusal(params) # "ok"
         THEN UNCHANGED <<bound, given, mixed>>
         ELSE /\ bound' = b.bound
              /\ given' = IF b.result = "ok" THEN Given(given, params) ELSE given
              /\ mixed' = CASE b.result = "ok" -> mixed \ b.set
                            [] b.result \in PartWay -> mixed \cup b.set
                            [] OTHER -> mixed
      /\ call' = NoCall
      /\ UNCHANGED <<column, phase>>

(* The statement yields one row, then done, and runs again after that.     *)
StmtStep ==
  /\ phase' = IF phase = "row" THEN "done" ELSE "row"
  /\ LET row == SteppedRow(Append(bound, column))
     IN  call' = CASE phase = "row" -> [NoCall EXCEPT !.api = "step", !.result = "done"]
                   [] phase # "row" /\ row = NoRow ->
                        [NoCall EXCEPT !.api = "step", !.result = "row_error"]
                   [] OTHER -> [NoCall EXCEPT !.api = "step", !.result = "ok", !.row = row]
  /\ UNCHANGED <<column, bound, given, mixed>>

StmtReset ==
  /\ phase' = "ready" /\ call' = NoCall
  /\ UNCHANGED <<column, bound, given, mixed>>

StmtClearBindings ==
  /\ bound' = Unbound /\ given' = Unbound /\ mixed' = {}
  /\ call' = NoCall
  /\ UNCHANGED <<column, phase>>

(* Another statement stores a value in the column. *)
Store(v) ==
  /\ column' = v /\ call' = NoCall
  /\ UNCHANGED <<bound, given, mixed, phase>>

Init ==
  /\ column = "NULL"
  /\ bound = Unbound /\ given = Unbound /\ mixed = {} /\ phase = "ready" /\ call = NoCall

Return ==
  /\ call # NoCall /\ call' = NoCall
  /\ UNCHANGED <<column, bound, given, mixed, phase>>

(* One-shot calls leave the manual statement alone and depend on nothing   *)
(* of it, so the two are explored apart.                                   *)
NextCall ==
  \/ /\ call = NoCall
     /\ \E params \in Inputs, api \in {"query", "execute", "stream", "explain"},
          sql \in {"plain", "nul"} : OneShot(api, sql, params)
  \/ Return

NextStmt ==
  \/ \E params \in Inputs : StmtBind(params)
  \/ StmtStep \/ StmtReset \/ StmtClearBindings
  \/ \E v \in Columns : Store(v)

CallSpec == Init /\ [][NextCall]_vars
StmtSpec == Init /\ [][NextStmt]_vars
-----------------------------------------------------------------------------
(* The term a caller gets back for one they passed: booleans are integers. *)
Back(term) == CASE term = "true" -> "1" [] term = "false" -> "0" [] OTHER -> term
Want(params, i) ==
  CASE params[1] = "list" /\ i <= Len(params[2]) -> Back(params[2][i])
    [] params[1] = "keywords" /\ LastFor(params[2], Names[i]) > 0 ->
         Back(params[2][LastFor(params[2], Names[i])][2])
    [] OTHER -> "nil"

(* A query or a stream that hands out a row ran the whole statement it was *)
(* given, with the parameters it was given: each value comes back as the   *)
(* term that went in, a parameter left out as nil, SQL text with a NUL     *)
(* never runs cut short (reject_interior_nul, the decoders, the binders).  *)
RunsWhatWasGiven ==
  (call.api \in {"query", "stream"} /\ call.result = "ok")
    => /\ Len(call.row) = N + 1
       /\ \A i \in 1..N : call.row[i] = Want(call.params, i)

(* query and execute never run a statement whose positional parameters are *)
(* not all given: the missing ones would silently be NULL, as they are in  *)
(* stream_open and explain_analyze, which do not count.                    *)
QueryBindsAll ==
  (call.api \in {"query", "execute"} /\ call.result = "ok" /\ call.params[1] # "keywords")
    => Len(Assignments(call.params)) = N

(* A manual statement's bindings are those of the successful binds since   *)
(* the last clear_bindings, each parameter from the last bind that had it: *)
(* a bind refused for a term, for the number of its terms or because the   *)
(* statement is running changes nothing.  A bind that fails at a name the  *)
(* statement does not have, or at a value too long for SQLite, has set the *)
(* parameters before it in the list: those alone, and until they are next  *)
(* bound.                                                                  *)
BoundIsGiven == \A i \in 1..N : i \notin mixed => bound[i] = given[i]

(* The row a stepped statement hands out, or its refusal, is what query    *)
(* would have answered for the same values (sqlite_row_to_elixir_terms and *)
(* encode_val are written separately).                                     *)
PathsAgree == call.api = "step" /\ call.result # "done" =>
  LET row == ProcessRow(Append(bound, column))
  IN  IF row = NoRow THEN call.result = "row_error" ELSE call.result = "ok" /\ call.row = row

(* A one-shot call runs the statement it was given with the parameters it  *)
(* was given, all of them where it counts them: query and execute do,      *)
(* stream_open and explain_analyze leave a missing position NULL.          *)
OneShotRunsWhatWasGiven == RunsWhatWasGiven /\ QueryBindsAll

(* A statement stepped by hand runs with what its successful binds gave    *)
(* it, and hands out what query would have answered (stmt_bind, stmt_step, *)
(* stmt_clear_bindings).                                                   *)
SteppedIsQueried == BoundIsGiven /\ PathsAgree
=============================================================================
