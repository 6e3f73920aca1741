------------------------------- MODULE Errors -------------------------------
(***************************************************************************)
(* From what SQLite reports to what a caller matches on: the               *)
(* classification of error.rs, the constraint details of                   *)
(* constraint_parse.rs and the PRAGMA wrapper of pragma.rs.  An incident   *)
(* is what happened inside SQLite; Report is the result code and the       *)
(* message SQLite makes of it, Classify what xqlite makes of those.        *)
(* A message is a sequence of tokens: fixed wording, names, and the dots   *)
(* and commas that join them.                                              *)
(***************************************************************************)
EXTENDS Naturals, SequencesExt

CONSTANTS
  Names       \* names of tables, columns and indexes: non-empty sequences of tokens

VARIABLES incident, via, answer
vars == <<incident, via, answer>>

Codes == {"readonly", "interrupt", "busy", "locked", "schema", "auth", "corrupt", "full"}
Texted == {"no such table", "no such index", "table exists", "index exists",
           "no such column", "syntax"}
Keys == {"unique", "primary key", "rowid key", "not null"}
Types == {"INT", "REAL", "TEXT", "BLOB"}
Declared == {"INTEGER", "REAL", "TEXT", "BLOB"}
Others == {"invalid_parameter_count", "utf8_error", "multiple_statements", "statement_changed_rows"}

None == <<>>
Incidents ==
  [what : Codes, table : {None}, columns : {None}]
    \cup [what : Texted, table : Names, columns : {<<n>> : n \in Names}]
    \cup [what : Keys, table : Names, columns : BoundedSeq(Names, 2) \ {<<>>}]
    \cup [what : {"check", "index unique"}, table : Names, columns : {None}]
    \cup [what : {"datatype"}, table : Names, columns : {<<n>> : n \in Names}, src : Types, tgt : Declared]
    \cup [what : {"foreign key", "trigger", "constraint"} \cup Others, table : {None}, columns : {None}]

(* Ways an error comes out: from a step or a batch, from a prepare that    *)
(* knows the SQL (rusqlite's SqlInputError), from reading a PRAGMA, from   *)
(* preparing one that sets.                                                *)
Ways == {"failure", "input", "pragma"}

(*********************** SQLite's own reporting ****************************)
Code(i) ==
  CASE i.what \in Codes -> i.what
    [] i.what \in Texted -> "error"
    [] OTHER -> "constraint"

Joined(seqs, sep) ==
  FoldLeft(LAMBDA acc, s : IF acc = <<>> THEN s ELSE acc \o <<sep>> \o s, <<>>, seqs)
Columns(i) == Joined([k \in DOMAIN i.columns |-> i.table \o <<".">> \o i.columns[k]], ", ")

Message(i) ==
  CASE i.what \in {"no such table", "no such index"} -> <<i.what>> \o i.table
    [] i.what = "table exists" -> <<"table">> \o i.table \o <<"already exists">>
    [] i.what = "index exists" -> <<"index">> \o i.table \o <<"already exists">>
    [] i.what = "no such column" -> <<"table">> \o i.table \o <<"has no column named">> \o i.columns[1]
    [] i.what \in {"unique", "rowid key"} -> <<"UNIQUE constraint failed: ">> \o Columns(i)
    [] i.what = "primary key" -> <<"PRIMARY KEY constraint failed: ">> \o Columns(i)
    [] i.what = "not null" -> <<"NOT NULL constraint failed: ">> \o Columns(i)
    [] i.what = "index unique" -> <<"UNIQUE constraint failed: ", "index '">> \o i.table \o <<"'">>
    [] i.what = "check" -> <<"CHECK constraint failed: ">> \o i.table
    [] i.what = "datatype" -> <<"cannot store ", i.src, " value in ", i.tgt, " column ">> \o Columns(i)
    [] OTHER -> <<"message">>

(* The extended code of a constraint. *)
Extended(i) ==
  CASE i.what \in {"unique", "index unique"} -> "unique"
    [] i.what \in {"primary key", "rowid key"} -> "primary key"
    [] OTHER -> i.what

(*********************** constraint_parse.rs *******************************)
(* str::split_once: what is before and after the first sep, or None.       *)
SplitOnce(text, sep) ==
  LET at == SelectInSeq(text, LAMBDA t : t = sep)
  IN  IF at = 0 THEN None ELSE <<SubSeq(text, 1, at - 1), SubSeq(text, at + 1, Len(text))>>

(* str::split *)
SplitAll(text, sep) ==
  FoldLeft(LAMBDA acc, t : IF t = sep THEN Append(acc, <<>>)
                           ELSE [acc EXCEPT ![Len(acc)] = Append(@, t)], <<<<>>>>, text)

NoDetails == [table |-> None, columns |-> None, name |-> None, src |-> "nil", tgt |-> "nil"]

StripPrefix(text, prefix) == text # None /\ text[1] = prefix
Rest(text) == SubSeq(text, 2, Len(text))

(* Each part is TABLE.COLUMN or COLUMN; the first table named counts.      *)
ColumnOf(part) == IF SplitOnce(part, ".") = None THEN part ELSE SplitOnce(part, ".")[2]
ParseTableColumns(text) ==
  LET parts == SplitAll(text, ", ")
      named == SelectInSeq(parts, LAMBDA p : SplitOnce(p, ".") # None)
  IN  [NoDetails EXCEPT !.table = IF named = 0 THEN None ELSE SplitOnce(parts[named], ".")[1],
                        !.columns = [k \in DOMAIN parts |-> ColumnOf(parts[k])]]

ParsePrefixed(text, prefix) ==
  IF StripPrefix(text, prefix) THEN ParseTableColumns(Rest(text)) ELSE NoDetails

ParseUnique(text) ==
  LET rest == Rest(text) IN
  IF StripPrefix(text, "UNIQUE constraint failed: ") /\ StripPrefix(rest, "index '") /\ Last(rest) = "'"
  THEN [NoDetails EXCEPT !.name = SubSeq(rest, 2, Len(rest) - 1)]
  ELSE ParsePrefixed(text, "UNIQUE constraint failed: ")

ParseCheck(text) ==
  IF StripPrefix(text, "CHECK constraint failed: ") THEN [NoDetails EXCEPT !.name = Rest(text)] ELSE NoDetails

StorageClass(word) == IF word = "INT" THEN "INTEGER" ELSE word
ParseDatatype(text) ==
  LET rest == SubSeq(text, 6, Len(text))
      split == SplitOnce(rest, ".")
  IN  IF ~StripPrefix(text, "cannot store ") THEN NoDetails
      ELSE [NoDetails EXCEPT !.table = IF split = None THEN None ELSE split[1],
                             !.columns = <<IF split = None THEN rest ELSE split[2]>>,
                             !.src = StorageClass(text[2]), !.tgt = StorageClass(text[4])]

ParseDetails_pkOnly(extended, text) ==
  CASE extended = "unique" -> ParseUnique(text)
    [] extended = "primary key" -> ParsePrefixed(text, "PRIMARY KEY constraint failed: ")
    [] extended = "not null" -> ParsePrefixed(text, "NOT NULL constraint failed: ")
    [] extended = "check" -> ParseCheck(text)
    [] extended = "datatype" -> ParseDatatype(text)
    [] OTHER -> NoDetails

(* A key of a rowid table is reported in the words of a UNIQUE one.        *)
ParseDetails(extended, text) ==
  CASE extended = "unique" -> ParseUnique(text)
    [] extended = "primary key" ->
         LET d == ParsePrefixed(text, "PRIMARY KEY constraint failed: ")
         IN  IF d = NoDetails THEN ParseUnique(text) ELSE d
    [] extended = "not null" -> ParsePrefixed(text, "NOT NULL constraint failed: ")
    [] extended = "check" -> ParseCheck(text)
    [] extended = "datatype" -> ParseDatatype(text)
    [] OTHER -> NoDetails

(*************************** error.rs, pragma.rs ***************************)
Kind(extended) == IF extended = "constraint" THEN "constraint_violation" ELSE extended

(* The four conditions SQLite tells only in words. *)
ByText(text) ==
  CASE text[1] = "no such table" -> "no_such_table"
    [] text[1] = "no such index" -> "no_such_index"
    [] text[1] = "table" /\ "already exists" \in Range(text) -> "table_exists"
    [] text[1] = "index" /\ "already exists" \in Range(text) -> "index_exists"
    [] OTHER -> "sqlite_failure"

Plain(class) == [class |-> class, kind |-> "nil", details |-> NoDetails]

ClassifySqliteError(code, extended, text) ==
  CASE code = "readonly" -> Plain("read_only_database")
    [] code = "interrupt" -> Plain("operation_cancelled")
    [] code \in {"busy", "locked"} -> Plain("database_busy_or_locked")
    [] code = "schema" -> Plain("schema_changed")
    [] code = "auth" -> Plain("authorization_denied")
    [] code = "constraint" -> [class |-> "constraint_violation", kind |-> Kind(extended),
                               details |-> ParseDetails(extended, text)]
    [] OTHER -> Plain(ByText(text))

(* From<rusqlite::Error>: a generic answer keeps the SQL and the offset of *)
(* an input error; a variant without a code of SQLite's keeps its name, or *)
(* is cannot_execute.                                                      *)
From(i, way) ==
  IF i.what \in Others
  THEN Plain(IF i.what = "statement_changed_rows" THEN "cannot_execute" ELSE i.what)
  ELSE LET c == ClassifySqliteError(Code(i), Extended(i), Message(i))
       IN  IF way = "input" /\ c.class = "sqlite_failure" THEN Plain("sql_input_error") ELSE c

(* pragma_exec_error: only a denial shows through the wrapper.             *)
IsSqliteAuth(i) == i.what \notin Others /\ Code(i) = "auth"
PragmaExecError_flat(i) == Plain("cannot_execute_pragma")
PragmaExecError(i) == IF IsSqliteAuth(i) THEN From(i, "failure") ELSE Plain("cannot_execute_pragma")

Nothing == [what |-> "none", table |-> None, columns |-> None]
Init == incident = Nothing /\ via = "failure" /\ answer = Plain("none")

Report(i, way) ==
  /\ incident' = i /\ via' = way
  /\ answer' = IF way = "pragma" THEN PragmaExecError(i) ELSE From(i, way)

Next == answer = Plain("none") /\ \E i \in Incidents, way \in Ways : Report(i, way)

Spec == Init /\ [][Next]_vars
-----------------------------------------------------------------------------
Answered == answer.class # "none"

(* What each incident is, in xqlite's vocabulary. *)
ClassOf(what) ==
  CASE what = "readonly" -> "read_only_database"
    [] what = "interrupt" -> "operation_cancelled"
    [] what \in {"busy", "locked"} -> "database_busy_or_locked"
    [] what = "schema" -> "schema_changed"
    [] what = "auth" -> "authorization_denied"
    [] what = "no such table" -> "no_such_table"
    [] what = "no such index" -> "no_such_index"
    [] what = "table exists" -> "table_exists"
    [] what = "index exists" -> "index_exists"
    [] what \in Others \cup {"no such column", "syntax", "corrupt", "full"} -> "generic"
    [] OTHER -> "constraint_violation"
Generic == {"sqlite_failure", "sql_input_error", "cannot_execute"} \cup Others

NoPhrase(i) == "already exists" \notin UNION {Range(n) : n \in {i.table} \cup Range(i.columns)}
Simple(name) == Range(name) \cap {".", ", "} = {}

(* Whatever SQLite says in words, an incident with a code of its own gets  *)
(* its own class by every way out, a denial through the PRAGMA wrapper     *)
(* included; the four conditions told by words get theirs, and nothing     *)
(* else does, unless a name itself holds "already exists".                 *)
ClassIsRight == (Answered /\ NoPhrase(incident)) =>
  IF via = "pragma"
  THEN answer.class = "authorization_denied" <=> incident.what = "auth"
  ELSE IF ClassOf(incident.what) = "generic" THEN answer.class \in Generic
       ELSE answer.class = ClassOf(incident.what)

(* The details of a constraint violation name the table and the columns    *)
(* (or the index, or the CHECK) of the constraint, when no name holds a    *)
(* dot or a comma; and whatever the names are, no part of them is lost     *)
(* when there is one column.                                               *)
DetailsAreRight == (Answered /\ answer.class = "constraint_violation") =>
  LET d == answer.details IN
  CASE incident.what \in Keys \cup {"datatype"} ->
         /\ (\A n \in {incident.table} \cup Range(incident.columns) : Simple(n))
              => d.table = incident.table /\ d.columns = incident.columns
         /\ (Len(incident.columns) = 1 /\ Len(d.columns) = 1)
              => d.table \o <<".">> \o d.columns[1] = Columns(incident)
         /\ incident.what = "datatype" =>
              d.src = StorageClass(incident.src) /\ d.tgt = incident.tgt
    [] incident.what \in {"check", "index unique"} -> d.name = incident.table /\ d.columns = None
    [] OTHER -> d = NoDetails

(* What the caller is told is what happened: the class and the details of  *)
(* an error are those of the incident inside SQLite.                       *)
ErrorIsTheIncident == ClassIsRight /\ DetailsAreRight
=============================================================================
