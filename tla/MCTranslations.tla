--------------------------- MODULE MCTranslations ---------------------------
(***************************************************************************)
(* What crosses the border between Elixir and SQLite, for TLC: parameters  *)
(* and rows (Params, over Values), errors (Errors), column defaults        *)
(* (DefaultLiteral) and schema rows (SchemaIntrospection).  They share no  *)
(* state; a behaviour is a behaviour of one of them, with the others at    *)
(* rest in their initial states.  Params and SchemaIntrospection have two  *)
(* families each, which differ in the inputs that are tried.               *)
(***************************************************************************)
EXTENDS Integers, Sequences, FiniteSets

CONSTANTS
  Strangers, MaxLen, MaxKeys,              \* see Params
  Alphabet, MaxText, Width, MaxExp         \* see DefaultLiteral

(* One-shot calls are tried with every term; a manual statement, which     *)
(* remembers, with one of each kind of outcome.                            *)
CallTerms == {"nil", "true", "false", "atom", "0", "1", "int", "bignum", "float",
              "text", "bytes", "huge", "tuple"}
StmtTerms == {"nil", "true", "text", "bignum", "huge"}
ColumnValues == {"NULL", "int", "float", "bytes", "utf8_blob", "+inf", "-inf", "bad_text"}
TwoNames == <<"a", "b">>

(* Two plain names, one with a dot, one with a comma, one with a phrase.   *)
SomeNames == {<<"a">>, <<"b">>, <<"a", ".", "b">>, <<"a", ", ", "b">>, <<"already exists">>}

(* Every declared type of at most three words, in a table of one column;   *)
(* and few types in every shape of column, beside all there is to declare. *)
Words == {"INT", "CHAR", "CLOB", "TEXT", "BLOB", "REAL", "FLOA", "DOUB", "ANY", "OTHER"}
AllTypes == UNION {[1..n -> Words] : n \in 0..3}
FewTypes == {<<>>, <<"INT">>, <<"ANY">>}
AllShapes == [notnull : {0, 1}, key : BOOLEAN, hidden : 0..3]
PlainShape == {[notnull |-> 0, key |-> FALSE, hidden |-> 0]}

ASSUME NamesAssumption == \A n \in Strangers : n \notin {TwoNames[i] : i \in DOMAIN TwoNames}
ASSUME BoundsAssumption == MaxLen > Len(TwoNames) /\ MaxKeys > 0 /\ Width > 0

VARIABLES
  focus,       \* the part, or the family, that moves
  column, bound, given, mixed, phase, call,
  incident, via, class_answer,
  raw, class, term,
  kind, keybase, cols, fks, indexes, objects, schema_answer

P == INSTANCE Params WITH Terms <- CallTerms, Columns <- ColumnValues, Names <- TwoNames
M == INSTANCE Params WITH Terms <- StmtTerms, Columns <- ColumnValues, Names <- TwoNames
E == INSTANCE Errors WITH Names <- SomeNames, answer <- class_answer
D == INSTANCE DefaultLiteral
A == INSTANCE SchemaIntrospection WITH
       Types <- AllTypes, Shapes <- PlainShape, Elements <- {}, KeyBases <- {0}, MaxDdl <- 1,
       Kinds <- {"ordinary", "strict"}, answer <- schema_answer
S == INSTANCE SchemaIntrospection WITH
       Types <- FewTypes, Shapes <- AllShapes, Elements <- {"fk", "index", "object"},
       KeyBases <- {0, 254}, MaxDdl <- 2,
       Kinds <- {"ordinary", "strict", "virtual"}, answer <- schema_answer

paramVars == <<column, bound, given, mixed, phase, call>>
errorVars == <<incident, via, class_answer>>
defaultVars == <<raw, class, term>>
schemaVars == <<kind, keybase, cols, fks, indexes, objects, schema_answer>>
allVars == <<focus, paramVars, errorVars, defaultVars, schemaVars>>

MCInit ==
  /\ focus \in {"calls", "statement", "errors", "defaults", "affinities", "schema rows"}
  /\ P!Init /\ E!Init /\ D!Init /\ S!Init

MCNext ==
  /\ UNCHANGED focus
  /\ \/ /\ \/ focus = "calls" /\ P!NextCall
           \/ focus = "statement" /\ M!NextStmt
        /\ UNCHANGED <<errorVars, defaultVars, schemaVars>>
     \/ /\ focus = "errors" /\ E!Next
        /\ UNCHANGED <<paramVars, defaultVars, schemaVars>>
     \/ /\ focus = "defaults" /\ D!Next
        /\ UNCHANGED <<paramVars, errorVars, schemaVars>>
     \/ /\ \/ focus = "affinities" /\ A!Next
           \/ focus = "schema rows" /\ S!Next
        /\ UNCHANGED <<paramVars, errorVars, defaultVars>>

MCSpec == MCInit /\ [][MCNext]_allVars

(* The properties of the modules, which say what each one states.          *)

(* A one-shot call runs what it was given. *)
OneShotRunsWhatWasGiven == P!OneShotRunsWhatWasGiven

(* A statement stepped by hand runs and answers like a query. *)
SteppedIsQueried == M!SteppedIsQueried

(* An error says what happened inside SQLite. *)
ErrorIsTheIncident == E!ErrorIsTheIncident

(* A column's default arrives as SQLite reads it. *)
DefaultIsSqlites == D!DefaultIsSqlites

(* An introspection call answers the schema. *)
SchemaIsAnswered == S!SchemaIsAnswered
=============================================================================
