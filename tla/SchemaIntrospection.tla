------------------------ MODULE SchemaIntrospection ------------------------
(***************************************************************************)
(* Schema introspection (schema.rs): schema_columns, schema_foreign_keys,  *)
(* schema_indexes, schema_index_columns and schema_list_objects.  Each     *)
(* runs one PRAGMA under the connection mutex, collects its rows, and      *)
(* translates them one by one; the first row that does not translate makes *)
(* the whole call an error.                                                *)
(*                                                                         *)
(* The schema is one table with its indexes and the list of objects around *)
(* it; DDL changes it between calls.  A declared type is the sequence of   *)
(* the words SQLite's affinity rules look for ("OTHER" is any other word). *)
(***************************************************************************)
EXTENDS Integers, Sequences, SequencesExt

CONSTANTS
  Types,      \* declared types columns are given
  Kinds,      \* of table: "ordinary", "strict" or "virtual"; "none" before there is one
  KeyBases,   \* key columns the table has before those listed here
  Shapes,     \* [notnull, key, hidden] columns are declared with
  Elements,   \* which of "fk", "index" and "object" are declared beside columns
  MaxDdl      \* bound: columns, foreign keys, indexes and objects declared

VARIABLES
  kind, keybase,
  cols,       \* [type, notnull, key, hidden]
  fks,        \* [to, width, on_update, on_delete]; to is "named" or "implicit"
              \* (REFERENCES parent), width the number of columns
  indexes,    \* [origin, unique, partial, keys]; keys: [cid, desc]
  objects,    \* [schema, type, wr]
  answer      \* of the last call: [call, ok, rows] or [call, ok, error]

vars == <<kind, keybase, cols, fks, indexes, objects, answer>>

NoAnswer == [call |-> <<"none">>, ok |-> FALSE, error |-> "none"]

Init ==
  /\ kind = "none" /\ keybase = 0
  /\ cols = <<>> /\ fks = <<>> /\ indexes = <<>> /\ objects = <<>>
  /\ answer = NoAnswer
-----------------------------------------------------------------------------
(* What SQLite accepts and stores.                                         *)
StrictTypes == {<<w>> : w \in {"INT", "REAL", "TEXT", "BLOB", "ANY"}}

Room == Len(cols) + Len(fks) + Len(indexes) + Len(objects) < MaxDdl

Ddl == answer' = NoAnswer /\ UNCHANGED <<kind, keybase>>

CreateTable(k, base) ==
  /\ kind = "none" /\ (k = "virtual" => base = 0)
  /\ kind' = k /\ keybase' = base
  /\ answer' = NoAnswer /\ UNCHANGED <<cols, fks, indexes, objects>>

AddColumn(type, shape) ==
  /\ kind = "strict" => type \in StrictTypes
  /\ IF kind = "virtual" THEN ~shape.key /\ shape.hidden \in {0, 1} ELSE shape.hidden # 1
  /\ shape.key => shape.hidden = 0
  /\ cols' = Append(cols, [type |-> type, notnull |-> shape.notnull, key |-> shape.key,
                           hidden |-> shape.hidden])
  /\ Ddl /\ UNCHANGED <<fks, indexes, objects>>

AddForeignKey(fk) ==
  /\ kind # "virtual"
  /\ fks' = Append(fks, fk)
  /\ Ddl /\ UNCHANGED <<cols, indexes, objects>>

(* A key is a column of the table or, with cid -2, an expression. *)
AddIndex(origin, partial, cid, desc) ==
  /\ kind # "virtual"
  /\ cid = -2 \/ cid < Len(cols)
  /\ origin # "c" => ~partial /\ cid # -2
  /\ \E unique \in {0, 1} :
       /\ origin # "c" => unique = 1
       /\ indexes' = Append(indexes, [origin |-> origin, unique |-> unique,
                                      partial |-> IF partial THEN 1 ELSE 0,
                                      keys |-> <<[cid |-> cid, desc |-> desc]>>])
  /\ Ddl /\ UNCHANGED <<cols, fks, objects>>

AddObject(schema, type, wr) ==
  /\ type # "table" => wr = 0
  /\ objects' = Append(objects, [schema |-> schema, type |-> type, wr |-> wr])
  /\ Ddl /\ UNCHANGED <<cols, fks, indexes>>

(* The rows of PRAGMA table_xinfo; pk numbers the columns of the key.      *)
TableXinfo == [i \in DOMAIN cols |->
  [cid |-> i - 1, type |-> cols[i].type, notnull |-> cols[i].notnull, hidden |-> cols[i].hidden,
   pk |-> IF cols[i].key
          THEN keybase + Len(SelectSeq(SubSeq(cols, 1, i), LAMBDA c : c.key)) ELSE 0]]

(* PRAGMA foreign_key_list: the newest first, a row for each column; "to"  *)
(* is NULL when the declaration names no column of the parent.  SQLite     *)
(* parses a MATCH clause and forgets it.                                   *)
ForeignKeyList == FlattenSeq([i \in DOMAIN fks |-> LET fk == Reverse(fks)[i] IN
  [k \in 1..fk.width |->
     [id |-> i - 1, seq |-> k - 1, to |-> IF fk.to = "named" THEN "column" ELSE "NULL",
      on_update |-> fk.on_update, on_delete |-> fk.on_delete, match |-> "NONE"]]])

(* PRAGMA index_list: the newest first. *)
IndexList == Reverse(indexes)

(* PRAGMA index_xinfo: the keys, then the rowid, which is no key.          *)
IndexXinfo(i) == Append(
  [k \in DOMAIN indexes[i].keys |->
     [cid |-> indexes[i].keys[k].cid, desc |-> indexes[i].keys[k].desc, key |-> 1,
      name |-> IF indexes[i].keys[k].cid < 0 THEN "NULL" ELSE "column"]],
  [cid |-> -1, desc |-> 0, key |-> 0, name |-> "NULL"])

(* sqlite3AffinityType scans the declared type from left to right.         *)
ScanWord(aff, word) ==
  IF aff = "integer" THEN aff
  ELSE IF word \in {"CHAR", "CLOB", "TEXT"} THEN "text"
  ELSE IF word = "BLOB" /\ aff \in {"numeric", "float"} THEN "binary"
  ELSE IF word \in {"REAL", "FLOA", "DOUB"} /\ aff = "numeric" THEN "float"
  ELSE IF word = "INT" THEN "integer"
  ELSE aff

SqliteAffinity(type) ==
  IF type = <<>> \/ (kind = "strict" /\ type = <<"ANY">>) THEN "binary"
  ELSE FoldLeft(ScanWord, "numeric", type)
-----------------------------------------------------------------------------
(* The translations; Bad is a value they have no case for.                 *)
Bad == "bad"

type_affinity_to_atom_realFirst(type) ==
  LET Has(words) == \E w \in words : w \in ToSet(type) IN
  IF Has({"INT"}) THEN "integer"
  ELSE IF Has({"CHAR", "CLOB", "TEXT"}) THEN "text"
  ELSE IF Has({"REAL", "FLOA", "DOUB"}) THEN "float"
  ELSE IF Has({"BLOB"}) \/ type = <<>> \/ type = <<"ANY">> THEN "binary"
  ELSE "numeric"

type_affinity_to_atom(type) ==
  LET Has(words) == \E w \in words : w \in ToSet(type) IN
  IF Has({"INT"}) THEN "integer"
  ELSE IF Has({"CHAR", "CLOB", "TEXT"}) THEN "text"
  ELSE IF Has({"BLOB"}) \/ type = <<>> \/ type = <<"ANY">> THEN "binary"
  ELSE IF Has({"REAL", "FLOA", "DOUB"}) THEN "float"
  ELSE "numeric"

hidden_int_to_atom_generated(hidden) ==
  CASE hidden = 0 -> "normal" [] hidden = 1 -> "hidden_alias"
    [] hidden \in {2, 3} -> "virtual_generated" [] OTHER -> Bad

hidden_int_to_atom(hidden) ==
  CASE hidden = 0 -> "normal" [] hidden = 1 -> "hidden_alias"
    [] hidden = 2 -> "virtual_generated" [] hidden = 3 -> "stored_generated" [] OTHER -> Bad

fk_action_to_atom(s) ==
  CASE s = "NO ACTION" -> "no_action" [] s = "RESTRICT" -> "restrict" [] s = "SET NULL" -> "set_null"
    [] s = "SET DEFAULT" -> "set_default" [] s = "CASCADE" -> "cascade" [] OTHER -> Bad

fk_match_to_atom(s) ==
  CASE s = "NONE" -> "none" [] s = "SIMPLE" -> "simple" [] s = "PARTIAL" -> "partial"
    [] s = "FULL" -> "full" [] OTHER -> Bad

index_origin_to_atom(s) ==
  CASE s = "c" -> "create_index" [] s = "u" -> "unique_constraint"
    [] s = "pk" -> "primary_key_constraint" [] OTHER -> Bad

object_type_to_atom(s) ==
  IF s \in {"table", "view", "shadow", "virtual", "sequence"} THEN s ELSE Bad

sort_order_to_atom(v) == CASE v = 0 -> "asc" [] v = 1 -> "desc" [] OTHER -> Bad
notnull_to_nullable(v) == CASE v = 0 -> "nullable" [] v = 1 -> "not_null" [] OTHER -> Bad
int_flag_to_bool(v) == CASE v = 0 -> "false" [] v = 1 -> "true" [] OTHER -> Bad

(* u8::try_from; -1 stands for the error. *)
pk_value_to_index_signed(pk) == IF pk <= 127 THEN pk ELSE -1
pk_value_to_index(pk) == IF pk \in 0..255 THEN pk ELSE -1

(* An entry, and why a row gives none.                                     *)
ColumnInfo(row) ==
  [column_id |-> row.cid, declared_type |-> row.type,
   type_affinity |-> type_affinity_to_atom(row.type),
   nullable |-> notnull_to_nullable(row.notnull),
   primary_key_index |-> pk_value_to_index(row.pk),
   hidden_kind |-> hidden_int_to_atom(row.hidden)]

ColumnError(row) ==
  IF \/ notnull_to_nullable(row.notnull) = Bad
     \/ pk_value_to_index(row.pk) = -1
     \/ hidden_int_to_atom(row.hidden) = Bad
  THEN "schema_parsing_error" ELSE "none"

ForeignKeyInfo_swapped(row) ==
  [id |-> row.id, column_sequence |-> row.seq, to_column |-> row.to,
   on_update |-> fk_action_to_atom(row.on_delete), on_delete |-> fk_action_to_atom(row.on_update),
   match_clause |-> fk_match_to_atom(row.match)]

ForeignKeyInfo(row) ==
  [id |-> row.id, column_sequence |-> row.seq, to_column |-> row.to,
   on_update |-> fk_action_to_atom(row.on_update), on_delete |-> fk_action_to_atom(row.on_delete),
   match_clause |-> fk_match_to_atom(row.match)]

(* `to` is read as a String, so NULL is a type error of rusqlite.          *)
ForeignKeyError(row) ==
  IF row.to = "NULL" THEN "invalid_column_type"
  ELSE IF Bad \in {fk_action_to_atom(row.on_update), fk_action_to_atom(row.on_delete),
                   fk_match_to_atom(row.match)}
  THEN "schema_parsing_error" ELSE "none"

IndexInfo(row) ==
  [origin |-> index_origin_to_atom(row.origin), unique |-> int_flag_to_bool(row.unique),
   partial |-> int_flag_to_bool(row.partial)]

IndexError(row) ==
  IF Bad \in {index_origin_to_atom(row.origin), int_flag_to_bool(row.unique),
              int_flag_to_bool(row.partial)}
  THEN "schema_parsing_error" ELSE "none"

IndexColumnInfo(row) ==
  [table_column_id |-> row.cid, name |-> row.name, sort_order |-> sort_order_to_atom(row.desc),
   is_key_column |-> int_flag_to_bool(row.key)]

IndexColumnError(row) ==
  IF Bad \in {sort_order_to_atom(row.desc), int_flag_to_bool(row.key)}
  THEN "schema_parsing_error" ELSE "none"

SchemaObjectInfo(row) ==
  [schema |-> row.schema, object_type |-> object_type_to_atom(row.type),
   is_without_rowid |-> int_flag_to_bool(row.wr)]

ObjectError(row) ==
  IF Bad \in {object_type_to_atom(row.type), int_flag_to_bool(row.wr)}
  THEN "schema_parsing_error" ELSE "none"

(* Row after row, up to the first that fails. *)
Translate(call, infos, errors) ==
  LET failing == {i \in DOMAIN errors : errors[i] # "none"}
  IN IF failing = {}
     THEN [call |-> call, ok |-> TRUE, rows |-> infos]
     ELSE [call |-> call, ok |-> FALSE,
           error |-> errors[CHOOSE i \in failing : \A j \in failing : i <= j]]

Calls == kind # "none" /\ UNCHANGED <<kind, keybase, cols, fks, indexes, objects>>

columns ==
  LET rows == TableXinfo
  IN /\ answer' = Translate(<<"columns">>, [i \in DOMAIN rows |-> ColumnInfo(rows[i])],
                                           [i \in DOMAIN rows |-> ColumnError(rows[i])])
     /\ Calls

foreign_keys ==
  LET rows == ForeignKeyList
  IN /\ answer' = Translate(<<"foreign_keys">>, [i \in DOMAIN rows |-> ForeignKeyInfo(rows[i])],
                                                [i \in DOMAIN rows |-> ForeignKeyError(rows[i])])
     /\ Calls

index_list ==
  LET rows == IndexList
  IN /\ answer' = Translate(<<"indexes">>, [i \in DOMAIN rows |-> IndexInfo(rows[i])],
                                           [i \in DOMAIN rows |-> IndexError(rows[i])])
     /\ Calls

index_columns(index) ==
  LET rows == IndexXinfo(index)
  IN /\ answer' = Translate(<<"index_columns", index>>,
                            [i \in DOMAIN rows |-> IndexColumnInfo(rows[i])],
                            [i \in DOMAIN rows |-> IndexColumnError(rows[i])])
     /\ Calls

(* A row of another schema is skipped before it is translated.             *)
list_objects(filter) ==
  LET rows == SelectSeq(objects, LAMBDA o : filter = "nil" \/ o.schema = filter)
  IN /\ answer' = Translate(<<"list_objects", filter>>,
                            [i \in DOMAIN rows |-> SchemaObjectInfo(rows[i])],
                            [i \in DOMAIN rows |-> ObjectError(rows[i])])
     /\ Calls

Actions == {"NO ACTION", "RESTRICT", "SET NULL", "SET DEFAULT", "CASCADE"}
Schemas == {"main", "temp"}

(* One action is translated like the other: two of them tell them apart.   *)
ForeignKeys == [to : {"named", "implicit"}, width : {1, 2},
                on_update : {"NO ACTION", "CASCADE"}, on_delete : Actions]

Next ==
  \/ \E k \in Kinds, base \in KeyBases : CreateTable(k, base)
  \/ /\ kind # "none" /\ Room
     /\ \/ \E type \in Types, shape \in Shapes : AddColumn(type, shape)
        \/ /\ "fk" \in Elements
           /\ \E fk \in ForeignKeys : AddForeignKey(fk)
        \/ /\ "index" \in Elements
           /\ \E origin \in {"c", "u", "pk"}, partial \in BOOLEAN, cid \in {-2, 0}, desc \in {0, 1} :
                AddIndex(origin, partial, cid, desc)
        \/ /\ "object" \in Elements
           /\ \E schema \in Schemas, type \in {"table", "view", "virtual", "shadow"}, wr \in {0, 1} :
                AddObject(schema, type, wr)
  \/ columns \/ foreign_keys \/ index_list
  \/ \E i \in DOMAIN indexes : index_columns(i)
  \/ \E filter \in Schemas \cup {"nil"} : list_objects(filter)

Spec == Init /\ [][Next]_vars
-----------------------------------------------------------------------------
Answered(call) == answer.ok /\ answer.call = call

(* schema_columns resolves affinities the way SQLite does: asking which    *)
(* words occur, in a fixed order, gives what SQLite's scan gives for every *)
(* order of the words.  Left out is the type ANY outside a STRICT table.   *)
AffinityIsSqlites ==
  Answered(<<"columns">>) => \A i \in DOMAIN cols :
    (cols[i].type = <<"ANY">> => kind = "strict") =>
      answer.rows[i].type_affinity = SqliteAffinity(cols[i].type)

(* What the atoms of an answer say. *)
HiddenOf == [normal |-> 0, hidden_alias |-> 1, virtual_generated |-> 2, stored_generated |-> 3]
ActionOf == [no_action |-> "NO ACTION", restrict |-> "RESTRICT", set_null |-> "SET NULL",
             set_default |-> "SET DEFAULT", cascade |-> "CASCADE"]
OriginOf == [create_index |-> "c", unique_constraint |-> "u", primary_key_constraint |-> "pk"]
FlagOf == [false |-> 0, true |-> 1]

(* An answer loses nothing: the columns, the foreign keys with their       *)
(* columns and actions, the indexes, the keys of an index and the objects  *)
(* of the schema asked for can be told from it, all of them and in         *)
(* SQLite's order.                                                         *)
AnswersLoseNothing ==
  /\ Answered(<<"columns">>) =>
       cols = [i \in DOMAIN answer.rows |-> LET r == answer.rows[i] IN
         [type |-> r.declared_type, notnull |-> IF r.nullable = "nullable" THEN 0 ELSE 1,
          key |-> r.primary_key_index # 0, hidden |-> HiddenOf[r.hidden_kind]]]
  /\ Answered(<<"foreign_keys">>) =>
       fks = [i \in DOMAIN fks |->
         LET mine == SelectSeq(answer.rows, LAMBDA r : r.id = Len(fks) - i) IN
         [to |-> "named", width |-> 1 + mine[Len(mine)].column_sequence,
          on_update |-> ActionOf[mine[1].on_update], on_delete |-> ActionOf[mine[1].on_delete]]]
  /\ Answered(<<"indexes">>) =>
       [i \in DOMAIN indexes |-> <<indexes[i].origin, indexes[i].unique, indexes[i].partial>>] =
         [i \in DOMAIN answer.rows |-> LET r == Reverse(answer.rows)[i] IN
           <<OriginOf[r.origin], FlagOf[r.unique], FlagOf[r.partial]>>]
  /\ \A i \in DOMAIN indexes : Answered(<<"index_columns", i>>) =>
       LET keys == SelectSeq(answer.rows, LAMBDA r : r.is_key_column = "true") IN
       indexes[i].keys = [k \in DOMAIN keys |->
         [cid |-> keys[k].table_column_id, desc |-> IF keys[k].sort_order = "asc" THEN 0 ELSE 1]]
  /\ \A s \in Schemas \cup {"nil"} : Answered(<<"list_objects", s>>) =>
       SelectSeq(objects, LAMBDA o : s \in {"nil", o.schema}) =
         [i \in DOMAIN answer.rows |-> LET r == answer.rows[i] IN
           [schema |-> r.schema, type |-> r.object_type, wr |-> FlagOf[r.is_without_rowid]]]

(* No call fails on a schema SQLite accepts, except schema_columns for a   *)
(* key of more than 255 columns (its index is a u8).  Of                   *)
(* schema_foreign_keys this is claimed only where every key names the      *)
(* columns of its parent: a plain `REFERENCES parent` has none, and the    *)
(* call fails on it (schema.rs:719) although ForeignKeyInfo documents a    *)
(* to_column that "Can be `nil`" (foreign_key_info.ex:16).                 *)
EverySchemaAnswered ==
  (answer.call # <<"none">> /\ ~answer.ok) =>
    \/ answer.call = <<"columns">> /\ \E i \in DOMAIN cols : TableXinfo[i].pk > 255
    \/ answer.call = <<"foreign_keys">> /\ \E i \in DOMAIN fks : fks[i].to = "implicit"

(* An introspection call answers the schema, all of it and as SQLite       *)
(* understands it.                                                         *)
SchemaIsAnswered == AffinityIsSqlites /\ AnswersLoseNothing /\ EverySchemaAnswered
=============================================================================
