------------------------------- MODULE Values -------------------------------
(***************************************************************************)
(* The two conversions every value passes through (util.rs): an Elixir     *)
(* term to a SQLite value when it is bound, a SQLite value to an Elixir    *)
(* term when a row is read.  Terms and values are named by what the        *)
(* conversions tell apart; an integer other than 0 and 1 is "int", a valid *)
(* UTF-8 binary "text", another binary "bytes", one too long for SQLite    *)
(* "huge".                                                                 *)
(***************************************************************************)
EXTENDS Sequences

AllTerms == {"nil", "true", "false", "atom", "0", "1", "int", "bignum", "float",
             "text", "bytes", "huge", "tuple"}

(* Values a column can hold; the last four never come from a parameter:    *)
(* a blob of valid UTF-8, an infinity of either sign, TEXT that is not     *)
(* valid UTF-8.                                                            *)
Stored == {"NULL", "0", "1", "int", "float", "text", "bytes",
           "utf8_blob", "+inf", "-inf", "bad_text"}

(* elixir_term_to_rusqlite_value: a term, or the error it is refused with. *)
ToSqlite(term) ==
  CASE term = "nil" -> "NULL"
    [] term = "true" -> "1"
    [] term = "false" -> "0"
    [] term = "atom" -> "unsupported_atom"
    [] term = "bignum" -> "cannot_convert_to_sqlite_value"
    [] term = "tuple" -> "unsupported_data_type"
    [] OTHER -> term

Refusals == {"unsupported_atom", "cannot_convert_to_sqlite_value", "unsupported_data_type"}
Converts(term) == ToSqlite(term) \notin Refusals

(* encode_f64: the BEAM has no infinities. *)
EncodeF64(value) ==
  CASE value = "+inf" -> "positive_infinity"
    [] value = "-inf" -> "negative_infinity"
    [] OTHER -> value

(* encode_val on the values rusqlite hands out: it refuses TEXT that is    *)
(* not valid UTF-8 before encode_val sees it.                              *)
EncodeVal(value) ==
  CASE value = "NULL" -> "nil"
    [] value \in {"float", "+inf", "-inf"} -> EncodeF64(value)
    [] value = "bad_text" -> "error"
    [] OTHER -> value

(* One column of sqlite_row_to_elixir_terms, the reader of stepped rows.   *)
ColumnToTerm_rawDouble(value) ==
  CASE value = "NULL" -> "nil"
    [] value \in {"+inf", "-inf"} -> "error"
    [] value = "bad_text" -> "error"
    [] OTHER -> value

ColumnToTerm(value) ==
  CASE value = "NULL" -> "nil"
    [] value \in {"float", "+inf", "-inf"} -> EncodeF64(value)
    [] value = "bad_text" -> "error"
    [] OTHER -> value

(* A row is handed out whole or not at all. *)
NoRow == <<"error">>
RowOf(terms) == IF \E i \in DOMAIN terms : terms[i] = "error" THEN NoRow ELSE terms

ProcessRow(row) == RowOf([i \in DOMAIN row |-> EncodeVal(row[i])])
SteppedRow(row) == RowOf([i \in DOMAIN row |-> ColumnToTerm(row[i])])
=============================================================================
