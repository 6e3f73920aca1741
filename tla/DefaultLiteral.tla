--------------------------- MODULE DefaultLiteral ---------------------------
(***************************************************************************)
(* Column defaults (schema.rs): the text PRAGMA table_xinfo gives for a    *)
(* default is classified as a literal with a value, or kept as an          *)
(* expression, then encoded as an Elixir term and (in principle) decoded   *)
(* again.  A text is a sequence of characters; a keyword is one character  *)
(* here.  Integers are Width bits wide (64 in the code); a float is its    *)
(* text, infinite from exponent MaxExp on.                                 *)
(***************************************************************************)
EXTENDS Integers, SequencesExt

CONSTANTS
  Alphabet,   \* characters of the texts tried
  MaxText,    \* bound: length of a text
  Width,      \* bits of an integer
  MaxExp      \* exponents from here on overflow

VARIABLES raw, class, term
vars == <<raw, class, term>>

Keywords == {"NULL", "TRUE", "FALSE", "CURRENT_TIME", "CURRENT_DATE", "CURRENT_TIMESTAMP"}
Digits == {"0", "1", "8"}
HexDigits == Digits \cup {"a", "e"}
DigitValue(c) == CASE c = "0" -> 0 [] c = "1" -> 1 [] c = "8" -> 8 [] c = "a" -> 10 [] c = "e" -> 14

MinInt == -(2^(Width - 1))
MaxInt == 2^(Width - 1) - 1

All(s, set) == Range(s) \subseteq set
From(s, n) == SubSeq(s, n, Len(s))
StartsWith(s, c) == s # <<>> /\ s[1] = c
EndsWith(s, c) == s # <<>> /\ s[Len(s)] = c
Inner(s, n) == SubSeq(s, n, Len(s) - 1)
Split(s, c) ==   \* str::split_once
  LET at == SelectInSeq(s, LAMBDA x : x = c)
  IN  IF at = 0 THEN <<s>> ELSE <<SubSeq(s, 1, at - 1), From(s, at + 1)>>
Trim(s) ==
  LET ink == {i \in DOMAIN s : s[i] # " "}
  IN  IF ink = {} THEN <<>>
      ELSE SubSeq(s, CHOOSE i \in ink : \A j \in ink : i <= j, CHOOSE i \in ink : \A j \in ink : i >= j)

NotOne == <<"not one">>   \* None of the parsers

(* parse_text_literal: every quote inside must be one of a pair.           *)
Undouble(s) == FoldLeft(LAMBDA acc, c :
    IF acc.odd THEN [ok |-> acc.ok /\ c = "'", odd |-> FALSE, out |-> Append(acc.out, c)]
    ELSE IF c = "'" THEN [acc EXCEPT !.odd = TRUE]
    ELSE [acc EXCEPT !.out = Append(@, c)],
  [ok |-> TRUE, odd |-> FALSE, out |-> <<>>], s)

ParseTextLiteral_loneQuote(t) ==
  IF Len(t) >= 2 /\ StartsWith(t, "'") /\ EndsWith(t, "'")
  THEN <<"text", Undouble(Inner(t, 2)).out>> ELSE NotOne

ParseTextLiteral(t) ==
  LET u == Undouble(Inner(t, 2))
  IN  IF Len(t) >= 2 /\ StartsWith(t, "'") /\ EndsWith(t, "'") /\ u.ok /\ ~u.odd
      THEN <<"text", u.out>> ELSE NotOne

ParseBlobLiteral(t) ==
  LET inner == Inner(t, 3)
  IN  IF /\ Len(t) >= 3 /\ StartsWith(t, "x") /\ t[2] = "'" /\ EndsWith(t, "'")
         /\ Len(inner) % 2 = 0 /\ All(inner, HexDigits)
      THEN <<"blob", [k \in 1..(Len(inner) \div 2) |->
                        16 * DigitValue(inner[2 * k - 1]) + DigitValue(inner[2 * k])]>>
      ELSE NotOne

Unsigned(t) == IF StartsWith(t, "-") \/ StartsWith(t, "+") THEN From(t, 2) ELSE t
IsHex(body) == StartsWith(body, "0") /\ Len(body) >= 2 /\ body[2] = "x"

LooksLikeInt(t) ==
  LET body == Unsigned(t)
  IN  IF IsHex(body) THEN Len(body) > 2 /\ All(From(body, 3), HexDigits)
      ELSE body # <<>> /\ All(body, Digits)

(* The number a digit string denotes. *)
Number(s, base) == FoldLeft(LAMBDA n, c : base * n + DigitValue(c), 0, s)

(* Hex is two's complement and may not exceed Width bits; a negated one    *)
(* may overflow.  Decimal is parsed with its sign.                         *)
ParseIntLiteral_signSplit(t) ==
  LET neg == StartsWith(t, "-")
      body == Unsigned(t)
      n == Number(body, 10)
      hex == Number(From(body, 3), 16)
      signed == IF hex > MaxInt THEN hex - 2^Width ELSE hex
  IN  IF IsHex(body)
      THEN IF hex >= 2^Width \/ (neg /\ signed = MinInt) THEN NotOne
           ELSE <<"int", IF neg THEN -signed ELSE signed>>
      ELSE IF n > MaxInt THEN NotOne ELSE <<"int", IF neg THEN -n ELSE n>>

ParseIntLiteral(t) ==
  LET neg == StartsWith(t, "-")
      body == Unsigned(t)
      n == IF neg THEN -Number(body, 10) ELSE Number(body, 10)
      hex == Number(From(body, 3), 16)
      signed == IF hex > MaxInt THEN hex - 2^Width ELSE hex
  IN  IF IsHex(body)
      THEN IF hex >= 2^Width \/ (neg /\ signed = MinInt) THEN NotOne
           ELSE <<"int", IF neg THEN -signed ELSE signed>>
      ELSE IF n \in MinInt..MaxInt THEN <<"int", n>> ELSE NotOne

(* Digits with a point or an exponent or both, and finite.                 *)
IsFinite(t) ==
  LET parts == Split(Unsigned(t), "e")
  IN  \/ Len(parts) = 1 \/ StartsWith(parts[2], "-")
      \/ Number(Unsigned(parts[2]), 10) < MaxExp
      \/ All(parts[1], {"0", "."})

FloatShape(t) ==
  LET body == Unsigned(t)
      parts == Split(body, "e")
      mantissa == Split(parts[1], ".")
      exponent == IF Len(parts) = 1 THEN <<"0">> ELSE Unsigned(parts[2])
  IN  /\ \A k \in DOMAIN mantissa : All(mantissa[k], Digits)
      /\ \E k \in DOMAIN mantissa : mantissa[k] # <<>>
      /\ Len(parts) = 2 \/ Len(mantissa) = 2
      /\ exponent # <<>> /\ All(exponent, Digits)

ParseFloatLiteral(t) == IF FloatShape(t) /\ IsFinite(t) THEN <<"float", t>> ELSE NotOne

(* classify_default: the first parser that takes the text; an integer that *)
(* does not fit stays an expression, it does not become a float.           *)
NoDefault == <<"no default">>
ClassifyDefault(s) ==
  LET t == Trim(s) IN
  CASE s = NoDefault -> <<"none", 0>>
    [] Len(t) = 1 /\ t[1] \in Keywords -> <<"keyword", t[1]>>
    [] ParseTextLiteral(t) # NotOne -> ParseTextLiteral(t)
    [] ParseBlobLiteral(t) # NotOne -> ParseBlobLiteral(t)
    [] LooksLikeInt(t) -> IF ParseIntLiteral(t) # NotOne THEN ParseIntLiteral(t) ELSE <<"expr", s>>
    [] ParseFloatLiteral(t) # NotOne -> ParseFloatLiteral(t)
    [] OTHER -> <<"expr", s>>

(* The Encoder: a tag and an Elixir term, whose type is its first part.    *)
Atom(name) == <<"atom", name>>
Encode(c) ==
  CASE c[1] = "none" -> Atom("none")
    [] c[1] = "keyword" /\ c[2] = "NULL" -> <<"literal", Atom("nil")>>
    [] c[1] = "keyword" /\ c[2] \in {"TRUE", "FALSE"} -> <<"literal", Atom(c[2])>>
    [] c[1] = "keyword" /\ c[2] \notin {"NULL", "TRUE", "FALSE"} -> <<"current", Atom(c[2])>>
    [] c[1] = "int" -> <<"literal", <<"integer", c[2]>>>>
    [] c[1] = "float" -> <<"literal", <<"float", c[2]>>>>
    [] c[1] = "text" -> <<"literal", <<"binary", c[2]>>>>
    [] c[1] \in {"blob", "expr"} -> <<c[1], <<"binary", c[2]>>>>

BadArg == <<"badarg", 0>>

(* The Decoder; booleans are atoms and are looked for before nil.          *)
DecodeLiteral_atomsFirst(v) ==
  IF v[1] = "atom" THEN IF v[2] = "nil" THEN <<"keyword", "NULL">> ELSE BadArg
  ELSE IF v[1] = "integer" THEN <<"int", v[2]>>
  ELSE IF v[1] = "float" THEN v
  ELSE <<"text", v[2]>>

DecodeLiteral(v) ==
  IF v[1] = "atom" /\ v[2] \in {"TRUE", "FALSE"} THEN <<"keyword", v[2]>>
  ELSE IF v[1] = "atom" THEN IF v[2] = "nil" THEN <<"keyword", "NULL">> ELSE BadArg
  ELSE IF v[1] = "integer" THEN <<"int", v[2]>>
  ELSE IF v[1] = "float" THEN v
  ELSE <<"text", v[2]>>

Decode(e) ==
  CASE e[1] = "atom" -> IF e[2] = "none" THEN <<"none", 0>> ELSE BadArg
    [] e[1] = "literal" -> DecodeLiteral(e[2])
    [] e[1] = "current" -> IF e[2][2] \in Keywords THEN <<"keyword", e[2][2]>> ELSE BadArg
    [] e[1] \in {"blob", "expr"} -> <<e[1], e[2][2]>>
    [] OTHER -> BadArg

Texts == BoundedSeq(Alphabet, MaxText) \cup {NoDefault}
  \cup {<<k>> : k \in Keywords} \cup {<<" ", k, " ">> : k \in Keywords} \cup {<<"'", k, "'">> : k \in Keywords}

Unread == <<"unread", 0>>
Init == raw = NoDefault /\ class = Unread /\ term = Unread

Classify(s) ==
  /\ raw' = s /\ class' = ClassifyDefault(s) /\ term' = Encode(ClassifyDefault(s))

Next == class = Unread /\ \E s \in Texts : Classify(s)

Spec == Init /\ [][Next]_vars
-----------------------------------------------------------------------------
(* SQL's own writing of a text value. *)
Quote(s) == <<"'">> \o FoldLeft(LAMBDA acc, c : acc \o (IF c = "'" THEN <<c, c>> ELSE <<c>>), <<>>, s) \o <<"'">>

(* What SQLite reads an integer literal as: hex modulo 2^Width.            *)
Denotes(n, t) ==
  LET body == Unsigned(t)
      sign == IF StartsWith(t, "-") THEN -1 ELSE 1
  IN  /\ n \in MinInt..MaxInt
      /\ IF IsHex(body) THEN (n - sign * Number(From(body, 3), 16)) % (2^Width) = 0
         ELSE n = sign * Number(body, 10)

(* A default reported as a literal is that literal to SQLite: the text     *)
(* value quotes back to the column's default, the integer is the one       *)
(* SQLite reads (two's complement for hex), the blob's bytes are its       *)
(* digits, and a float is never an integer that was too large.             *)
LiteralIsSound == LET t == Trim(raw) IN
  /\ class[1] = "text" => Quote(class[2]) = t
  /\ class[1] = "int" => Denotes(class[2], t)
  /\ class[1] = "blob" => Number(Inner(t, 3), 16) = FoldLeft(LAMBDA n, b : 256 * n + b, 0, class[2])
  /\ class[1] = "float" => ~LooksLikeInt(t)

(* And a default that is a literal SQLite can hold is reported as one: an  *)
(* expression is no quoting of a text, and if it has the shape of an       *)
(* integer, no integer of Width bits is what SQLite reads it as, except    *)
(* for the two hex literals SQLite itself refuses: one of more than Width  *)
(* bits, and the least integer negated.                                    *)
LiteralIsComplete == class[1] = "expr" =>
  LET t == Trim(raw) IN
  /\ (StartsWith(t, "'") /\ EndsWith(t, "'") /\ Len(t) >= 2)
       => \A s \in BoundedSeq(Alphabet, Len(t) - 2) : Quote(s) # t
  /\ LooksLikeInt(t) => \/ \A n \in MinInt..MaxInt : ~Denotes(n, t)
                        \/ LET hex == Number(From(Unsigned(t), 3), 16) IN
                           IsHex(Unsigned(t)) /\ (hex >= 2^Width \/ (StartsWith(t, "-") /\ hex = 2^(Width - 1)))

(* "mirrors the Encoder exactly": decoding an encoded default gives the    *)
(* default back, whichever Elixir type its value became.                   *)
DecoderMirrorsEncoder == class # Unread => Decode(term) = class

(* A column's default arrives as SQLite reads it: every literal as its     *)
(* value, nothing else as a literal, and unchanged by the encoding.        *)
DefaultIsSqlites == LiteralIsSound /\ LiteralIsComplete /\ DecoderMirrorsEncoder
=============================================================================
