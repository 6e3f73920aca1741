--------------------------- MODULE Features_proofs ---------------------------
(***************************************************************************)
(* Proofs about the optional features of a connection.                     *)
(*   - ExtensionGate, for any number of threads and calls.                 *)
(*     FlagMirrorsSwitch is not inductive by itself: it takes that only    *)
(*     the holder of the mutex can be between telling SQLite and storing   *)
(*     the flag, and that the last answer given is SQLite's switch         *)
(*     whenever nobody is.                                                 *)
(*   - Authorizer, for any actions and statements: what the last accepted  *)
(*     list denies is denied of every statement prepared since.            *)
(*   - BlobIO, for any widths, blobs and data: a live handle knows the     *)
(*     length of its row, which fits a c_int, whatever is written.         *)
(*   - Changeset, for any keys and values: the invariant relates what is   *)
(*     still pending, the replica as it was and the replica as it is.      *)
(*   - ExplainAnalyze, for any statement: what the call has by each stage. *)
(***************************************************************************)
EXTENDS MCFeatures, SequenceTheorems, TLAPS

(* The shape of the state, as far as the proof needs it. *)
TypeInv ==
  /\ pc \in [Threads -> {"idle", "enable", "store", "load", "ask"}]
  /\ want \in [Threads -> BOOLEAN]
  /\ mutex \in Threads \cup {Nobody}
  /\ answer \in [Threads -> {"none", "disabled", "loaded", "error"}]

IInv ==
  /\ TypeInv
  /\ FlagMirrorsSwitch
  /\ \A t \in Threads : mutex = t => pc[t] = "store"
  /\ mutex = Nobody => agreed = switch

(* Every step keeps the invariant. *)
LEMMA InvStep ==
  ASSUME IInv, [Next]_vars
  PROVE  IInv'
<1> USE NobodyAssumption DEF IInv, TypeInv, FlagMirrorsSwitch
<1>0. CASE UNCHANGED vars
      BY <1>0 DEF vars
<1>1. ASSUME NEW t \in Threads, NEW on \in BOOLEAN, CallEnable(t, on)
      PROVE  IInv'
      BY <1>1 DEF CallEnable
<1>2. ASSUME NEW t \in Threads, TellSqlite(t)
      PROVE  IInv'
      BY <1>2 DEF TellSqlite
<1>3. ASSUME NEW t \in Threads, SqliteRefuses(t)
      PROVE  IInv'
      BY <1>3, Zenon DEF SqliteRefuses, Returns
<1>4. ASSUME NEW t \in Threads, StoreFlag(t)
      PROVE  IInv'
      BY <1>4, Zenon DEF StoreFlag, Returns
<1>5. ASSUME NEW t \in Threads, CallLoad(t)
      PROVE  IInv'
      BY <1>5 DEF CallLoad
<1>6. ASSUME NEW t \in Threads, ReadFlag(t)
      PROVE  IInv'
      BY <1>6 DEF ReadFlag, Returns
<1>7. ASSUME NEW t \in Threads, AskSqlite(t)
      PROVE  IInv'
      BY <1>7 DEF AskSqlite, Returns
<1> QED BY <1>0, <1>1, <1>2, <1>3, <1>4, <1>5, <1>6, <1>7 DEF Next

(* A load that succeeds finds the mutex free and SQLite's switch on, and   *)
(* with the mutex free the switch is what was last agreed.                 *)
LEMMA LoadStep ==
  ASSUME IInv, [Next]_vars, NEW t \in Threads, answer[t] # "loaded", answer'[t] = "loaded"
  PROVE  agreed
<1>1. PICK u \in Threads : AskSqlite(u) /\ u = t
      BY DEF IInv, TypeInv, Next, vars, CallEnable, TellSqlite, SqliteRefuses, StoreFlag, CallLoad,
             ReadFlag, AskSqlite
<1>2. switch /\ mutex = Nobody
      BY <1>1 DEF AskSqlite, IInv, TypeInv
<1> QED BY <1>2 DEF IInv

(* Init, and hence every reachable state, satisfies the invariant. *)
THEOREM Invariant == Spec => []IInv
<1>1. Init => IInv
      BY NobodyAssumption, Zenon DEF Init, IInv, TypeInv, FlagMirrorsSwitch
<1>2. IInv /\ [Next]_vars => IInv'
      BY InvStep
<1> QED BY <1>1, <1>2, PTL DEF Spec

(* With the mutex free, extensions_enabled is SQLite's own switch. *)
THEOREM FlagFaithful == Spec => []FlagMirrorsSwitch
<1>1. IInv => FlagMirrorsSwitch
      BY DEF IInv
<1> QED BY Invariant, <1>1, PTL

(* load_extension never succeeds after enable_load_extension(false) has    *)
(* returned, although it reads the flag before it takes the mutex.         *)
THEOREM DisabledForGood == Spec => DisabledMeansNoLoad
<1>1. IInv /\ [Next]_vars =>
        [\A t \in Threads : (answer[t] # "loaded" /\ answer'[t] = "loaded") => agreed]_vars
      BY LoadStep
<1> QED BY Invariant, <1>1, PTL DEF Spec, DisabledMeansNoLoad

(* The gate of extension loading holds for any number of threads and calls *)
(* (enable_load_extension, load_extension).                                *)
THEOREM GateSafe == Spec => GateHolds
<1> QED BY FlagFaithful, DisabledForGood, PTL DEF GateHolds
-----------------------------------------------------------------------------
(* The authorizer.  What makes ListInForce inductive is that no list is    *)
(* left behind where no authorizer is installed.                           *)
AuthInv ==
  /\ st \in [Stmts -> {"none", "ready", "running"}]
  /\ attempts \in [Stmts -> SUBSET U!Codes] /\ expired \in [Stmts -> BOOLEAN]
  /\ U!ListInForce
  /\ ~installed => asked = {}

(* A statement that is prepared, or prepared again, has passed the list.   *)
LEMMA PassedTheList ==
  ASSUME AuthInv, NEW codes, ~U!Denies(codes)
  PROVE  \A c \in codes : U!AtomFor(c) \notin asked
BY Zenon DEF AuthInv, U!ListInForce, U!Denies, U!Of, U!AtomFor

(* Every call keeps the invariant. *)
LEMMA AuthStep ==
  ASSUME AuthInv, [U!Next]_U!vars
  PROVE  AuthInv'
<1> USE DEF AuthInv, U!ListInForce
<1>0. CASE UNCHANGED U!vars
      BY <1>0, Zenon DEF U!vars, U!AtomFor
<1>1. ASSUME NEW atoms \in SUBSET U!Atoms, U!SetAuthorizer(atoms)
      PROVE  AuthInv'
      BY <1>1, Zenon DEF U!SetAuthorizer, U!Install, U!AtomFor
<1>2. CASE U!RemoveAuthorizer
      BY <1>2 DEF U!RemoveAuthorizer, U!AtomFor
<1>3. ASSUME NEW s \in Stmts, NEW codes \in SUBSET U!Codes, U!Prepare(s, codes)
      PROVE  AuthInv'
      BY <1>3, PassedTheList, Zenon DEF U!Prepare
<1>4. ASSUME NEW s \in Stmts, U!Start(s)
      PROVE  AuthInv'
      BY <1>4, PassedTheList, Zenon DEF U!Start
<1>5. ASSUME NEW s \in Stmts, U!Finish(s)
      PROVE  AuthInv'
      BY <1>5 DEF U!Finish
<1>6. ASSUME NEW s \in Stmts, U!Finalize(s)
      PROVE  AuthInv'
      BY <1>6 DEF U!Finalize, U!Reset
<1> QED BY <1>0, <1>1, <1>2, <1>3, <1>4, <1>5, <1>6, Zenon DEF U!Next

(* Only a start makes a ready statement run, and it has passed the list:   *)
(* now, if it was expired, or when it was prepared.                        *)
LEMMA StartPassed ==
  ASSUME AuthInv, U!Next, NEW s \in Stmts, st[s] = "ready", st'[s] = "running"
  PROVE  \A c \in attempts[s] : U!AtomFor(c) \notin asked
<1>1. U!Start(s)
      BY DEF AuthInv, U!Next, U!SetAuthorizer, U!RemoveAuthorizer, U!Prepare, U!Start, U!Finish,
             U!Finalize, U!Reset
<1> QED BY <1>1, PassedTheList DEF U!Start, AuthInv, U!ListInForce

(* The deny list decides, for any action codes, any lists and any number   *)
(* of statements: the closure SQLite asks owns the list last accepted, and *)
(* no statement that list denies begins to run (set_authorizer,            *)
(* remove_authorizer, the closure of authorizer::set).                     *)
THEOREM DenyListDecides == U!Spec => DenyListHolds
<1>1. U!Init => AuthInv
      BY DEF U!Init, AuthInv, U!ListInForce, U!Codes
<1>2. AuthInv /\ [U!Next]_U!vars => AuthInv'
      BY AuthStep
<1>3. AuthInv => U!ListInForce
      BY DEF AuthInv
<1>4. AuthInv /\ [U!Next]_U!vars =>
        [\A s \in Stmts : (st[s] = "ready" /\ st'[s] = "running") =>
           \A c \in attempts[s] : U!AtomFor(c) \notin asked]_U!vars
      BY StartPassed
<1>5. AuthInv /\ [U!Next]_U!vars => [U!ListInForce']_U!vars
      BY <1>2 DEF AuthInv
<1> QED BY <1>1, <1>2, <1>3, <1>4, <1>5, PTL
         DEF U!Spec, DenyListHolds, U!DenyListHolds, U!DeniedNeverStarts
-----------------------------------------------------------------------------
(* Incremental blobs.  The size a handle knows is one a c_int can say, so  *)
(* the casts of what is clamped to it are safe; while the handle is live   *)
(* it is the length of the row, so the clamp is to the row.                *)
Sizes == {s \in Seq({0, 1}) : Len(s) < 2^(IntBits - 1)}

BlobInv ==
  /\ rows \in [DOMAIN rows -> Sizes]
  /\ size \in Nat /\ size < 2^(IntBits - 1)
  /\ blob = "live" => row \in DOMAIN rows /\ size = Len(rows[row])

(* A number that a c_int can say is cast to itself. *)
LEMMA CastKeeps ==
  ASSUME NEW n \in Nat, n < 2^(IntBits - 1)
  PROVE  B!CInt(n) = n
<1>1. ASSUME NEW d \in Nat, n < d
      PROVE  n % d = n
      BY <1>1
<1>2. B!Bits(n, IntBits) = n
      BY <1>1, WidthAssumption DEF B!Bits
<1> QED BY <1>2, WidthAssumption DEF B!CInt

(* Writing over a part of a blob keeps its length. *)
LEMMA OverlayKeeps ==
  ASSUME NEW s \in Seq({0, 1}), NEW at \in Nat, NEW data \in Seq({0, 1})
  PROVE  /\ B!Overlay(s, at, data) \in Seq({0, 1})
         /\ Len(B!Overlay(s, at, data)) = Len(s)
<1>1. B!Overlay(s, at, data) \in [1..Len(s) -> {0, 1}]
      BY DEF B!Overlay
<1> QED BY <1>1

(* What callers pass. *)
LEMMA ArgIsNat ==
  ASSUME NEW n \in Args
  PROVE  n \in Nat
BY ArgsAssumption, WidthAssumption

(* What is written fits, in the row and in a c_int, if SQLite takes it:    *)
(* the saturating sum hides nothing.                                       *)
LEMMA WriteFits ==
  ASSUME BlobInv, NEW offset \in Args, NEW data \in Chunks,
         ~B!TooLong(offset, data), blob = "live"
  PROVE  /\ offset \in Nat /\ offset + Len(data) <= Len(rows[row])
         /\ B!CInt(offset) = offset /\ B!CInt(Len(data)) = Len(data)
<1>1. offset \in Nat /\ data \in Seq({0, 1}) /\ Len(data) \in Nat
      BY ArgIsNat, ChunksAssumption
<1>2. size = Len(rows[row]) /\ size \in Nat /\ size < 2^(IntBits - 1)
      BY DEF BlobInv
<1>3. offset + Len(data) <= size
      BY <1>1, <1>2, WidthAssumption DEF B!TooLong, B!SaturatingAdd, B!Lesser, B!BlobBytes
<1> QED BY <1>1, <1>2, <1>3, CastKeeps, WidthAssumption

(* Every step keeps the invariant: a statement that changes the row of a   *)
(* handle also makes it expire.                                            *)
LEMMA BlobStep ==
  ASSUME BlobInv, [B!Next]_B!vars
  PROVE  BlobInv'
<1> USE DEF BlobInv
<1>0. CASE UNCHANGED B!vars
      BY <1>0, Zenon DEF B!vars
<1>1. CASE B!Close \/ B!CloseConnection \/ B!Return
  <2>1. UNCHANGED <<rows, row, size>> /\ (blob' = "live" => blob = "live")
        BY <1>1 DEF B!Close, B!CloseConnection, B!Return
  <2> QED BY <2>1, Zenon
<1>2. ASSUME NEW offset, NEW length, B!Read(offset, length)
      PROVE  BlobInv'
  <2>1. UNCHANGED <<rows, row, size>> /\ (blob' = "live" => blob = "live")
        BY <1>2 DEF B!Read, B!Touched
  <2> QED BY <2>1, Zenon
<1>3. ASSUME NEW offset \in Args, NEW data \in Chunks, B!Write(offset, data)
      PROVE  BlobInv'
  <2>1. /\ UNCHANGED <<row, size>> /\ (blob' = "live" => blob = "live")
        /\ \/ rows' = rows
           \/ /\ ~B!TooLong(offset, data) /\ B!Refusal(B!CInt(offset), B!CInt(Len(data))) = "ok"
              /\ rows' = [rows EXCEPT ![row] = B!Overlay(@, B!CInt(offset), data)]
        BY <1>3 DEF B!Write, B!Touched
  <2>2. CASE rows' = rows
        BY <2>1, <2>2, Zenon
  <2>3. CASE /\ ~B!TooLong(offset, data) /\ B!Refusal(B!CInt(offset), B!CInt(Len(data))) = "ok"
             /\ rows' = [rows EXCEPT ![row] = B!Overlay(@, B!CInt(offset), data)]
    <3>1. blob = "live"
          BY <2>3 DEF B!Refusal
    <3>2. offset \in Nat /\ B!CInt(offset) = offset /\ data \in Seq({0, 1})
          BY <2>3, <3>1, WriteFits, ChunksAssumption
    <3>3. row \in DOMAIN rows /\ rows[row] \in Seq({0, 1}) /\ Len(rows[row]) < 2^(IntBits - 1)
          BY <3>1 DEF Sizes
    <3>4. /\ B!Overlay(rows[row], offset, data) \in Sizes
          /\ Len(B!Overlay(rows[row], offset, data)) = Len(rows[row])
          BY <3>2, <3>3, OverlayKeeps DEF Sizes
    <3> QED BY <2>1, <2>3, <3>1, <3>2, <3>3, <3>4
  <2> QED BY <2>1, <2>2, <2>3, Zenon
<1>4. ASSUME NEW to, B!Reopen(to)
      PROVE  BlobInv'
  <2>1. to \in DOMAIN rows => Len(rows[to]) \in Nat /\ Len(rows[to]) < 2^(IntBits - 1)
        BY DEF Sizes
  <2> QED BY <1>4, <2>1 DEF B!Reopen
<1>5. ASSUME NEW r, NEW ro, B!Open(r, ro)
      PROVE  BlobInv'
  <2>1. r \in DOMAIN rows => Len(rows[r]) \in Nat /\ Len(rows[r]) < 2^(IntBits - 1)
        BY DEF Sizes
  <2> QED BY <1>5, <2>1 DEF B!Open
<1>6. ASSUME NEW r, NEW content \in Contents, B!UpdateRow(r, content)
      PROVE  BlobInv'
  <2>1. content \in Sizes
        BY ContentsAssumption DEF Sizes
  <2> QED BY <1>6, <2>1 DEF B!UpdateRow, B!Expires
<1>7. ASSUME NEW r, B!DeleteRow(r)
      PROVE  BlobInv'
      BY <1>7 DEF B!DeleteRow, B!Expires
<1> QED BY <1>0, <1>1, <1>2, <1>3, <1>4, <1>5, <1>6, <1>7, Zenon DEF B!Next, B!Call

(* A read of a live handle answers its range, clamped to the row: neither  *)
(* the clamp nor a cast moves it.  Of another handle it answers no byte,   *)
(* and fails unless it is asked for nothing.                               *)
LEMMA ReadRange ==
  ASSUME BlobInv, NEW offset \in Args, NEW length \in Args, B!Read(offset, length)
  PROVE  LET end == B!Lesser(offset + length, Len(rows[row]))
         IN  IF blob = "live"
             THEN last'.result = "ok" /\ last'.data = SubSeq(rows[row], offset + 1, end)
             ELSE /\ last'.data = <<>>
                  /\ last'.result = "ok" <=> blob = "aborted" \/ offset >= size \/ length = 0
<1> DEFINE n == B!ActualLen(offset, length)
           refused == B!Refusal(B!CInt(offset), B!CInt(n))
           end == B!Lesser(offset + length, Len(rows[row]))
           bytes == SubSeq(rows[row], offset + 1, end)
<1>1. /\ offset \in Nat /\ length \in Nat /\ size \in Nat /\ size < 2^(IntBits - 1)
      /\ blob = "live" => rows[row] \in Seq({0, 1}) /\ Len(rows[row]) = size
      BY ArgIsNat DEF BlobInv, Sizes
<1>2. /\ n = 0 <=> blob = "aborted" \/ offset >= size \/ length = 0
      /\ n # 0 => n \in Nat /\ offset + n <= size /\ offset + n = B!Lesser(offset + length, size)
      BY <1>1 DEF B!ActualLen, B!BlobBytes, B!Lesser
<1>3. CASE n = 0
  <2>1. last'.result = "ok" /\ last'.data = <<>>
    <3>1. last' = B!Answer("read", "ok", offset, length, <<>>)
          BY <1>3, Zenon DEF B!Read
    <3> QED BY <3>1 DEF B!Answer
  <2>2. ASSUME blob = "live"
        PROVE  bytes = <<>>
    <3>1. end \in Nat /\ end <= offset
          BY <1>1, <1>2, <1>3, <2>2 DEF B!Lesser
    <3> QED BY <1>1, <2>2, <3>1
  <2> QED BY <1>2, <1>3, <2>1, <2>2, Zenon
<1>4. CASE n # 0
  <2>1. B!CInt(offset) = offset /\ B!CInt(n) = n
        BY <1>1, <1>2, <1>4, CastKeeps, WidthAssumption
  <2>2. refused = IF blob # "live" THEN "abort" ELSE "ok"
        BY <1>1, <1>2, <1>4, <2>1 DEF B!Refusal
  <2>3. last' = B!Answer("read", refused, offset, length,
                  IF refused = "ok" THEN SubSeq(rows[row], B!CInt(offset) + 1, B!CInt(offset) + B!CInt(n)) ELSE <<>>)
        BY <1>4, Zenon DEF B!Read
  <2>4. CASE blob = "live"
    <3>1. offset + n = end
          BY <1>1, <1>2, <1>4, <2>4
    <3>2. last'.result = refused /\ (refused = "ok" => last'.data = bytes)
          BY <2>1, <2>3, <3>1, Zenon DEF B!Answer
    <3> QED BY <2>2, <2>4, <3>2
  <2>5. CASE blob # "live"
    <3>1. last'.result = "abort" /\ last'.data = <<>>
          BY <2>2, <2>3, <2>5 DEF B!Answer
    <3> QED BY <1>2, <1>4, <2>5, <3>1
  <2> QED BY <2>4, <2>5
<1> QED BY <1>3, <1>4, Zenon

(* A write touches its range if it succeeds, and nothing otherwise. *)
LEMMA WriteRange ==
  ASSUME BlobInv, NEW offset \in Args, NEW data \in Chunks, B!Write(offset, data)
  PROVE  IF last'.result = "ok"
         THEN /\ offset + Len(data) <= Len(rows[row]) /\ ~readOnly /\ blob = "live"
              /\ rows' = [rows EXCEPT ![row] = [k \in DOMAIN @ |->
                   IF k \in (offset + 1)..(offset + Len(data)) THEN data[k - offset] ELSE @[k]]]
         ELSE rows' = rows
<1> DEFINE refusal == B!Refusal(B!CInt(offset), B!CInt(Len(data)))
           refused == IF B!TooLong(offset, data) THEN "size"
                      ELSE IF refusal # "ok" THEN refusal ELSE IF readOnly THEN "readonly" ELSE "ok"
<1>1. /\ last' = B!Answer("write", refused, offset, Len(data), data)
      /\ rows' = IF refused = "ok" THEN [rows EXCEPT ![row] = B!Overlay(@, B!CInt(offset), data)] ELSE rows
      BY Zenon DEF B!Write
<1>2. last'.result = refused
      BY <1>1 DEF B!Answer
<1>3. CASE refused = "ok"
  <2>1. ~B!TooLong(offset, data) /\ refusal = "ok" /\ ~readOnly
        BY <1>3
  <2>2. blob = "live"
        BY <2>1 DEF B!Refusal
  <2>3. /\ offset \in Nat /\ offset + Len(data) <= Len(rows[row]) /\ B!CInt(offset) = offset
        /\ data \in Seq({0, 1}) /\ rows[row] \in Seq({0, 1})
        BY <2>1, <2>2, WriteFits, ChunksAssumption DEF BlobInv, Sizes
  <2>4. B!Overlay(rows[row], offset, data) =
          [k \in DOMAIN rows[row] |->
             IF k \in (offset + 1)..(offset + Len(data)) THEN data[k - offset] ELSE rows[row][k]]
        BY <2>3 DEF B!Overlay
  <2> QED BY <1>1, <1>2, <1>3, <2>1, <2>2, <2>3, <2>4
<1> QED BY <1>1, <1>2, <1>3

(* Only a read answers as a read and only a write as a write. *)
LEMMA WhoAnswers ==
  ASSUME [B!Next]_B!vars, last' # last
  PROVE  /\ last'.op = "read" =>
              \E offset, length \in Args :
                B!Read(offset, length) /\ last'.offset = offset /\ last'.length = length
         /\ last'.op = "write" =>
              \E offset \in Args, data \in Chunks :
                /\ B!Write(offset, data) /\ last'.offset = offset /\ last'.length = Len(data)
                /\ last'.data = data
<1>0. B!Next
      BY Zenon DEF B!vars
<1>1. ASSUME NEW offset \in Args, NEW length \in Args, B!Read(offset, length)
      PROVE  last'.op = "read" /\ last'.offset = offset /\ last'.length = length
  <2>1. \E r, d : last' = B!Answer("read", r, offset, length, d)
        BY <1>1, Zenon DEF B!Read
  <2> QED BY <2>1 DEF B!Answer
<1>2. ASSUME NEW offset \in Args, NEW data \in Chunks, B!Write(offset, data)
      PROVE  last'.op = "write" /\ last'.offset = offset /\ last'.length = Len(data) /\ last'.data = data
  <2>1. \E r : last' = B!Answer("write", r, offset, Len(data), data)
        BY <1>2, Zenon DEF B!Write
  <2> QED BY <2>1 DEF B!Answer
<1>3. CASE B!Close \/ B!CloseConnection \/ B!Return
      BY <1>3 DEF B!Close, B!CloseConnection, B!Return, B!Answer, B!NoAnswer
<1>4. CASE \E r \in Rowids : B!Reopen(r) \/ B!DeleteRow(r)
      BY <1>4 DEF B!Reopen, B!DeleteRow, B!Answer
<1>5. CASE \/ \E r \in Rowids, ro \in BOOLEAN : B!Open(r, ro)
           \/ \E r \in Rowids, content \in Contents : B!UpdateRow(r, content)
      BY <1>5, Zenon DEF B!Open, B!UpdateRow
<1> QED BY <1>0, <1>1, <1>2, <1>3, <1>4, <1>5, Zenon DEF B!Next, B!Call

(* Reads and writes of a blob touch exactly their range, for integers of   *)
(* any width, blobs of any length a c_int can say, any offset, length and  *)
(* data, and whatever statements do to the row behind the handle           *)
(* (blob_read, blob_write).                                                *)
THEOREM BlobRangesExact == B!Spec => TouchesItsRange
<1>1. B!Init => BlobInv
  <2>1. <<>> \in Sizes
        BY WidthAssumption DEF Sizes
  <2> QED BY <2>1, WidthAssumption DEF B!Init, BlobInv
<1>2. BlobInv /\ [B!Next]_B!vars => BlobInv'
      BY BlobStep
<1>3. BlobInv /\ [B!Next]_B!vars =>
        [(last' # last /\ last'.op = "read") =>
           LET end == B!Lesser(last'.offset + last'.length, Len(rows[row]))
           IN  IF blob = "live"
               THEN last'.result = "ok" /\ last'.data = SubSeq(rows[row], last'.offset + 1, end)
               ELSE /\ last'.data = <<>>
                    /\ last'.result = "ok" <=> blob = "aborted" \/ last'.offset >= size \/ last'.length = 0]_B!vars
      BY ReadRange, WhoAnswers, Zenon
<1>4. BlobInv /\ [B!Next]_B!vars =>
        [(last' # last /\ last'.op = "write") =>
           IF last'.result = "ok"
           THEN /\ last'.offset + last'.length <= Len(rows[row]) /\ ~readOnly /\ blob = "live"
                /\ rows' = [rows EXCEPT ![row] = [k \in DOMAIN @ |->
                     IF k \in (last'.offset + 1)..(last'.offset + last'.length)
                     THEN last'.data[k - last'.offset] ELSE @[k]]]
           ELSE rows' = rows]_B!vars
  <2>1. SUFFICES ASSUME BlobInv, [B!Next]_B!vars, last' # last, last'.op = "write"
                 PROVE  IF last'.result = "ok"
                        THEN /\ last'.offset + last'.length <= Len(rows[row]) /\ ~readOnly /\ blob = "live"
                             /\ rows' = [rows EXCEPT ![row] = [k \in DOMAIN @ |->
                                  IF k \in (last'.offset + 1)..(last'.offset + last'.length)
                                  THEN last'.data[k - last'.offset] ELSE @[k]]]
                        ELSE rows' = rows
        BY Zenon
  <2>2. PICK offset \in Args, data \in Chunks :
          /\ B!Write(offset, data) /\ last'.offset = offset /\ last'.length = Len(data)
          /\ last'.data = data
        BY <2>1, WhoAnswers
  <2> QED BY <2>1, <2>2, WriteRange
<1> QED BY <1>1, <1>2, <1>3, <1>4, PTL
         DEF B!Spec, TouchesItsRange, B!TouchesItsRange, B!ReadsItsRange, B!WritesItsRange
-----------------------------------------------------------------------------
(* Changesets.  While an apply is half way, its changes are the pending    *)
(* ones and those done with.  One that is done with is in the replica, or  *)
(* has been left out under :omit for a reason that lasts: no later change  *)
(* can take it away.                                                       *)
Maybe == Vals \cup {Absent}
Change == [key : Keys, old : Maybe, new : Maybe]
Pending == apply.todo \cup apply.retry
Done == cs.changes \ Pending

SetType ==
  /\ source \in [Keys -> Maybe] /\ replica \in [Keys -> Maybe] /\ before \in [Keys -> Maybe]
  /\ DOMAIN orig \subseteq Keys /\ \A k \in DOMAIN orig : orig[k] \in Maybe
  /\ cs.changes \subseteq Change
  /\ \A c, d \in cs.changes : c.key = d.key => c = d
  /\ \A c \in cs.changes : c.old # c.new

ApplyType ==
  /\ apply = [strategy |-> apply.strategy, todo |-> apply.todo, retry |-> apply.retry,
              round |-> apply.round, defer |-> apply.defer]
  /\ apply.strategy \in {"none", "not begun", "omit", "replace", "abort"}
  /\ Pending \subseteq cs.changes /\ apply.todo \cap apply.retry = {}
  /\ apply.strategy = "not begun" => applied = C!NoAnswer

(* A row the changeset does not name is as it was. *)
UnnamedKept == C!Applying =>
  \A k \in Keys : (\A c \in cs.changes : c.key # k) => replica[k] = before[k]

(* Under :replace and :abort what is done with is in. *)
DoneIsIn == (C!Applying /\ apply.strategy # "omit") =>
  \A c \in Done : replica[c.key] = c.new

(* A value that another row has for good, or had at first. *)
Taken(c) == \E k \in Keys \ {c.key} :
  before[k] = c.new \/ (replica[k] = c.new /\ \A d \in Pending : d.key # k)

LeftOut(c) ==
  /\ replica[c.key] = before[c.key]
  /\ before[c.key] # c.old \/ (c.new # Absent /\ Taken(c))

DoneOrLeftOut == (C!Applying /\ apply.strategy = "omit") =>
  /\ \A c \in Pending : replica[c.key] = before[c.key]
  /\ \A c \in Done : replica[c.key] = c.new \/ LeftOut(c)

SetInv ==
  /\ SetType /\ ApplyType /\ UnnamedKept /\ DoneIsIn /\ DoneOrLeftOut
  /\ ApplyKeepsItsPromise

(* What one change leads to. *)
GoesOn(c, kept) ==
  /\ apply' = [strategy |-> apply.strategy, todo |-> apply.todo \ {c},
               retry |-> IF kept THEN apply.retry \cup {c} ELSE apply.retry,
               round |-> apply.round, defer |-> apply.defer]
  /\ applied' = applied
PutIn(c) == GoesOn(c, FALSE) /\ replica' = [replica EXCEPT ![c.key] = c.new]
PutOff(c) ==
  /\ GoesOn(c, TRUE)
  /\ \/ replica' = replica
     \/ apply.strategy = "replace" /\ replica' = [replica EXCEPT ![c.key] = Absent]
Omits(c) ==
  /\ GoesOn(c, FALSE) /\ replica' = replica /\ apply.strategy = "omit"
  /\ \/ replica[c.key] # c.old
     \/ c.new # Absent /\ \E k \in Keys \ {c.key} : replica[k] = c.new
GivesUp ==
  /\ apply' = C!Idle /\ replica' = before /\ apply.strategy # "omit"
  /\ applied' = [strategy |-> apply.strategy, changes |-> cs.changes, result |-> "abort"]

(* A value that clashes is the value of another row. *)
LEMMA ClashIsTaken ==
  ASSUME NEW t, NEW c \in Change, c.old # c.new, NEW force \in BOOLEAN,
         C!Conflict(t, c, force) = "CONSTRAINT"
  PROVE  c.new # Absent /\ \E k \in Keys \ {c.key} : t[k] = c.new
BY DEF C!Conflict, C!Op

(* Any other conflict is with the row itself. *)
LEMMA RowIsAnother ==
  ASSUME NEW t, NEW c \in Change, c.old # c.new, NEW force \in BOOLEAN,
         C!Conflict(t, c, force) \in {"CONFLICT", "NOTFOUND", "DATA"}
  PROVE  t[c.key] # c.old
BY DEF C!Conflict, C!Op

LEMMA ConflictTypes ==
  ASSUME NEW t, NEW c, NEW force \in BOOLEAN
  PROVE  C!Conflict(t, c, force) \in {"none", "CONSTRAINT", "CONFLICT", "NOTFOUND", "DATA"}
BY DEF C!Conflict

(* A constraint is put off, or the change is left out, or all is undone.   *)
LEMMA ConstrainedStep ==
  ASSUME ApplyType, C!Applying, NEW c, NEW t, C!Constrained(t, c)
  PROVE  \/ GoesOn(c, TRUE) /\ replica' = t
         \/ GoesOn(c, FALSE) /\ replica' = t /\ apply.strategy = "omit"
         \/ GivesUp
<1>1. CASE apply.defer
      BY <1>1, Zenon DEF C!Constrained, C!GoOn, GoesOn, ApplyType
<1>2. CASE ~apply.defer /\ apply.strategy = "omit"
      BY <1>2, Zenon DEF C!Constrained, C!ConflictHandler, C!GoOn, GoesOn, ApplyType
<1>3. CASE ~apply.defer /\ apply.strategy # "omit"
      BY <1>3, Zenon DEF C!Constrained, C!ConflictHandler, C!Finish, GivesUp, ApplyType, C!Applying, C!Strategies
<1> QED BY <1>1, <1>2, <1>3, Zenon

(* Every change is put in, put off, left out or undone with the rest.      *)
LEMMA StepOutcome ==
  ASSUME SetType, ApplyType, NEW c, C!Step(c)
  PROVE  PutIn(c) \/ PutOff(c) \/ Omits(c) \/ GivesUp
<1> DEFINE type == C!Conflict(replica, c, FALSE)
           do == C!ConflictHandler(apply.strategy, type)
           room == IF type = "CONFLICT" THEN [replica EXCEPT ![c.key] = Absent] ELSE replica
<1>1. /\ c \in apply.todo /\ c \in Change /\ c.old # c.new /\ C!Applying
      /\ apply.strategy \in {"omit", "replace", "abort"}
      BY Zenon DEF C!Step, C!Applying, C!Strategies, SetType, ApplyType, Pending
<1>2. type \in {"none", "CONSTRAINT", "CONFLICT", "NOTFOUND", "DATA"}
      BY ConflictTypes, Zenon
<1>3. IF type = "none" THEN C!GoOn([replica EXCEPT ![c.key] = c.new], c, FALSE)
      ELSE IF type = "CONSTRAINT" THEN C!Constrained(replica, c)
      ELSE IF do = "omit" THEN C!GoOn(replica, c, FALSE)
      ELSE IF do = "abort" THEN C!Finish("abort", before)
      ELSE IF type = "NOTFOUND" THEN C!Finish("misuse", before)
      ELSE IF C!Conflict(room, c, TRUE) = "none" THEN C!GoOn([room EXCEPT ![c.key] = c.new], c, FALSE)
      ELSE C!Constrained(room, c)
      BY Zenon DEF C!Step
<1>4. ASSUME NEW t, C!GoOn(t, c, FALSE)
      PROVE  GoesOn(c, FALSE) /\ replica' = t
      BY <1>4, Zenon DEF C!GoOn, GoesOn, ApplyType
<1>5. CASE type = "none"
      BY <1>3, <1>4, <1>5, Zenon DEF PutIn
<1>6. CASE type = "CONSTRAINT"
  <2>1. C!Constrained(replica, c)
        BY <1>3, <1>6, Zenon
  <2>2. c.new # Absent /\ \E k \in Keys \ {c.key} : replica[k] = c.new
        BY <1>1, <1>6, ClashIsTaken, Zenon
  <2> QED BY <1>1, <2>1, <2>2, ConstrainedStep, Zenon DEF PutOff, Omits
<1>7. CASE type \in {"CONFLICT", "NOTFOUND", "DATA"} /\ apply.strategy = "omit"
  <2>1. C!GoOn(replica, c, FALSE)
        BY <1>3, <1>7, Zenon DEF C!ConflictHandler
  <2>2. replica[c.key] # c.old
        BY <1>1, <1>7, RowIsAnother, Zenon
  <2> QED BY <1>4, <1>7, <2>1, <2>2, Zenon DEF Omits
<1>8. CASE \/ type \in {"CONFLICT", "NOTFOUND", "DATA"} /\ apply.strategy = "abort"
           \/ type = "NOTFOUND" /\ apply.strategy = "replace"
  <2>1. C!Finish("abort", before)
        BY <1>3, <1>8, Zenon DEF C!ConflictHandler
  <2> QED BY <1>8, <2>1, Zenon DEF C!Finish, GivesUp
<1>9. CASE type \in {"CONFLICT", "DATA"} /\ apply.strategy = "replace"
  <2>1. IF C!Conflict(room, c, TRUE) = "none" THEN C!GoOn([room EXCEPT ![c.key] = c.new], c, FALSE)
        ELSE C!Constrained(room, c)
        BY <1>3, <1>9, Zenon DEF C!ConflictHandler
  <2>2. [room EXCEPT ![c.key] = c.new] = [replica EXCEPT ![c.key] = c.new]
        BY Zenon DEF SetType
  <2>3. CASE C!Conflict(room, c, TRUE) = "none"
        BY <1>4, <2>1, <2>2, <2>3, Zenon DEF PutIn
  <2>4. CASE C!Constrained(room, c)
        BY <1>1, <1>9, <2>4, ConstrainedStep, Zenon DEF PutOff
  <2> QED BY <2>1, <2>3, <2>4, Zenon
<1> QED BY <1>1, <1>2, <1>5, <1>6, <1>7, <1>8, <1>9, Zenon

(* The rest of the state a change leaves alone, and which change it is.    *)
LEMMA StepFrame ==
  ASSUME SetType, ApplyType, NEW c, C!Step(c)
  PROVE  /\ source' = source /\ orig' = orig /\ cs' = cs /\ before' = before
         /\ c \in apply.todo /\ c \in cs.changes /\ c.key \in Keys /\ c.new \in Maybe
         /\ apply.strategy \in {"omit", "replace", "abort"} /\ Absent \in Maybe
<1>1. /\ source' = source /\ orig' = orig /\ cs' = cs /\ before' = before
      /\ c \in apply.todo /\ apply.strategy \in C!Strategies
      BY Zenon DEF C!Step, C!Applying
<1>2. c \in cs.changes /\ c \in Change
      BY <1>1, Zenon DEF SetType, ApplyType, Pending
<1>3. c.key \in Keys /\ c.new \in Maybe
      BY <1>2 DEF Change
<1>4. apply.strategy \in {"omit", "replace", "abort"}
      BY <1>1, Zenon DEF ApplyType, C!Strategies
<1> QED BY <1>1, <1>2, <1>3, <1>4 DEF Maybe

(* A change touches the row it names and no other. *)
LEMMA OneRow ==
  ASSUME SetType, ApplyType, NEW c, C!Step(c), PutIn(c) \/ PutOff(c) \/ Omits(c)
  PROVE  /\ replica' \in [Keys -> Maybe]
         /\ \A k \in Keys : k # c.key => replica'[k] = replica[k]
         /\ PutIn(c) => replica'[c.key] = c.new
BY StepFrame, Zenon DEF SetType, PutIn, PutOff, Omits

(* One change after another is done with, once. *)
LEMMA OneChange ==
  ASSUME ApplyType, NEW c \in apply.todo, NEW kept \in BOOLEAN, GoesOn(c, kept)
  PROVE  /\ Pending' = IF kept THEN Pending ELSE Pending \ {c}
         /\ apply'.todo \cap apply'.retry = {}
         /\ apply'.strategy = apply.strategy /\ (C!Applying' <=> C!Applying)
         /\ apply' = [strategy |-> apply'.strategy, todo |-> apply'.todo, retry |-> apply'.retry,
                      round |-> apply'.round, defer |-> apply'.defer]
<1>1. /\ apply'.todo = apply.todo \ {c}
      /\ apply'.retry = IF kept THEN apply.retry \cup {c} ELSE apply.retry
      /\ apply'.strategy = apply.strategy
      /\ apply' = [strategy |-> apply'.strategy, todo |-> apply'.todo, retry |-> apply'.retry,
                   round |-> apply'.round, defer |-> apply'.defer]
      BY DEF GoesOn
<1> QED BY <1>1, Zenon DEF ApplyType, Pending, C!Applying

(* While an apply is under way nothing is promised yet. *)
LEMMA NotYet ==
  ASSUME ApplyType', C!Applying'
  PROVE  ApplyKeepsItsPromise'
BY DEF C!Applying, C!Strategies, C!Idle, ApplyKeepsItsPromise, C!ApplyKeepsItsPromise, C!ApplyIsAtomic,
       C!OkMeansApplied, C!OmitSkipsConflicts

(* What is pending and done with, as a change is made.                     *)
LEMMA WhileApplying ==
  ASSUME SetInv, NEW c, C!Step(c), PutIn(c) \/ PutOff(c) \/ Omits(c)
  PROVE  SetInv'
<1> USE DEF SetInv
<1>0. /\ source' = source /\ orig' = orig /\ cs' = cs /\ before' = before
      /\ c \in apply.todo /\ c \in cs.changes /\ c.key \in Keys /\ c.new \in Maybe /\ C!Applying
      BY StepFrame, Zenon DEF C!Step
<1>1. /\ \A k \in Keys : k # c.key => replica'[k] = replica[k]
      /\ PutIn(c) => replica'[c.key] = c.new
      /\ SetType'
      BY <1>0, OneRow, Zenon DEF SetType
<1>2. /\ Pending' = IF PutOff(c) /\ ~PutIn(c) /\ ~Omits(c) THEN Pending ELSE Pending \ {c}
      /\ apply'.strategy = apply.strategy /\ C!Applying' /\ ApplyType'
      BY <1>0, OneChange, Zenon DEF PutIn, PutOff, Omits, ApplyType, C!Applying, C!Strategies
<1>3. \A d \in cs.changes : d # c => d.key # c.key /\ d.key \in Keys
      BY <1>0 DEF SetType, Change
<1>4. UnnamedKept'
      BY <1>0, <1>1 DEF UnnamedKept
<1>5. DoneIsIn'
  <2>1. ASSUME apply.strategy # "omit", NEW d \in Done'
        PROVE  replica'[d.key] = d.new
    <3>1. CASE d = c
      <4>1. PutIn(c)
            BY <1>0, <1>2, <2>1, <3>1, Zenon DEF Done, Omits, Pending
      <4> QED BY <1>1, <3>1, <4>1
    <3>2. CASE d # c
          BY <1>0, <1>1, <1>2, <1>3, <2>1, <3>2 DEF DoneIsIn, Done
    <3> QED BY <3>1, <3>2
  <2> QED BY <1>2, <2>1 DEF DoneIsIn
<1>6. DoneOrLeftOut'
  <2> SUFFICES ASSUME apply.strategy = "omit"
               PROVE  DoneOrLeftOut'
      BY <1>2 DEF DoneOrLeftOut
  <2>1. \A d \in Pending' : d # c \/ replica' = replica
        BY <1>2, Zenon DEF PutIn, PutOff, Omits
  <2>2. \A d \in Pending' : replica'[d.key] = before'[d.key]
        BY <1>0, <1>1, <1>2, <1>3, <2>1, Zenon DEF DoneOrLeftOut, ApplyType
  <2>3. ASSUME NEW d \in cs.changes, Taken(d)
        PROVE  Taken(d)'
    <3>1. PICK k \in Keys \ {d.key} :
            before[k] = d.new \/ (replica[k] = d.new /\ \A e \in Pending : e.key # k)
          BY <2>3, Zenon DEF Taken
    <3>2. CASE before[k] = d.new
          BY <1>0, <3>2, Zenon DEF Taken
    <3>3. CASE replica[k] = d.new /\ \A e \in Pending : e.key # k
      <4>1. k # c.key /\ Pending' \subseteq Pending
            BY <1>0, <1>2, <3>3, Zenon DEF Pending
      <4> QED BY <1>1, <3>3, <4>1, Zenon DEF Taken
    <3> QED BY <3>1, <3>2, <3>3
  <2>4. ASSUME NEW d \in Done', d # c
        PROVE  replica'[d.key] = d.new \/ LeftOut(d)'
        BY <1>0, <1>1, <1>2, <1>3, <2>3, <2>4, ZenonT(40) DEF DoneOrLeftOut, Done, LeftOut
  <2>5. CASE Omits(c)
    <3>1. replica' = replica /\ replica[c.key] = before[c.key]
          BY <1>0, <2>5, Zenon DEF Omits, DoneOrLeftOut, Pending
    <3>2. ASSUME NEW k \in Keys \ {c.key}, replica[k] = c.new
          PROVE  Taken(c)'
      <4>1. CASE \E d \in Pending : d.key = k
            BY <1>0, <3>2, <4>1, Zenon DEF DoneOrLeftOut, Taken
      <4>2. CASE \A d \in Pending : d.key # k
            BY <1>0, <1>2, <3>1, <3>2, <4>2, Zenon DEF Taken
      <4> QED BY <4>1, <4>2
    <3>3. LeftOut(c)'
          BY <1>0, <2>5, <3>1, <3>2 DEF LeftOut, Omits
    <3> QED BY <1>0, <2>2, <2>4, <3>3, Zenon DEF DoneOrLeftOut
  <2>6. CASE ~Omits(c)
    <3>1. c \in Done' => PutIn(c)
          BY <1>0, <1>2, <2>6, Zenon DEF Done, Pending
    <3> QED BY <1>1, <2>2, <2>4, <3>1, Zenon DEF DoneOrLeftOut
  <2> QED BY <2>5, <2>6
<1> QED BY <1>1, <1>2, <1>4, <1>5, <1>6, NotYet

(* An apply that gives up has undone everything. *)
LEMMA WhenItGivesUp ==
  ASSUME SetInv, NEW c, C!Step(c), GivesUp
  PROVE  SetInv'
<1> USE DEF SetInv
<1>0. /\ source' = source /\ orig' = orig /\ cs' = cs /\ before' = before
      /\ apply.strategy \in {"omit", "replace", "abort"} /\ apply.strategy # "omit"
      BY StepFrame, Zenon DEF GivesUp
<1>1. replica' = before' /\ apply' = C!Idle /\ applied'.result = "abort" /\ applied'.strategy = apply.strategy
      BY <1>0 DEF GivesUp
<1>2. SetType' /\ ApplyType' /\ ~C!Applying'
      BY <1>0, <1>1, Zenon DEF SetType, ApplyType, Pending, C!Idle, C!Applying, C!Strategies
<1>3. ApplyKeepsItsPromise'
      BY <1>0, <1>1 DEF ApplyKeepsItsPromise, C!ApplyKeepsItsPromise, C!ApplyIsAtomic,
         C!OkMeansApplied, C!OmitSkipsConflicts
<1> QED BY <1>2, <1>3, Zenon DEF UnnamedKept, DoneIsIn, DoneOrLeftOut

(* What was put off becomes what is to do. *)
LEMMA RetryKeeps ==
  ASSUME SetInv, C!Retry
  PROVE  SetInv'
<1> USE DEF SetInv
<1>0. /\ source' = source /\ orig' = orig /\ cs' = cs /\ before' = before /\ replica' = replica
      /\ C!Applying /\ apply.todo = {}
      /\ \E n, b : apply' = [apply EXCEPT !.todo = apply.retry, !.retry = {}, !.round = n, !.defer = b]
      BY Zenon DEF C!Retry
<1>1. /\ apply'.todo = apply.retry /\ apply'.retry = {} /\ apply'.strategy = apply.strategy
      /\ apply' = [strategy |-> apply'.strategy, todo |-> apply'.todo, retry |-> apply'.retry,
                   round |-> apply'.round, defer |-> apply'.defer]
      BY <1>0, Zenon DEF ApplyType
<1>2. Pending' = Pending /\ C!Applying'
      BY <1>0, <1>1 DEF Pending, C!Applying
<1>3. SetType' /\ ApplyType'
      BY <1>0, <1>1, <1>2, Zenon DEF SetType, ApplyType, C!Applying, C!Strategies
<1>4. UnnamedKept' /\ DoneIsIn' /\ DoneOrLeftOut'
      BY <1>0, <1>1, <1>2 DEF UnnamedKept, DoneIsIn, DoneOrLeftOut, Done, LeftOut, Taken
<1> QED BY <1>2, <1>3, <1>4, NotYet

(* When nothing is pending the strategy's promise is kept. *)
LEMMA ReleaseKeeps ==
  ASSUME SetInv, C!Release
  PROVE  SetInv'
<1> USE DEF SetInv
<1>0. /\ source' = source /\ orig' = orig /\ cs' = cs /\ before' = before /\ apply' = C!Idle
      /\ C!Applying /\ Done = cs.changes
      /\ \/ C!Finish("constraint", before) /\ apply.strategy # "omit"
         \/ C!Finish("ok", replica)
      BY DEF C!Release, C!Finish, C!ConflictHandler, Done, Pending, C!Applying, C!Strategies
<1>1. apply.strategy \in {"omit", "replace", "abort"}
      BY <1>0, Zenon DEF ApplyType, C!Applying, C!Strategies
<1>2. SetType' /\ ApplyType' /\ ~C!Applying'
      BY <1>0, Zenon DEF C!Finish, SetType, ApplyType, Pending, C!Idle, C!Applying, C!Strategies
<1>3. CASE C!Finish("constraint", before) /\ apply.strategy # "omit"
  <2>1. replica' = before' /\ applied'.result = "constraint" /\ applied'.strategy = apply.strategy
        BY <1>0, <1>3 DEF C!Finish
  <2>2. ApplyKeepsItsPromise'
        BY <1>3, <2>1 DEF ApplyKeepsItsPromise, C!ApplyKeepsItsPromise, C!ApplyIsAtomic,
           C!OkMeansApplied, C!OmitSkipsConflicts
  <2> QED BY <1>2, <2>2, Zenon DEF UnnamedKept, DoneIsIn, DoneOrLeftOut
<1>4. CASE C!Finish("ok", replica)
  <2>1. /\ replica' = replica /\ applied'.result = "ok" /\ applied'.strategy = apply.strategy
        /\ applied'.changes = cs.changes
        BY <1>4 DEF C!Finish
  <2>2. C!ApplyIsAtomic'
        BY <2>1 DEF C!ApplyIsAtomic
  <2>3. C!OkMeansApplied'
    <3>1. ASSUME apply.strategy # "omit", NEW k \in Keys
          PROVE  replica[k] = IF \E c \in cs.changes : c.key = k
                              THEN (CHOOSE c \in cs.changes : c.key = k).new ELSE before[k]
          BY <1>0, <3>1, Zenon DEF DoneIsIn, UnnamedKept
    <3> QED BY <1>0, <2>1, <3>1 DEF C!OkMeansApplied
  <2>4. C!OmitSkipsConflicts'
    <3>1. ASSUME apply.strategy = "omit", NEW c \in cs.changes
          PROVE  /\ replica[c.key] \in {before[c.key], c.new}
                 /\ (/\ before[c.key] = c.old
                     /\ \A k \in Keys \ {c.key} : c.new \notin {before[k], replica[k]} \ {Absent})
                    => replica[c.key] = c.new
          BY <1>0, <3>1 DEF DoneOrLeftOut, LeftOut, Taken
    <3> QED BY <1>0, <2>1, <3>1 DEF C!OmitSkipsConflicts, UnnamedKept
  <2>5. ApplyKeepsItsPromise'
        BY <2>2, <2>3, <2>4 DEF ApplyKeepsItsPromise, C!ApplyKeepsItsPromise
  <2> QED BY <1>2, <2>5 DEF UnnamedKept, DoneIsIn, DoneOrLeftOut
<1> QED BY <1>0, <1>3, <1>4

(* Nothing is pending outside an apply. *)
LEMMA AtRest ==
  ASSUME apply = C!Idle
  PROVE  ~C!Applying /\ Pending = {} /\ apply.strategy = "none"
BY DEF C!Idle, C!Applying, C!Strategies, Pending

(* The promise is about the apply, and the replica before and after it.    *)
LEMMA SamePromise ==
  ASSUME ApplyKeepsItsPromise, UNCHANGED <<replica, apply, before, applied>>
  PROVE  ApplyKeepsItsPromise'
<1> USE DEF ApplyKeepsItsPromise, C!ApplyKeepsItsPromise
<1>1. C!ApplyIsAtomic'
      BY Zenon DEF C!ApplyIsAtomic
<1>2. C!OkMeansApplied'
      BY DEF C!OkMeansApplied
<1>3. C!OmitSkipsConflicts'
      BY DEF C!OmitSkipsConflicts
<1> QED BY <1>1, <1>2, <1>3

(* The promise and what leads to it are about the changes, the replica and *)
(* the apply only.                                                         *)
LEMMA SameApply ==
  ASSUME SetInv, UNCHANGED <<cs, replica, apply, before, applied>>, SetType'
  PROVE  SetInv'
<1>1. ApplyType'
      BY Zenon DEF SetInv, ApplyType, Pending
<1>2. UnnamedKept'
      BY Zenon DEF SetInv, UnnamedKept, C!Applying
<1>3. DoneIsIn'
      BY Zenon DEF SetInv, DoneIsIn, Done, Pending, C!Applying
<1>4. DoneOrLeftOut'
      BY DEF SetInv, DoneOrLeftOut, Done, Pending, LeftOut, Taken, C!Applying
<1>5. ApplyKeepsItsPromise'
      BY SamePromise DEF SetInv
<1> QED BY <1>1, <1>2, <1>3, <1>4, <1>5 DEF SetInv

(* What a session has recorded is one change to a row, and a real one.     *)
LEMMA RecordedChanges ==
  ASSUME SetType
  PROVE  /\ C!Recorded \subseteq Change
         /\ \A c, d \in C!Recorded : c.key = d.key => c = d
         /\ \A c \in C!Recorded : c.old # c.new
BY DEF SetType, C!Recorded, Change

(* The steps outside an apply. *)
LEMMA OutsideKeeps ==
  ASSUME SetInv,
         \/ apply = C!NotBegun /\ \E table, copy \in C!Tables, refs \in SUBSET Keys : C!SessionNew(table, copy, refs)
         \/ \E k \in Keys, v \in Vals \cup {Absent} : C!Write(k, v)
         \/ \E format \in {"changeset", "patchset"} : C!Capture(format)
         \/ \E strategy \in C!Strategies : C!ChangesetApply(strategy)
  PROVE  SetInv'
<1> USE DEF SetInv
<1>1. ASSUME NEW table \in C!Tables, NEW copy \in C!Tables, NEW refs, apply = C!NotBegun, C!SessionNew(table, copy, refs)
      PROVE  SetInv'
  <2>1. /\ source' = table /\ replica' = copy /\ apply' = C!Idle /\ before' = copy
        /\ UNCHANGED <<orig, cs, applied>>
        BY <1>1 DEF C!SessionNew
  <2>2. apply.strategy = "not begun"
        BY <1>1, Zenon DEF C!NotBegun, C!Idle
  <2>3. applied = C!NoAnswer
        BY <2>2, Zenon DEF ApplyType
  <2>4. SetType'
        BY <2>1, Zenon DEF SetType, C!Tables, Maybe
  <2>5. ApplyType' /\ ~C!Applying'
        BY <2>1, Zenon DEF ApplyType, Pending, C!Idle, C!Applying, C!Strategies
  <2>6. ApplyKeepsItsPromise'
        BY <2>1, <2>3, Zenon DEF C!NoAnswer, ApplyKeepsItsPromise, C!ApplyKeepsItsPromise, C!ApplyIsAtomic,
           C!OkMeansApplied, C!OmitSkipsConflicts
  <2> QED BY <2>4, <2>5, <2>6 DEF UnnamedKept, DoneIsIn, DoneOrLeftOut
<1>2. ASSUME NEW k \in Keys, NEW v \in Vals \cup {Absent}, C!Write(k, v)
      PROVE  SetInv'
  <2>1. /\ source' = [source EXCEPT ![k] = v]
        /\ orig' = [j \in DOMAIN orig \cup {k} |-> IF j \in DOMAIN orig THEN orig[j] ELSE source[k]]
        /\ UNCHANGED <<cs, replica, children, apply, before, applied>>
        BY <1>2 DEF C!Write
  <2>2. SetType'
        BY <2>1, Zenon DEF SetType, Maybe
  <2> QED BY <2>1, <2>2, SameApply, SMTT(30)
<1>3. ASSUME NEW format, C!Capture(format)
      PROVE  SetInv'
  <2>1. /\ apply = C!Idle /\ cs'.changes = C!Recorded
        /\ UNCHANGED <<source, orig, replica, apply, before, applied>>
        BY <1>3 DEF C!Capture
  <2>2. SetType' /\ ApplyType' /\ ~C!Applying'
        BY <2>1, AtRest, RecordedChanges, Zenon DEF SetType, ApplyType, Pending, C!Applying
  <2>3. ApplyKeepsItsPromise'
        BY <2>1, SamePromise
  <2> QED BY <2>2, <2>3, Zenon DEF UnnamedKept, DoneIsIn, DoneOrLeftOut
<1>4. ASSUME NEW strategy \in C!Strategies, C!ChangesetApply(strategy)
      PROVE  SetInv'
  <2>0. /\ apply = C!Idle /\ before' = replica
        /\ UNCHANGED <<source, orig, cs, replica>>
        BY <1>4, Zenon DEF C!ChangesetApply
  <2>1. SetType'
        BY <2>0 DEF SetType
  <2>2. CASE strategy = "other"
    <3>1. /\ apply' = apply
          /\ applied' = [strategy |-> "none", changes |-> {}, result |-> "invalid_conflict_strategy"]
          BY <1>4, <2>2, Zenon DEF C!ChangesetApply, C!NoAnswer
    <3>2. ApplyType' /\ ~C!Applying'
          BY <2>0, <3>1, AtRest, Zenon DEF ApplyType, Pending, C!Applying
    <3>3. ApplyKeepsItsPromise'
          BY <2>0, <3>1, Zenon DEF ApplyKeepsItsPromise, C!ApplyKeepsItsPromise, C!ApplyIsAtomic, C!OkMeansApplied,
             C!OmitSkipsConflicts
    <3> QED BY <2>1, <3>2, <3>3, Zenon DEF UnnamedKept, DoneIsIn, DoneOrLeftOut
  <2>3. CASE strategy # "other"
    <3>1. apply' = [strategy |-> strategy, todo |-> cs.changes, retry |-> {}, round |-> 0, defer |-> TRUE]
          BY <1>4, <2>3, Zenon DEF C!ChangesetApply, C!Idle
    <3>2. ApplyType' /\ C!Applying' /\ Pending' = cs.changes
          BY <2>0, <2>3, <3>1, Zenon DEF ApplyType, Pending, C!Applying, C!Strategies
    <3>3. UnnamedKept' /\ DoneIsIn' /\ DoneOrLeftOut'
          BY <2>0, <3>2, Zenon DEF UnnamedKept, DoneIsIn, DoneOrLeftOut, Done
    <3> QED BY <2>1, <3>2, <3>3, NotYet
  <2> QED BY <2>2, <2>3
<1> QED BY <1>1, <1>2, <1>3, <1>4, SMTT(30)

(* changeset_apply does what its strategy says or nothing at all, for any  *)
(* tables, changesets and patchsets, whichever order the changes come in   *)
(* and however often the constrained ones are tried again: an error undoes *)
(* everything, :ok under :replace and :abort means every change is in, and *)
(* :omit leaves out conflicting changes only.                              *)
THEOREM ApplySafe == C!Spec => []ApplyKeepsItsPromise
<1>1. C!Init => SetInv
  <2> SUFFICES ASSUME C!Init
               PROVE  SetInv
      OBVIOUS
  <2>1. /\ source = [k \in Keys |-> Absent] /\ orig = [k \in {} |-> Absent] /\ cs.changes = {}
        /\ replica = [k \in Keys |-> Absent] /\ before = replica
        /\ apply = [strategy |-> "not begun", todo |-> {}, retry |-> {}, round |-> 0, defer |-> TRUE]
        /\ applied = C!NoAnswer
        BY Zenon DEF C!Init, C!NoSet, C!NotBegun, C!Idle
  <2>2. SetType
        BY <2>1, Zenon DEF SetType, Maybe, Change
  <2>3. ApplyType /\ ~C!Applying
        BY <2>1, Zenon DEF ApplyType, Pending, C!Applying, C!Strategies
  <2>4. ApplyKeepsItsPromise
        BY <2>1, Zenon DEF C!NoAnswer, ApplyKeepsItsPromise, C!ApplyKeepsItsPromise, C!ApplyIsAtomic,
           C!OkMeansApplied, C!OmitSkipsConflicts
  <2> QED BY <2>2, <2>3, <2>4 DEF SetInv, UnnamedKept, DoneIsIn, DoneOrLeftOut
<1>2. SetInv /\ [C!Next]_C!vars => SetInv'
  <2> SUFFICES ASSUME SetInv, [C!Next]_C!vars
               PROVE  SetInv'
      OBVIOUS
  <2>1. CASE UNCHANGED C!vars
    <3>1. SetType' /\ UNCHANGED <<cs, replica, apply, before, applied>>
          BY <2>1, Zenon DEF SetInv, SetType, C!vars
    <3> QED BY <3>1, SameApply
  <2>2. ASSUME NEW c, C!Step(c)
        PROVE  SetInv'
        BY <2>2, StepOutcome, WhileApplying, WhenItGivesUp DEF SetInv
  <2> QED BY <2>1, <2>2, OutsideKeeps, RetryKeeps, ReleaseKeeps, Zenon DEF C!Next
<1>3. SetInv => ApplyKeepsItsPromise
      BY DEF SetInv
<1> QED BY <1>1, <1>2, <1>3, PTL DEF C!Spec
-----------------------------------------------------------------------------
(* A run of explain_analyze: what the call has by the stage it is at.      *)
(* Each stage after the plan has everything of the stages before it, so a  *)
(* report that is built is a whole one.                                    *)
RunType ==
  /\ sql \in X!Statements
  /\ stage \in {"idle", "prepare", "plan", "bind", "step", "counters", "done", "failed"}
  /\ produced \in Nat /\ plan \in Nat /\ scans \in Seq(Nat)
  /\ stage # "idle" => report = "none"

NothingRun == effects = 0 /\ produced = 0 /\ scans = <<>>
Planned == sql.kind = "plain" /\ plan = sql.scans
RanToItsEnd == Planned /\ effects = sql.writes /\ produced = sql.rows
Scanned == scans = [i \in 1..Len(scans) |-> i - 1] /\ Len(scans) <= sql.scans

RunInv ==
  /\ RunType
  /\ stage \in {"prepare", "plan", "bind"} => NothingRun
  /\ stage \in {"bind", "step"} => Planned
  /\ stage = "step" => produced <= sql.rows /\ scans = <<>>
  /\ stage \in {"counters", "done"} => RanToItsEnd /\ Scanned
  /\ stage = "done" => Len(scans) = sql.scans
  /\ X!ReportIsOfTheRun

(* SQLite numbers the loops from 0, and collect_scan_status takes them in  *)
(* that order: the next entry continues the sequence.                      *)
LEMMA NextScan ==
  ASSUME NEW n \in Nat, NEW s \in Seq(Nat), s = [i \in 1..Len(s) |-> i - 1], Len(s) < n
  PROVE  LET t == Append(s, Len(s))
         IN  t \in Seq(Nat) /\ t = [i \in 1..Len(t) |-> i - 1] /\ Len(t) <= n
<1> DEFINE t == Append(s, Len(s))
           u == [i \in 1..Len(t) |-> i - 1]
<1>1. t \in Seq(Nat) /\ Len(t) = Len(s) + 1 /\ Len(t) <= n
      OBVIOUS
<1>2. \A i \in 1..Len(t) : t[i] = i - 1
      BY <1>1
<1>3. u \in Seq(Nat) /\ Len(u) = Len(t) /\ \A i \in 1..Len(t) : u[i] = i - 1
      BY <1>1
<1> HIDE DEF t, u
<1>4. t = u
      BY <1>1, <1>2, <1>3, SeqEqual, Zenon
<1> QED BY <1>1, <1>4, Zenon DEF t, u

(* The parts of a statement. *)
LEMMA StatementParts ==
  ASSUME NEW s \in X!Statements
  PROVE  s.rows \in Nat /\ s.scans \in Nat /\ s.writes \in Nat
BY ReportAssumption DEF X!Statements

(* Every step of a call keeps the invariant. *)
LEMMA RunStep ==
  ASSUME RunInv, [X!Next]_X!vars
  PROVE  RunInv'
<1> USE DEF RunInv, RunType, NothingRun, Planned, RanToItsEnd, Scanned
<1>0. sql.rows \in Nat /\ sql.scans \in Nat /\ sql.writes \in Nat
      BY StatementParts
<1>1. CASE UNCHANGED X!vars
      BY <1>1, Zenon DEF X!vars, X!ReportIsOfTheRun
<1>2. ASSUME NEW s \in X!Statements, X!Call(s)
      PROVE  RunInv'
      BY <1>2 DEF X!Call, X!ReportIsOfTheRun
<1>3. ASSUME NEW ok \in BOOLEAN, X!Prepare(ok)
      PROVE  RunInv'
      BY <1>3 DEF X!Prepare, X!Return, X!Goto, X!ReportIsOfTheRun
<1>4. ASSUME NEW ok \in BOOLEAN, X!CollectQueryPlan(ok)
      PROVE  RunInv'
      BY <1>0, <1>4, Zenon DEF X!CollectQueryPlan, X!Return, X!Goto, X!ReportIsOfTheRun
<1>5. ASSUME NEW ok \in BOOLEAN, X!BindParams(ok)
      PROVE  RunInv'
      BY <1>0, <1>5, SMTT(20) DEF X!BindParams, X!Goto, X!ReportIsOfTheRun
<1>6. ASSUME NEW ok \in BOOLEAN, X!Step(ok)
      PROVE  RunInv'
  <2>1. CASE ~ok
        BY <1>6, <2>1, SMTT(20) DEF X!Step, X!Goto, X!ReportIsOfTheRun
  <2>2. CASE ok /\ produced < sql.rows
        BY <1>0, <1>6, <2>2, SMTT(20) DEF X!Step, X!ReportIsOfTheRun
  <2>3. CASE ok /\ ~(produced < sql.rows)
        BY <1>0, <1>6, <2>3, SMTT(20) DEF X!Step, X!Goto, X!ReportIsOfTheRun
  <2> QED BY <2>1, <2>2, <2>3, Zenon
<1>7. ASSUME X!CollectScanStatus
      PROVE  RunInv'
  <2>1. CASE Len(scans) < sql.scans
    <3>1. /\ scans' = Append(scans, Len(scans))
          /\ UNCHANGED <<sql, stage, prepared, effects, produced, plan, report>> /\ stage = "counters"
          BY <1>7, <2>1, Zenon DEF X!CollectScanStatus
    <3>2. scans' \in Seq(Nat) /\ Scanned'
          BY <1>0, <2>1, <3>1, NextScan, Zenon
    <3> QED BY <3>1, <3>2 DEF X!ReportIsOfTheRun
  <2>2. CASE ~(Len(scans) < sql.scans)
    <3>1. /\ stage = "counters" /\ stage' = "done" /\ report' = report
          /\ UNCHANGED <<sql, prepared, effects, produced, plan, scans>>
          BY <1>7, <2>2, Zenon DEF X!CollectScanStatus, X!Goto
    <3> QED BY <1>0, <2>2, <3>1 DEF X!ReportIsOfTheRun
  <2> QED BY <2>1, <2>2, Zenon
<1>8. ASSUME X!Finalize
      PROVE  RunInv'
      BY <1>0, <1>8 DEF X!Finalize, X!Return, X!ReportIsOfTheRun
<1> QED BY <1>1, <1>2, <1>3, <1>4, <1>5, <1>6, <1>7, <1>8, Zenon DEF X!Next

(* Between the plan and its return a call holds one statement more than it *)
(* found, and finalizes it.                                                *)
HeldInv ==
  /\ prepared \in Int /\ held \in Int /\ ran \in BOOLEAN
  /\ stage \in {"prepare", "plan"} => ran = FALSE
  /\ stage = "prepare" => prepared = held
  /\ stage \in {"plan", "bind", "step", "counters", "done", "failed"} => prepared = held + 1
  /\ X!RunIsFinalized

(* Every step keeps it. *)
LEMMA HeldStep ==
  ASSUME HeldInv, [X!Next]_X!vars
  PROVE  HeldInv'
<1> USE DEF HeldInv, X!RunIsFinalized
<1>1. CASE UNCHANGED X!vars
      BY <1>1, Zenon DEF X!vars
<1>2. ASSUME NEW s \in X!Statements, X!Call(s)
      PROVE  HeldInv'
      BY <1>2, Zenon DEF X!Call
<1>3. ASSUME NEW ok \in BOOLEAN, X!Prepare(ok)
      PROVE  HeldInv'
      BY <1>3 DEF X!Prepare, X!Return, X!Goto
<1>4. ASSUME NEW ok \in BOOLEAN, X!CollectQueryPlan(ok)
      PROVE  HeldInv'
      BY <1>4, Zenon DEF X!CollectQueryPlan, X!Return, X!Goto
<1>5. ASSUME NEW ok \in BOOLEAN, X!BindParams(ok)
      PROVE  HeldInv'
      BY <1>5 DEF X!BindParams, X!Goto
<1>6. ASSUME NEW ok \in BOOLEAN, X!Step(ok)
      PROVE  HeldInv'
      BY <1>6 DEF X!Step, X!Goto
<1>7. ASSUME X!CollectScanStatus
      PROVE  HeldInv'
      BY <1>7 DEF X!CollectScanStatus, X!Goto
<1>8. ASSUME X!Finalize
      PROVE  HeldInv'
      BY <1>8 DEF X!Finalize, X!Return
<1> QED BY <1>1, <1>2, <1>3, <1>4, <1>5, <1>6, <1>7, <1>8, Zenon DEF X!Next

(* A run of explain_analyze is whole, whatever the statement and whichever *)
(* of its calls of SQLite fail: an ok report is of one complete run, and a *)
(* call that got its plan has finalized its statement when it returns.     *)
THEOREM RunsWhole == X!Spec => []RunIsWhole
<1>0. X!Init => HeldInv
  <2>1. 0 \in Int
        OBVIOUS
  <2> QED BY <2>1, Zenon DEF X!Init, HeldInv, X!RunIsFinalized
<1>1. X!Init => RunInv
      BY ReportAssumption DEF X!Init, RunInv, RunType, NothingRun, Planned, RanToItsEnd, Scanned,
         X!ReportIsOfTheRun, X!Statements
<1>2. RunInv /\ [X!Next]_X!vars => RunInv'
      BY RunStep
<1>3. HeldInv /\ [X!Next]_X!vars => HeldInv'
      BY HeldStep
<1>4. RunInv /\ HeldInv => RunIsWhole
      BY DEF RunInv, HeldInv, RunIsWhole, X!RunIsWhole
<1> QED BY <1>0, <1>1, <1>2, <1>3, <1>4, PTL DEF X!Spec
=============================================================================
