------------------------------- MODULE BlobIO -------------------------------
(***************************************************************************)
(* Incremental blob I/O (blob.rs): the offsets and lengths of blob_read    *)
(* and blob_write as they are clamped, added and cast, and a handle that   *)
(* SQLite has aborted.  A usize has UsizeBits bits and a c_int IntBits (64 *)
(* and 32 in the code).  Another statement may change the row behind the   *)
(* handle, its length included, or delete it; the connection may be closed *)
(* before the handle.                                                      *)
(***************************************************************************)
EXTENDS Integers, Sequences

CONSTANTS
  UsizeBits,  \* bits of offset and length
  IntBits,    \* bits of a c_int
  Rowids,     \* rows blob_open and blob_reopen are asked for
  Contents,   \* blobs statements write
  Args,       \* offsets and lengths callers pass
  Chunks      \* data callers write

VARIABLES
  rows,      \* the bytes of each row's blob, for the rows that are there
  blob,      \* "none", "live", "expired" (its row changed), "aborted", "closed"
  row,       \* the row it is open on
  size,      \* SQLite's nByte: the blob's size when the handle was put on the row
  readOnly,  \* opened for reading only
  conn,      \* "open"; "leaked": closed while a statement was live; "freed"
  last       \* the last answer

vars == <<rows, blob, row, size, readOnly, conn, last>>

Usize == 0..(2^UsizeBits - 1)
NoAnswer == [op |-> "none", result |-> "ok", offset |-> 0, length |-> 0, data |-> <<>>]
Answer(op, result, offset, length, data) ==
  [op |-> op, result |-> result, offset |-> offset, length |-> length, data |-> data]

Lesser(a, b) == IF a < b THEN a ELSE b
Bits(n, w) == n % (2^w)
CInt(n) == IF Bits(n, IntBits) >= 2^(IntBits - 1) THEN Bits(n, IntBits) - 2^IntBits ELSE Bits(n, IntBits)
SaturatingAdd(a, b) == Lesser(a + b, 2^UsizeBits - 1)

(* SQLite: an aborted handle has no statement and counts no bytes; a range *)
(* outside the size it knows is refused, a handle whose row changed is     *)
(* aborted.                                                                *)
BlobBytes == IF blob = "aborted" THEN 0 ELSE size
Refusal(offset, length) ==
  IF length < 0 \/ offset < 0 \/ offset + length > size THEN "range"
  ELSE IF blob # "live" THEN "abort" ELSE "ok"
Touched(refused) == IF blob = "expired" /\ refused # "range" THEN "aborted" ELSE blob

Init ==
  /\ rows = [r \in Rowids |-> <<>>]
  /\ blob = "none" /\ row = 0 /\ size = 0 /\ readOnly = FALSE /\ conn = "open" /\ last = NoAnswer

(* Without the row there is no handle. *)
Open(r, ro) ==
  /\ blob = "none" /\ conn = "open" /\ r \in DOMAIN rows
  /\ blob' = "live" /\ row' = r /\ size' = Len(rows[r]) /\ readOnly' = ro
  /\ UNCHANGED <<rows, conn, last>>

(* with_live_blob *)
Live == blob \notin {"none", "closed"} /\ conn = "open"

ActualLen_unclamped(offset, length) == IF offset >= BlobBytes THEN 0 ELSE length
ActualLen(offset, length) == IF offset >= BlobBytes THEN 0 ELSE Lesser(length, BlobBytes - offset)

Read(offset, length) ==
  LET n == ActualLen(offset, length)
      refused == Refusal(CInt(offset), CInt(n))
  IN  /\ Live
      /\ IF n = 0
         THEN last' = Answer("read", "ok", offset, length, <<>>) /\ UNCHANGED blob
         ELSE /\ last' = Answer("read", refused, offset, length,
                   IF refused = "ok" THEN SubSeq(rows[row], CInt(offset) + 1, CInt(offset) + CInt(n)) ELSE <<>>)
              /\ blob' = Touched(refused)
      /\ UNCHANGED <<rows, row, size, readOnly, conn>>

TooLong_leftToSqlite(offset, data) == FALSE
TooLong(offset, data) == SaturatingAdd(Len(data), offset) > BlobBytes

Overlay(bytes, at, data) ==
  [k \in DOMAIN bytes |-> IF k - at \in DOMAIN data THEN data[k - at] ELSE bytes[k]]

Write(offset, data) ==
  LET refused == IF TooLong(offset, data) THEN "size"
                 ELSE IF Refusal(CInt(offset), CInt(Len(data))) # "ok"
                 THEN Refusal(CInt(offset), CInt(Len(data)))
                 ELSE IF readOnly THEN "readonly" ELSE "ok"
  IN  /\ Live
      /\ last' = Answer("write", refused, offset, Len(data), data)
      /\ rows' = IF refused = "ok" THEN [rows EXCEPT ![row] = Overlay(@, CInt(offset), data)] ELSE rows
      /\ blob' = IF refused = "size" THEN blob ELSE Touched(refused)
      /\ UNCHANGED <<row, size, readOnly, conn>>

(* A row that is not there aborts the handle; an aborted one stays so.     *)
Reopen(to) ==
  /\ Live
  /\ LET found == blob # "aborted" /\ to \in DOMAIN rows IN
       /\ blob' = IF found THEN "live" ELSE "aborted"
       /\ row' = IF found THEN to ELSE row
       /\ size' = IF found THEN Len(rows[to]) ELSE size
       /\ last' = Answer("reopen", IF found THEN "ok" ELSE "abort", 0, 0, <<>>)
  /\ UNCHANGED <<rows, readOnly, conn>>

(* An UPDATE or a DELETE of the row, by any statement of the connection,   *)
(* expires the handle; the size it knows stays.                            *)
Expires(r) == blob' = IF r = row /\ blob = "live" THEN "expired" ELSE blob

UpdateRow(r, content) ==
  /\ conn = "open" /\ r \in DOMAIN rows
  /\ rows' = [rows EXCEPT ![r] = content]
  /\ Expires(r)
  /\ UNCHANGED <<row, size, readOnly, conn, last>>

DeleteRow(r) ==
  /\ conn = "open" /\ r \in DOMAIN rows
  /\ rows' = [i \in DOMAIN rows \ {r} |-> rows[i]]
  /\ Expires(r)
  /\ UNCHANGED <<row, size, readOnly, conn, last>>

(* sqlite3_close fails while the handle has its statement, and the         *)
(* connection is then leaked alive.                                        *)
CloseConnection ==
  /\ conn = "open"
  /\ conn' = IF blob \in {"live", "expired"} THEN "leaked" ELSE "freed"
  /\ last' = NoAnswer
  /\ UNCHANGED <<rows, blob, row, size, readOnly>>

(* close, called by blob_close and by the destructor: at any time. *)
Close ==
  /\ blob \notin {"none", "closed"} /\ blob' = "closed"
  /\ last' = Answer("close", IF conn = "freed" THEN "freed" ELSE "ok", 0, 0, <<>>)
  /\ UNCHANGED <<rows, row, size, readOnly, conn>>

(* The caller has its answer. *)
Return ==
  /\ last # NoAnswer /\ last' = NoAnswer
  /\ UNCHANGED <<rows, blob, row, size, readOnly, conn>>

Call ==
  \/ Close \/ CloseConnection
  \/ \E offset, length \in Args : Read(offset, length)
  \/ \E offset \in Args, data \in Chunks : Write(offset, data)
  \/ \E r \in Rowids : Reopen(r) \/ DeleteRow(r)
  \/ \E r \in Rowids, ro \in BOOLEAN : Open(r, ro)
  \/ \E r \in Rowids, content \in Contents : UpdateRow(r, content)

Next == (last = NoAnswer /\ Call) \/ Return

Spec == Init /\ [][Next]_vars
-----------------------------------------------------------------------------
(* A read on a live handle answers exactly the bytes of the row it is on,  *)
(* from the offset up to the length asked for or the end of the blob; no   *)
(* cast of an offset or a length moves the range.  Once its row has been   *)
(* changed or deleted a handle answers no byte any more: an error, or      *)
(* nothing where it is asked for nothing of the size it knows, which after *)
(* the first such error is 0.                                              *)
ReadsItsRange == [][
  (last' # last /\ last'.op = "read") =>
     LET end == Lesser(last'.offset + last'.length, Len(rows[row]))
     IN  IF blob = "live"
         THEN last'.result = "ok" /\ last'.data = SubSeq(rows[row], last'.offset + 1, end)
         ELSE /\ last'.data = <<>>
              /\ last'.result = "ok" <=> blob = "aborted" \/ last'.offset >= size \/ last'.length = 0 ]_vars

(* A write that succeeds replaces exactly its range in the row the handle  *)
(* is on, and one that is refused, for its size, its range, a read-only or *)
(* an expired handle, changes nothing at all.                              *)
WritesItsRange == [][
  (last' # last /\ last'.op = "write") =>
     IF last'.result = "ok"
     THEN /\ last'.offset + last'.length <= Len(rows[row]) /\ ~readOnly /\ blob = "live"
          /\ rows' = [rows EXCEPT ![row] = [k \in DOMAIN @ |->
               IF k \in (last'.offset + 1)..(last'.offset + last'.length)
               THEN last'.data[k - last'.offset] ELSE @[k]]]
     ELSE rows' = rows ]_vars

(* "Closing is sound even after the connection was explicitly closed": the *)
(* connection that the handle belongs to has not been freed by then.       *)
TeardownIsSound == last.op = "close" => last.result # "freed"

(* A read or a write touches exactly its range of the row the handle is    *)
(* on, whatever the widths of the integers on the way (read, write).       *)
TouchesItsRange == ReadsItsRange /\ WritesItsRange
=============================================================================
