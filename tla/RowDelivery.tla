----------------------------- MODULE RowDelivery -----------------------------
(***************************************************************************)
(* Rows on their way to a consumer in batches: Xqlite.stream (the          *)
(* callbacks of stream_resource_callbacks.ex over stream_fetch, nif.rs)    *)
(* in its three on_error modes, and multi_step on a manual statement.  A   *)
(* row that cannot be turned into terms fails the batch it is read in, and *)
(* so does an error of sqlite3_step, which may hit any step.  Between two  *)
(* batches another process may close the connection, and the consumer may  *)
(* stop.                                                                   *)
(***************************************************************************)
EXTENDS Naturals, Sequences, Functions

CONSTANTS
  MaxRows,   \* bound: rows of the result
  Sizes      \* batch sizes consumers pass

VARIABLES
  rows,    \* the result: each row "good" or "bad"
  mode,    \* "raise", "halt", "emit_error", or "manual" for multi_step
  size,    \* batch size
  pos,     \* rows stepped over since the statement last started
  stmt,    \* "live", or "null" in the handle's pointer
  conn,    \* "open" or "closed"
  seen,    \* row numbers the consumer received since then, in order
  lost,    \* row numbers stepped over since then and not handed out
  told,    \* the consumer was told of an error
  errored, \* errored? of the accumulator: the terminal element was emitted
  fin      \* "unopened", "no", or how it ended: "completed", "raised", "stopped"

vars == <<rows, mode, size, pos, stmt, conn, seen, lost, told, errored, fin>>

Modes == {"raise", "halt", "emit_error", "manual"}

Init ==
  /\ rows = <<>> /\ mode = "manual" /\ size = 0
  /\ pos = 0 /\ stmt = "null" /\ conn = "open"
  /\ seen = <<>> /\ lost = {} /\ told = FALSE /\ errored = FALSE /\ fin = "unopened"

(* start_fun on the handle of stream_open, or the first multi_step of a    *)
(* prepared statement: what will be asked for, and what there is.          *)
Open(result, m, batch_size) ==
  /\ fin = "unopened" /\ conn = "open"
  /\ rows' = result /\ mode' = m /\ size' = batch_size
  /\ stmt' = "live" /\ fin' = "no"
  /\ UNCHANGED <<pos, conn, seen, lost, told, errored>>

(* The rows of the next batch, and where the first bad one is (0: none).   *)
Batch == SubSeq(rows, pos + 1, IF pos + size > Len(rows) THEN Len(rows) ELSE pos + size)
BadOnes == {i \in DOMAIN Batch : Batch[i] = "bad"}
FirstBad == IF BadOnes = {} THEN 0 ELSE CHOOSE i \in BadOnes : \A j \in BadOnes : i <= j

(* stream_fetch: its answer; the early returns come first.                 *)
Fetched(failure) == IF FirstBad # 0 THEN failure ELSE IF Batch = <<>> THEN "done" ELSE "rows"
Refusal == IF size < 1 THEN "invalid_batch_size" ELSE IF stmt = "null" THEN "done" ELSE "connection_closed"
Reads == size >= 1 /\ stmt = "live" /\ conn = "open"

StreamFetch_endsOnError == IF Reads THEN Fetched("done") ELSE Refusal

StreamFetch_errorIgnored == IF Reads THEN IF Batch = <<>> THEN "done" ELSE "rows" ELSE Refusal

StreamFetch == IF Reads THEN Fetched("row_error") ELSE Refusal

(* How many rows of the batch sqlite3_step gave before it failed: none of  *)
(* them bad, and fewer than were asked for.                                *)
ReadBefore == {k \in 0..Len(Batch) : k < size /\ (FirstBad # 0 => k < FirstBad)}

(* What a batch leaves behind; the rows read of a failed one are dropped.  *)
Advance(answer) ==
  /\ pos' = IF answer = "rows" THEN pos + Len(Batch) ELSE IF answer = "row_error" THEN pos + FirstBad ELSE pos
  /\ seen' = IF answer = "rows" THEN seen \o [i \in 1..Len(Batch) |-> pos + i] ELSE seen
  /\ lost' = IF answer = "row_error" THEN lost \cup (pos + 1)..(pos + FirstBad) ELSE lost

(* stream_fetch finalizes a statement that ended or failed.                *)
Finalizes(answer) == answer = "row_error" \/ (Reads /\ answer \in {"rows", "done"} /\ Len(Batch) < size)

(* handle_fetch_error, by mode: raise, log and halt, or emit one element.  *)
HandleFetchError_emitGoesOn ==
  /\ told' = (mode # "halt")
  /\ fin' = [raise |-> "raised", halt |-> "completed", emit_error |-> "no"][mode]
  /\ UNCHANGED errored

HandleFetchError ==
  /\ told' = (mode # "halt")
  /\ fin' = [raise |-> "raised", halt |-> "completed", emit_error |-> "no"][mode]
  /\ errored' = (mode = "emit_error")

(* next_fun, followed by after_fun (which closes the stream) on every way  *)
(* out of the enumeration.                                                 *)
NextFun ==
  /\ fin = "no" /\ mode # "manual" /\ ~errored
  /\ LET answer == StreamFetch IN
       /\ Advance(answer)
       /\ \/ answer = "rows" /\ UNCHANGED <<told, errored, fin>>
          \/ answer = "done" /\ fin' = "completed" /\ UNCHANGED <<told, errored>>
          \/ answer \notin {"rows", "done"} /\ HandleFetchError
       /\ stmt' = IF Finalizes(answer) \/ fin' # "no" THEN "null" ELSE stmt
  /\ UNCHANGED <<rows, mode, size, conn>>

(* next_fun when sqlite3_step fails, behind any number of rows.            *)
NextFunStepFails ==
  /\ fin = "no" /\ mode # "manual" /\ ~errored /\ Reads
  /\ \E k \in ReadBefore : pos' = pos + k /\ lost' = lost \cup (pos + 1)..(pos + k)
  /\ HandleFetchError
  /\ stmt' = "null"
  /\ UNCHANGED <<rows, mode, size, conn, seen>>

(* The callback after the terminal element halts without a fetch.          *)
NextFunErrored ==
  /\ fin = "no" /\ errored
  /\ fin' = "completed" /\ stmt' = "null"
  /\ UNCHANGED <<rows, mode, size, pos, conn, seen, lost, told, errored>>

(* multi_step: the same loop on a statement the consumer keeps; after a    *)
(* row that failed the next call goes on behind it.                        *)
MultiStep ==
  /\ fin = "no" /\ mode = "manual" /\ size >= 1
  /\ IF conn = "closed"
     THEN told' = TRUE /\ fin' = "raised" /\ UNCHANGED <<pos, seen, lost>>
     ELSE /\ Advance(IF FirstBad # 0 THEN "row_error" ELSE "rows")
          /\ told' = (told \/ FirstBad # 0)
          /\ fin' = IF FirstBad = 0 /\ Len(Batch) < size THEN "completed" ELSE fin
  /\ UNCHANGED <<rows, mode, size, stmt, conn, errored>>

(* multi_step when sqlite3_step fails: SQLite resets the statement by      *)
(* itself, so the next call starts over at the first row.                  *)
MultiStepFails_endsQuietly ==
  /\ fin = "no" /\ mode = "manual" /\ size >= 1 /\ conn = "open"
  /\ fin' = "completed"
  /\ UNCHANGED <<rows, mode, size, pos, stmt, conn, seen, lost, told, errored>>

MultiStepFails ==
  /\ fin = "no" /\ mode = "manual" /\ size >= 1 /\ conn = "open"
  /\ pos' = 0 /\ seen' = <<>> /\ lost' = {} /\ told' = TRUE
  /\ UNCHANGED <<rows, mode, size, stmt, conn, errored, fin>>

MultiStepBadSize ==
  /\ fin = "no" /\ mode = "manual" /\ size < 1
  /\ told' = TRUE /\ fin' = "raised"
  /\ UNCHANGED <<rows, mode, size, pos, stmt, conn, seen, lost, errored>>

Stop ==
  /\ fin = "no" /\ fin' = "stopped"
  /\ stmt' = IF mode = "manual" THEN stmt ELSE "null"
  /\ UNCHANGED <<rows, mode, size, pos, conn, seen, lost, told, errored>>

CloseConnection ==
  /\ conn = "open" /\ conn' = "closed"
  /\ UNCHANGED <<rows, mode, size, pos, stmt, seen, lost, told, errored, fin>>

Consume ==
  \/ NextFun \/ NextFunStepFails \/ NextFunErrored
  \/ MultiStep \/ MultiStepFails \/ MultiStepBadSize
Next ==
  \/ \E len \in 0..MaxRows : \E r \in [1..len -> {"good", "bad"}], m \in Modes, s \in Sizes :
       Open(r, m, s)
  \/ Consume \/ Stop \/ CloseConnection

Spec == Init /\ [][Next]_vars

(* A consumer that does not stop keeps asking for the next batch.          *)
FairSpec == Spec /\ WF_vars(Consume)
-----------------------------------------------------------------------------
(* A stream that ends normally in mode :raise handed out every row; in     *)
(* mode :emit_error it did, or its last element said it did not; multi_step*)
(* reported an error for every batch that lost a row, and says done only   *)
(* when the statement has been stepped through from its first row.  Only   *)
(* :halt ends short in silence.  ("A failed read can never masquerade as a *)
(* completed stream.")                                                     *)
NeverMasquerades == (fin = "completed" /\ mode # "halt") =>
  /\ Range(seen) # DOMAIN rows => told
  /\ mode = "raise" => Range(seen) = DOMAIN rows
  /\ mode = "manual" => Range(seen) \cup lost = DOMAIN rows

(* From one start of the statement to the next, rows arrive in the order   *)
(* of the result, none twice, all of them good; a stream hands out nothing *)
(* after it lost a row.                                                    *)
InOrder ==
  /\ \A i \in DOMAIN seen : rows[seen[i]] = "good" /\ \A j \in 1..(i - 1) : seen[j] < seen[i]
  /\ mode # "manual" => \A n \in Range(seen) : lost \cap 1..n = {}

(* A statement starts over only for multi_step, and the consumer, who will *)
(* now get rows again that it has, is told of an error: no stream and no   *)
(* batch that went well repeats a row.                                     *)
RepeatsOnlyWhenTold == [][pos' < pos => mode = "manual" /\ told' /\ seen' = <<>>]_vars

(* An enumeration that is not stopped ends, and whichever way it ends the  *)
(* statement has been given back.  A consumer of multi_step gets to the    *)
(* end unless sqlite3_step fails it again and again.                       *)
EnumerationEnds ==
  /\ (fin = "no" /\ mode # "manual") ~> (fin # "no" /\ stmt = "null")
  /\ []<><<MultiStepFails>>_vars \/ ((fin = "no" /\ mode = "manual") ~> (fin # "no"))

(* What a consumer gets is the result, in order, or it is told otherwise   *)
(* (next_fun, stream_fetch, multi_step).                                   *)
DeliversTheResult == [](NeverMasquerades /\ InOrder) /\ RepeatsOnlyWhenTold
=============================================================================
