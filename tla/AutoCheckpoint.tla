--------------------------- MODULE AutoCheckpoint ---------------------------
(***************************************************************************)
(* What the wal_autocheckpoint threshold promises, whoever implements it:  *)
(* a commit that leaves at least limit frames in a database's log tries a  *)
(* passive checkpoint of that database, a smaller one does not, and a      *)
(* threshold of zero or less means never.  This is the behaviour of        *)
(* SQLite's own hook, which wal_hook.rs displaces and has to emulate.      *)
(***************************************************************************)
EXTENDS Integers
CONSTANTS Dbs
VARIABLES
  limit,     \* the threshold in force
  frames,    \* frames in the log of each database
  done,      \* the whole log is in the database: the next commit restarts it
  tried,     \* databases the last commit tried to checkpoint
  faults     \* callbacks that were cut short

avars == <<limit, frames, done, tried, faults>>

Init ==
  /\ frames = [d \in Dbs |-> 0]
  /\ tried = {}
  /\ faults = 0

Due(d, size) == limit > 0 /\ size >= limit

SetLimit ==
  /\ limit' \in Int
  /\ UNCHANGED <<frames, done, tried, faults>>

(* The log of d grows, or starts again if all of it had been moved. *)
Grow(d) ==
  /\ frames'[d] > IF done[d] THEN 0 ELSE frames[d]
  /\ \A e \in Dbs \ {d} : frames'[e] = frames[e] /\ done'[e] = done[e]

Commit(d) ==
  /\ Grow(d)
  /\ tried' = IF Due(d, frames'[d]) THEN {d} ELSE {}
  /\ (tried' = {}) => ~done'[d]
  /\ UNCHANGED <<limit, faults>>

(* The callback failed before it came to the checkpoint: one is skipped.   *)
CommitFaulty(d) ==
  /\ Grow(d) /\ ~done'[d]
  /\ tried' = {}
  /\ faults' = faults + 1
  /\ UNCHANGED limit

(* The application checkpoints by itself. *)
Checkpoint ==
  /\ \A d \in Dbs : done[d] => done'[d]
  /\ UNCHANGED <<limit, tried, faults>>

Next ==
  \/ SetLimit
  \/ \E d \in Dbs : Commit(d) \/ CommitFaulty(d)
  \/ Checkpoint

Spec == Init /\ [][Next]_avars
=============================================================================
