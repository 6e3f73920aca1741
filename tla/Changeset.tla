----------------------------- MODULE Changeset -----------------------------
(***************************************************************************)
(* Capturing changes with a session and applying them to a replica:        *)
(* session_changeset, session_patchset and changeset_apply of nif.rs, and  *)
(* SQLite's session extension as they use it.  Both databases hold a table *)
(* of an integer key and one UNIQUE column; in the replica, child rows may *)
(* refer to some keys.  The lifetime of the handles is HandleLifecycle's.  *)
(***************************************************************************)
EXTENDS Naturals, FiniteSets

CONSTANTS
  Keys,
  Vals,
  Absent,     \* no row
  MaxWrites   \* bound: statements on the source

Strategies == {"omit", "replace", "abort", "other"}
Tables == {t \in [Keys -> Vals \cup {Absent}] : \A j, k \in Keys : (j # k /\ t[j] = t[k]) => t[j] = Absent}

VARIABLES
  source,     \* the table a session watches
  orig,       \* what the session recorded: key -> the row when first touched
  cs,         \* the last binary captured
  writes,     \* statements so far
  replica,    \* the table changes are applied to
  children,   \* keys the replica's child rows refer to
  apply,      \* changeset_apply in progress: its strategy, and SQLite's state
  before,     \* replica when it was called
  answer      \* its strategy and changes, and what it answered

vars == <<source, orig, cs, writes, replica, children, apply, before, answer>>

NoSet == [format |-> "none", changes |-> {}]
NoAnswer == [strategy |-> "none", changes |-> {}, result |-> "none"]
Idle == [strategy |-> "none", todo |-> {}, retry |-> {}, round |-> 0, defer |-> TRUE]

NotBegun == [Idle EXCEPT !.strategy = "not begun"]
Applying == apply.strategy \in Strategies

Init ==
  /\ source = [k \in Keys |-> Absent] /\ orig = [k \in {} |-> Absent]
  /\ cs = NoSet /\ writes = 0
  /\ replica = [k \in Keys |-> Absent] /\ children = {}
  /\ apply = NotBegun /\ before = replica /\ answer = NoAnswer

(* session_new and session_attach, on whatever the two databases hold.     *)
SessionNew(table, copy, refs) ==
  /\ refs \subseteq {k \in Keys : copy[k] # Absent}
  /\ source' = table /\ replica' = copy /\ children' = refs
  /\ apply' = Idle /\ before' = copy
  /\ UNCHANGED <<orig, cs, writes, answer>>

(* A statement inserts, updates or deletes a row of the watched table; the *)
(* session keeps the first original of each key.                           *)
Write(k, v) ==
  /\ apply = Idle /\ writes < MaxWrites /\ writes' = writes + 1
  /\ source[k] # v /\ [source EXCEPT ![k] = v] \in Tables
  /\ source' = [source EXCEPT ![k] = v]
  /\ orig' = [j \in DOMAIN orig \cup {k} |-> IF j \in DOMAIN orig THEN orig[j] ELSE source[k]]
  /\ UNCHANGED <<cs, replica, children, apply, before, answer>>

Op(old, new) == IF old = Absent THEN "insert" ELSE IF new = Absent THEN "delete" ELSE "update"
Recorded == {[key |-> k, old |-> orig[k], new |-> source[k]] : k \in {j \in DOMAIN orig : orig[j] # source[j]}}

(* session_changeset, session_patchset.  A patchset has no old values.     *)
Capture(format) ==
  /\ apply = Idle
  /\ cs' = [format |-> format, changes |-> Recorded]
  /\ UNCHANGED <<source, orig, writes, replica, children, apply, before, answer>>

(* changeset_apply: the strategy atom, then sqlite3changeset_apply inside  *)
(* a savepoint, under the connection's mutex.                              *)
ChangesetApply(strategy) ==
  /\ apply = Idle /\ cs # NoSet /\ before' = replica
  /\ IF strategy = "other"
     THEN UNCHANGED apply /\ answer' = [NoAnswer EXCEPT !.result = "invalid_conflict_strategy"]
     ELSE apply' = [Idle EXCEPT !.strategy = strategy, !.todo = cs.changes] /\ answer' = NoAnswer
  /\ UNCHANGED <<source, orig, cs, writes, replica, children>>

(* What stops a change.  Under "force" old values are not compared.        *)
Conflict(t, c, force) ==
  LET op == Op(c.old, c.new)
      clash == \E k \in Keys \ {c.key} : t[k] = c.new
  IN  IF op = "insert"
      THEN IF t[c.key] # Absent THEN "CONFLICT" ELSE IF clash THEN "CONSTRAINT" ELSE "none"
      ELSE IF t[c.key] = Absent THEN "NOTFOUND"
      ELSE IF ~force /\ cs.format = "changeset" /\ t[c.key] # c.old THEN "DATA"
      ELSE IF op = "update" /\ clash THEN "CONSTRAINT" ELSE "none"

(* The closure given to apply_strm. *)
ConflictHandler_alwaysReplace(strategy, type) ==
  IF strategy = "abort" THEN "abort" ELSE IF strategy = "replace" THEN "replace" ELSE "omit"

ConflictHandler_replaceOrOmit(strategy, type) ==
  IF strategy = "abort" THEN "abort"
  ELSE IF strategy = "replace" /\ type \in {"DATA", "CONFLICT"} THEN "replace" ELSE "omit"

ConflictHandler_omitAborts(strategy, type) ==
  IF strategy = "replace" /\ type \in {"DATA", "CONFLICT"} THEN "replace"
  ELSE IF strategy = "omit" /\ type \in {"DATA", "CONFLICT", "NOTFOUND"} THEN "omit" ELSE "abort"

ConflictHandler(strategy, type) ==
  IF strategy = "abort" THEN "abort"
  ELSE IF strategy = "replace"
  THEN IF type \in {"DATA", "CONFLICT"} THEN "replace" ELSE "abort"
  ELSE "omit"

Finish(r, t) ==
  /\ apply' = Idle /\ replica' = t
  /\ answer' = [strategy |-> apply.strategy, changes |-> cs.changes, result |-> r]
GoOn(t, c, deferred) ==
  /\ apply' = [apply EXCEPT !.todo = @ \ {c}, !.retry = IF deferred THEN @ \cup {c} ELSE @]
  /\ replica' = t /\ UNCHANGED answer

(* A constraint is put off while other changes may still clear it;         *)
(* otherwise it is a conflict that only "omit" and "abort" may answer.     *)
Constrained(t, c) ==
  IF apply.defer THEN GoOn(t, c, TRUE)
  ELSE CASE ConflictHandler(apply.strategy, "CONSTRAINT") = "omit" -> GoOn(t, c, FALSE)
         [] ConflictHandler(apply.strategy, "CONSTRAINT") = "abort" -> Finish("abort", before)
         [] ConflictHandler(apply.strategy, "CONSTRAINT") = "replace" -> Finish("misuse", before)

(* One change; replacing an insert's row deletes it and inserts again.     *)
Step(c) ==
  /\ Applying /\ c \in apply.todo
  /\ LET type == Conflict(replica, c, FALSE)
         do == ConflictHandler(apply.strategy, type)
         room == IF type = "CONFLICT" THEN [replica EXCEPT ![c.key] = Absent] ELSE replica
     IN  IF type = "none" THEN GoOn([replica EXCEPT ![c.key] = c.new], c, FALSE)
         ELSE IF type = "CONSTRAINT" THEN Constrained(replica, c)
         ELSE IF do = "omit" THEN GoOn(replica, c, FALSE)
         ELSE IF do = "abort" THEN Finish("abort", before)
         ELSE IF type = "NOTFOUND" THEN Finish("misuse", before)
         ELSE IF Conflict(room, c, TRUE) = "none" THEN GoOn([room EXCEPT ![c.key] = c.new], c, FALSE)
         ELSE Constrained(room, c)
  /\ UNCHANGED <<source, orig, cs, writes, children, before>>

(* sessionRetryConstraints: again, until a round clears nothing; then once *)
(* more without putting anything off.                                      *)
Retry ==
  /\ Applying /\ apply.todo = {} /\ apply.retry # {}
  /\ apply' = [apply EXCEPT !.todo = apply.retry, !.retry = {}, !.round = Cardinality(apply.retry),
                            !.defer = apply.round = 0 \/ Cardinality(apply.retry) < apply.round]
  /\ UNCHANGED <<source, orig, cs, writes, replica, children, before, answer>>

(* Foreign keys are looked at when every change has been made; only those  *)
(* broken by the apply count.                                              *)
Release ==
  /\ Applying /\ apply.todo = {} /\ apply.retry = {}
  /\ IF /\ \E k \in children : before[k] # Absent /\ replica[k] = Absent
        /\ ConflictHandler(apply.strategy, "FOREIGN_KEY") # "omit"
     THEN Finish("constraint", before)
     ELSE Finish("ok", replica)
  /\ UNCHANGED <<source, orig, cs, writes, children, before>>

Next ==
  \/ /\ apply = NotBegun
     /\ \E table, copy \in Tables, refs \in SUBSET Keys : SessionNew(table, copy, refs)
  \/ \E k \in Keys, v \in Vals \cup {Absent} : Write(k, v)
  \/ \E format \in {"changeset", "patchset"} : Capture(format)
  \/ \E strategy \in Strategies : ChangesetApply(strategy)
  \/ \E c \in apply.todo : Step(c)
  \/ Retry \/ Release

Spec == Init /\ [][Next]_vars
-----------------------------------------------------------------------------
(* changeset_apply applies or does nothing: an error, whichever conflict   *)
(* it met after however many changes, leaves the replica as it was, and is *)
(* never the SQLITE_MISUSE of an answer the conflict does not admit.       *)
ApplyIsAtomic == (apply = Idle /\ answer.result \notin {"none", "ok"}) =>
  replica = before /\ answer.result # "misuse"

(* :replace, and :abort, are not :omit: when they answer :ok every row the *)
(* changeset names is in the replica as the source had it.                 *)
OkMeansApplied == (apply = Idle /\ answer.result = "ok" /\ answer.strategy # "omit") =>
  \A k \in Keys : replica[k] = IF \E c \in answer.changes : c.key = k
                               THEN (CHOOSE c \in answer.changes : c.key = k).new ELSE before[k]

(* :omit never fails, touches nothing the changeset does not name, and     *)
(* skips a change only for a conflict: a row that is as the source had it  *)
(* gets its change, unless the new value belongs to another row, before or *)
(* after.                                                                  *)
OmitSkipsConflicts == (apply = Idle /\ answer.strategy = "omit") =>
  /\ answer.result = "ok"
  /\ \A k \in Keys : (\A c \in answer.changes : c.key # k) => replica[k] = before[k]
  /\ \A c \in answer.changes :
       /\ replica[c.key] \in {before[c.key], c.new}
       /\ (before[c.key] = c.old /\ \A k \in Keys \ {c.key} : c.new \notin {before[k], replica[k]} \ {Absent})
            => replica[c.key] = c.new

(* changeset_apply does what its strategy says or nothing at all: an error *)
(* undoes everything, :ok under :replace and :abort means every change is  *)
(* in, and :omit leaves out conflicting changes only.                      *)
ApplyKeepsItsPromise == ApplyIsAtomic /\ OkMeansApplied /\ OmitSkipsConflicts
=============================================================================
