--------------------------- MODULE Commits_proofs ---------------------------
(***************************************************************************)
(* The theorems about what happens around a commit: the transaction calls  *)
(* (X, Transactions), the WAL hook (W, WalHook) and the rebuild of a table *)
(* as STRICT (S, StrictRebuild), for every value of their constants.       *)
(***************************************************************************)
EXTENDS MCCommits, FiniteSetTheorems, TLAPS
-----------------------------------------------------------------------------
(* Transactions.                                                           *)

(* What the follower knows, at any moment: before the first write there is *)
(* nothing in its buffer; its mirror is the committed table, unless the    *)
(* commit of the open transaction was announced in vain; and its mirror    *)
(* with its buffer applied is the table the connection sees, unless the    *)
(* transaction took rows back.  Without a transaction there is no          *)
(* savepoint to go back to and nothing uncommitted.                        *)
FollowerInv ==
  /\ writing \in BOOLEAN /\ announced \in BOOLEAN
  /\ torn \in BOOLEAN /\ rewound \in BOOLEAN
  /\ tx = "none" => stack = <<>> /\ ~announced /\ ~rewound /\ ~writing /\ table = committed
  /\ ~writing => buffer = {}
  /\ ~torn /\ ~announced => mirror = committed
  /\ ~torn /\ ~rewound => X!Toggle(mirror, buffer) = table

(* Toggling rows twice is toggling them once together. *)
LEMMA ToggleAssoc ==
    ASSUME NEW a, NEW b, NEW c
    PROVE  X!Toggle(a, X!Toggle(b, c)) = X!Toggle(X!Toggle(a, b), c)
  BY DEF X!Toggle

(* Toggling nothing, on either side, changes nothing. *)
LEMMA ToggleNothing ==
    ASSUME NEW a
    PROVE  X!Toggle(a, {}) = a /\ X!Toggle({}, a) = a
  BY DEF X!Toggle

(* A statement that counts no row names none to the update hook. *)
LEMMA CountsRows ==
    ASSUME NEW rows \in SUBSET Rows
    PROVE  X!Cardinality(rows) \in Nat /\ (X!Cardinality(rows) = 0 <=> rows = {})
<1>1. X!Cardinality(rows) = Cardinality(rows)
      BY Zenon DEF X!Cardinality, Cardinality, X!IsFiniteSet, IsFiniteSet
<1> QED BY <1>1, RowsAssumption, FS_Subset, FS_CardinalityType, FS_EmptySet

(* A commit of the transaction, refused, done or announced in vain, leaves *)
(* the follower in step.                                                   *)
LEMMA EndByCommitKeeps ==
    ASSUME FollowerInv, X!EndByCommit
    PROVE  FollowerInv'
<1>1. CASE UNCHANGED <<X!dbVars, announced, rewound, torn, buffer, mirror>>
      BY <1>1 DEF X!dbVars, FollowerInv
<1>2. ASSUME X!End(table), X!Hear({}, X!CommitHook(writing)), torn' = (torn \/ rewound)
      PROVE  FollowerInv'
      BY <1>2, ToggleNothing, Zenon DEF X!End, X!Hear, X!CommitHook, FollowerInv
<1>3. ASSUME writing, X!Hear({}, X!CommitHook(writing)), announced',
             torn' = (torn \/ rewound), UNCHANGED <<X!dbVars, rewound>>
      PROVE  FollowerInv'
      BY <1>3, ToggleNothing DEF X!Hear, X!CommitHook, X!dbVars, FollowerInv
<1> QED BY <1>1, <1>2, <1>3 DEF X!EndByCommit

(* A statement, inside a transaction or on its own, whether it succeeds,   *)
(* is rolled back or fails to commit, leaves the follower in step.         *)
LEMMA StatementKeeps ==
    ASSUME FollowerInv, NEW rows \in SUBSET Rows, NEW triggered \in 0..1,
           X!Statement(rows, triggered)
    PROVE  FollowerInv'
<1> DEFINE n == X!Cardinality(rows)
<1> DEFINE new == X!Toggle(table, rows)
<1>1. n \in Nat /\ (n = 0 <=> rows = {})
      BY CountsRows
<1>2. X!Toggle(mirror, X!Toggle(buffer, rows)) = X!Toggle(X!Toggle(mirror, buffer), rows)
      BY ToggleAssoc
<1>3. ASSUME tx # "none", table' = new, writing' = (writing \/ n > 0),
             UNCHANGED <<tx, stack, committed, announced, torn, rewound>>, X!Hear(rows, {})
      PROVE  FollowerInv'
  <2>1. buffer' = X!Toggle(buffer, rows) /\ mirror' = mirror
        BY <1>3 DEF X!Hear
  <2>2. /\ writing' \in BOOLEAN
        /\ ~writing' => ~writing /\ rows = {}
    <3>1. CASE n > 0
          BY <1>3, <3>1, Zenon
    <3>2. CASE ~(n > 0)
          BY <1>1, <1>3, <3>2 DEF FollowerInv
    <3> QED BY <3>1, <3>2
  <2>3. ~torn /\ ~rewound => X!Toggle(mirror, buffer)' = table'
        BY <1>2, <1>3, <2>1, Zenon DEF FollowerInv, new
  <2> QED BY <1>3, <2>1, <2>2, <2>3, ToggleNothing DEF FollowerInv
<1>4. ASSUME tx = "none", X!End(new), UNCHANGED torn, X!Hear(rows, X!CommitHook(n > 0))
      PROVE  FollowerInv'
  <2>1. CASE n > 0
        BY <1>1, <1>2, <1>4, <2>1, ToggleNothing, Zenon DEF X!End, X!Hear, X!CommitHook, FollowerInv
  <2>2. CASE n = 0
        BY <1>1, <1>4, <2>2, ToggleNothing, Zenon DEF X!End, X!Hear, X!CommitHook, FollowerInv
  <2> QED BY <1>1, <2>1, <2>2
<1>5. ASSUME tx = "none", X!End(committed), UNCHANGED torn, X!Hear(rows, X!RollbackAll)
      PROVE  FollowerInv'
      BY <1>5, ToggleNothing, Zenon DEF X!End, X!Hear, X!RollbackAll, FollowerInv
<1>6. ASSUME X!End(committed), torn' = TRUE, X!Hear(rows, X!CommitHook(TRUE))
      PROVE  FollowerInv'
      BY <1>6, Zenon DEF X!End, X!Hear, X!CommitHook, FollowerInv
<1>7. \/ /\ tx # "none" /\ table' = new /\ writing' = (writing \/ n > 0)
         /\ UNCHANGED <<tx, stack, committed, announced, torn, rewound>> /\ X!Hear(rows, {})
      \/ tx = "none" /\ X!End(new) /\ UNCHANGED torn /\ X!Hear(rows, X!CommitHook(n > 0))
      \/ tx = "none" /\ X!End(committed) /\ UNCHANGED torn /\ X!Hear(rows, X!RollbackAll)
      \/ X!End(committed) /\ torn' = TRUE /\ X!Hear(rows, X!CommitHook(TRUE))
      BY Zenon DEF X!Statement
<1> HIDE DEF n, new
<1> QED BY <1>3, <1>4, <1>5, <1>6, <1>7, Zenon

(* So does a statement that fails, whatever SQLite keeps of it.            *)
LEMMA FailureKeeps ==
    ASSUME FollowerInv, NEW heard, NEW kept, X!StatementFails(heard, kept)
    PROVE  FollowerInv'
<1>1. X!Toggle(mirror, X!Toggle(buffer, heard)) = X!Toggle(X!Toggle(mirror, buffer), heard)
      BY ToggleAssoc
<1>2. ASSUME tx # "none", table' = X!Toggle(table, kept), writing' = TRUE,
             rewound' = (rewound \/ heard # kept), X!Hear(heard, {}),
             UNCHANGED <<tx, stack, committed, announced, torn>>
      PROVE  FollowerInv'
  <2>1. buffer' = X!Toggle(buffer, heard) /\ mirror' = mirror
        BY <1>2, Zenon DEF X!Hear
  <2>2. ~torn /\ ~rewound' => X!Toggle(mirror, buffer)' = table'
        BY <1>1, <1>2, <2>1, Zenon DEF FollowerInv
  <2> QED BY <1>2, <2>1, <2>2, Zenon DEF FollowerInv
<1>3. ASSUME tx = "none", X!End(committed), X!Hear(heard, X!RollbackAll), UNCHANGED torn
      PROVE  FollowerInv'
      BY <1>3, ToggleNothing, Zenon DEF X!End, X!Hear, X!RollbackAll, FollowerInv
<1>4. ASSUME tx = "none", kept = heard, X!End(X!Toggle(table, kept)),
             X!Hear(heard, X!CommitHook(TRUE)), UNCHANGED torn
      PROVE  FollowerInv'
      BY <1>1, <1>4, ToggleNothing, Zenon DEF X!End, X!Hear, X!CommitHook, FollowerInv
<1> QED BY <1>2, <1>3, <1>4, Zenon DEF X!StatementFails

(* FollowerInv is inductive. *)
LEMMA FollowerStep ==
    ASSUME FollowerInv, [X!Next]_X!vars
    PROVE  FollowerInv'
<1>1. CASE UNCHANGED X!vars
      BY <1>1 DEF X!vars, FollowerInv
<1>2. ASSUME NEW mode, X!Begin(mode)
      PROVE  FollowerInv'
      BY <1>2 DEF X!Begin, FollowerInv
<1>3. ASSUME NEW call, X!Refused(call)
      PROVE  FollowerInv'
      BY <1>3 DEF X!Refused, X!dbVars, FollowerInv
<1>4. CASE X!Commit
      BY <1>4, EndByCommitKeeps DEF X!Commit
<1>5. ASSUME NEW call, X!Rollback(call)
      PROVE  FollowerInv'
      BY <1>5, ToggleNothing, Zenon DEF X!Rollback, X!End, X!Hear, X!RollbackAll, FollowerInv
<1>6. ASSUME NEW name, X!Savepoint(name)
      PROVE  FollowerInv'
      BY <1>6 DEF X!Savepoint, FollowerInv
<1>7. ASSUME NEW name, X!RollbackTo(name)
      PROVE  FollowerInv'
  <2>1. UNCHANGED <<tx, writing, committed, buffer, mirror, announced, torn>>
        BY <1>7 DEF X!RollbackTo
  <2>2. tx # "none"
        BY <1>7 DEF X!RollbackTo, X!Innermost, FollowerInv
  <2>3. rewound' = (rewound \/ table' # table)
        BY <1>7 DEF X!RollbackTo
  <2> QED BY <2>1, <2>2, <2>3, Zenon DEF FollowerInv
<1>8. ASSUME NEW name, X!Release(name)
      PROVE  FollowerInv'
  <2>1. CASE X!EndByCommit
        BY <1>8, <2>1, EndByCommitKeeps DEF X!Release
  <2>2. CASE UNCHANGED <<tx, writing, table, committed, announced, rewound, torn, buffer, mirror>>
    <3>1. tx # "none"
          BY <1>8 DEF X!Release, X!Innermost, FollowerInv
    <3> QED BY <1>8, <2>2, <3>1 DEF X!Release, FollowerInv
  <2> QED BY <1>8, <2>1, <2>2 DEF X!Release
<1>9. ASSUME NEW rows \in SUBSET Rows, NEW triggered \in 0..1, X!Statement(rows, triggered)
      PROVE  FollowerInv'
      BY <1>9, StatementKeeps
<1>10. ASSUME NEW heard, NEW kept, X!StatementFails(heard, kept)
       PROVE  FollowerInv'
       BY <1>10, FailureKeeps
<1> QED BY <1>1, <1>2, <1>3, <1>4, <1>5, <1>6, <1>7, <1>8, <1>9, <1>10 DEF X!Next

(* The hooks are enough to follow a connection: for any rows, savepoint    *)
(* names and depth, whenever no transaction is open the follower of the    *)
(* update, commit and rollback hooks has the committed table and an empty  *)
(* buffer, unless SQLite undid a commit it had announced, or announced the *)
(* commit of a transaction that had taken rows back.                       *)
THEOREM FollowerSafe == X!Spec => []FollowerAgrees
<1>1. X!Init => FollowerInv
      BY Zenon DEF X!Init, X!Toggle, FollowerInv
<1>2. FollowerInv /\ [X!Next]_X!vars => FollowerInv'
      BY FollowerStep
<1>3. FollowerInv => FollowerAgrees
      BY ToggleNothing DEF FollowerInv, FollowerAgrees, X!FollowerAgrees
<1> QED BY <1>1, <1>2, <1>3, PTL DEF X!Spec

(* sqlite3_total_changes is a count, and the last answer reports the rows  *)
(* of its own statement.                                                   *)
CountInv == total \in Nat /\ ReportedIsOwn

(* A statement moves the total exactly when it changed a row of its own,   *)
(* so the sticky count is read only then.                                  *)
LEMMA StatementCounts ==
    ASSUME CountInv, NEW rows \in SUBSET Rows, NEW triggered \in 0..1,
           X!Statement(rows, triggered)
    PROVE  CountInv'
<1> DEFINE n == X!Cardinality(rows)
<1> DEFINE t == total + n + (IF n = 0 THEN 0 ELSE triggered)
<1> DEFINE c == IF n = 0 THEN changes ELSE n
<1>1. n \in Nat
      BY CountsRows
<1>2. t \in Nat /\ X!Reported(total, t, c) = n
      BY <1>1 DEF CountInv, X!Reported
<1>3. \/ total' = t /\ last' = [result |-> "ok", reported |-> X!Reported(total, t, c), changed |-> n]
      \/ total' = total /\ \E r : X!Answer(r)
      BY Zenon DEF X!Statement
<1> HIDE DEF n, t, c
<1> QED BY <1>2, <1>3 DEF X!Answer, CountInv, ReportedIsOwn, X!ReportedIsOwn

(* query_with_changes reports the rows its own statement changed, whatever *)
(* number of rows, of trigger rows and of earlier statements there were.   *)
THEOREM ReportsOwnRows == X!Spec => []ReportedIsOwn
<1>1. X!Init => CountInv
      BY DEF X!Init, CountInv, ReportedIsOwn, X!ReportedIsOwn
<1>2. CountInv /\ [X!Next]_X!vars => CountInv'
  <2> SUFFICES ASSUME CountInv, [X!Next]_X!vars PROVE CountInv'
      OBVIOUS
  <2>1. ASSUME UNCHANGED total, UNCHANGED last \/ \E r : X!Answer(r)
        PROVE  CountInv'
        BY <2>1 DEF CountInv, ReportedIsOwn, X!ReportedIsOwn, X!Answer
  <2>2. CASE UNCHANGED X!vars
        BY <2>1, <2>2 DEF X!vars
  <2>3. ASSUME NEW mode, X!Begin(mode)
        PROVE  CountInv'
        BY <2>1, <2>3, Zenon DEF X!Begin
  <2>4. ASSUME NEW call, X!Refused(call) \/ X!Rollback(call)
        PROVE  CountInv'
        BY <2>1, <2>4, Zenon DEF X!Refused, X!Rollback
  <2>5. CASE X!Commit
        BY <2>1, <2>5, Zenon DEF X!Commit, X!EndByCommit
  <2>6. ASSUME NEW name, X!Savepoint(name) \/ X!RollbackTo(name) \/ X!Release(name)
        PROVE  CountInv'
        BY <2>1, <2>6, Zenon DEF X!Savepoint, X!RollbackTo, X!Release, X!EndByCommit
  <2>7. ASSUME NEW rows \in SUBSET Rows, NEW triggered \in 0..1, X!Statement(rows, triggered)
        PROVE  CountInv'
        BY <2>7, StatementCounts
  <2>8. ASSUME NEW heard, NEW kept \in SUBSET Rows, X!StatementFails(heard, kept)
        PROVE  CountInv'
    <3>1. total' = total + X!Cardinality(kept) /\ X!Answer("error")
          BY <2>8, Zenon DEF X!StatementFails
    <3>2. X!Cardinality(kept) \in Nat
          BY CountsRows
    <3> QED BY <3>1, <3>2 DEF X!Answer, CountInv, ReportedIsOwn, X!ReportedIsOwn
  <2> QED BY <2>2, <2>3, <2>4, <2>5, <2>6, <2>7, <2>8 DEF X!Next
<1>3. CountInv => ReportedIsOwn
      BY DEF CountInv
<1> QED BY <1>1, <1>2, <1>3, PTL DEF X!Spec
-----------------------------------------------------------------------------
(* The WAL hook.                                                           *)

(* The types the argument needs; a hook of SQLite's own has a positive     *)
(* threshold; and our callback is in the slot unless it was bypassed.      *)
SlotInv ==
  /\ slot \in {"ours", "sqlite", "none"}
  /\ pages \in Nat /\ builtin \in Nat /\ faults \in Nat
  /\ frames \in [Dbs -> Nat] /\ done \in [Dbs -> BOOLEAN]
  /\ bypassed \in BOOLEAN
  /\ slot = "sqlite" => builtin > 0
  /\ ~bypassed => slot = "ours"

(* The threshold SQLite reads from an argument is an integer. *)
LEMMA AtoiInt ==
    ASSUME NEW v \in Values
    PROVE  W!Atoi(v) \in Int
  BY ValuesAssumption DEF W!Atoi

(* The log after a commit is longer than what it started from. *)
LEMMA LogGrows ==
    ASSUME SlotInv, NEW d \in Dbs, NEW k \in 1..2
    PROVE  /\ W!LogAfter(d, k) \in Nat
           /\ W!LogAfter(d, k) > IF done[d] THEN 0 ELSE frames[d]
  BY DEF SlotInv, W!LogAfter

(* A fresh connection has our callback in the slot. *)
LEMMA SlotInit ==
    ASSUME W!Init
    PROVE  SlotInv
<1>1. Default \in Nat
      BY IntAssumption
<1>2. frames \in [Dbs -> Nat] /\ done \in [Dbs -> BOOLEAN]
      BY DEF W!Init
<1>3. slot = "ours" /\ pages = Default /\ builtin = 0 /\ faults = 0 /\ bypassed = FALSE
      BY DEF W!Init
<1> QED BY <1>1, <1>2, <1>3, Zenon DEF SlotInv

(* SlotInv is inductive. *)
LEMMA SlotStep ==
    ASSUME SlotInv, [W!Next]_W!vars
    PROVE  SlotInv'
<1>1. CASE UNCHANGED W!vars
      BY <1>1 DEF W!vars, SlotInv
<1>2. ASSUME NEW v \in Values, W!RawPragma(v)
      PROVE  SlotInv'
      BY <1>2, AtoiInt DEF W!RawPragma, W!SqlitePragma, SlotInv
<1>3. ASSUME NEW v \in Values, NEW name, W!SetPragma(name, v)
      PROVE  SlotInv'
  <2>1. UNCHANGED <<frames, done, faults>>
        BY <1>3, Zenon DEF W!SetPragma
  <2>2. CASE name = "wal_autocheckpoint"
    <3>1. /\ slot' = "ours" /\ builtin' = 0 /\ bypassed' = FALSE
          /\ pages' = IF W!Atoi(v) > 0 THEN W!Atoi(v) ELSE 0
          BY <1>3, <2>2, Zenon DEF W!SetPragma
    <3>2. pages' \in Nat
          BY <3>1, AtoiInt
    <3> QED BY <2>1, <3>1, <3>2, Zenon DEF SlotInv
  <2>3. CASE name # "wal_autocheckpoint"
    <3>1. W!SqlitePragma(v) /\ bypassed' = TRUE /\ UNCHANGED pages
          BY <1>3, <2>3, Zenon DEF W!SetPragma
    <3> QED BY <2>1, <3>1, AtoiInt DEF W!SqlitePragma, SlotInv
  <2> QED BY <2>2, <2>3
<1>4. ASSUME NEW p, W!Register(p) \/ W!Unregister(p)
      PROVE  SlotInv'
      BY <1>4 DEF W!Register, W!Unregister, SlotInv
<1>5. ASSUME NEW d \in Dbs, NEW k \in 1..2, W!Commit(d, k) \/ W!CommitPanics(d, k)
      PROVE  SlotInv'
  <2>1. /\ UNCHANGED <<slot, builtin, pages, bypassed>>
        /\ faults' = faults \/ faults' = faults + 1
        /\ frames' = [frames EXCEPT ![d] = W!LogAfter(d, k)]
        BY <1>5, Zenon DEF W!Commit, W!CommitPanics
  <2>2. \E b \in BOOLEAN : done' = [done EXCEPT ![d] = b]
        BY <1>5, Zenon DEF W!Commit, W!CommitPanics
  <2> QED BY <2>1, <2>2, LogGrows DEF SlotInv
<1>6. ASSUME NEW s, NEW m, W!WalCheckpoint(s, m)
      PROVE  SlotInv'
      BY <1>6 DEF W!WalCheckpoint, SlotInv
<1>7. CASE W!Others
      BY <1>7 DEF W!Others, SlotInv
<1> QED BY <1>1, <1>2, <1>3, <1>4, <1>5, <1>6, <1>7 DEF W!Next

(* set_pragma keeps both behaviours, for any thresholds, spellings and     *)
(* subscribers: unless the pragma bypassed it, get_pragma answers the      *)
(* threshold in force, and a commit some subscriber misses is one whose    *)
(* callback panicked.                                                      *)
THEOREM BothBehaviorsKept == W!Spec => KeepsBothBehaviors
<1>1. W!Init => SlotInv
      BY SlotInit
<1>2. SlotInv /\ [W!Next]_W!vars => SlotInv'
      BY SlotStep
<1>3. SlotInv => W!ReportedIsEffective
      BY DEF SlotInv, W!ReportedIsEffective, W!GetPragma, W!Effective
<1>4. SlotInv /\ [W!Next]_W!vars => [W!ReportedIsEffective']_W!vars
      BY <1>2 DEF SlotInv, W!ReportedIsEffective, W!GetPragma, W!Effective
<1>5. SlotInv /\ [W!Next]_W!vars => [missed' => bypassed \/ faults' # faults]_W!vars
  <2> SUFFICES ASSUME SlotInv, W!Next, missed' PROVE bypassed \/ faults' # faults
      OBVIOUS
  <2>1. PICK d \in Dbs, k \in 1..2 : W!Commit(d, k) \/ W!CommitPanics(d, k)
        BY Zenon DEF W!Next, W!RawPragma, W!SetPragma, W!Register, W!Unregister,
                     W!WalCheckpoint, W!Others
  <2>2. CASE W!Commit(d, k)
    <3>1. slot # "ours"
          BY <2>2, Zenon DEF W!Commit
    <3> QED BY <3>1 DEF SlotInv
  <2>3. CASE W!CommitPanics(d, k)
    <3>1. faults' = faults + 1
          BY <2>3, Zenon DEF W!CommitPanics
    <3> QED BY <3>1 DEF SlotInv
  <2> QED BY <2>1, <2>2, <2>3
<1> QED BY <1>1, <1>2, <1>3, <1>4, <1>5, PTL
        DEF W!Spec, KeepsBothBehaviors, W!KeepsBothBehaviors, W!EveryCommitHeard

(* Whoever is in the slot, a commit or a call on the connection is a step, *)
(* or no step, of the autocheckpoint SQLite promises.                      *)
LEMMA SlotSimulates ==
    ASSUME SlotInv, SlotInv', [W!Next]_W!vars
    PROVE  [W!A!Next]_W!A!avars
<1>1. W!Effective \in Int /\ W!Effective' \in Int
      BY DEF SlotInv, W!Effective
<1>2. ASSUME UNCHANGED <<slot, builtin, pages>>
      PROVE  UNCHANGED W!Effective
      BY <1>2 DEF W!Effective
<1>3. ASSUME UNCHANGED <<slot, builtin, pages, frames, done, tried, faults>>
      PROVE  UNCHANGED W!A!avars
      BY <1>2, <1>3 DEF W!A!avars
<1>4. ASSUME UNCHANGED <<frames, done, tried, faults>>
      PROVE  W!A!SetLimit
      BY <1>1, <1>4 DEF W!A!SetLimit
<1>5. ASSUME NEW d \in Dbs, NEW k \in 1..2, frames' = [frames EXCEPT ![d] = W!LogAfter(d, k)],
             NEW b \in BOOLEAN, done' = [done EXCEPT ![d] = b]
      PROVE  W!A!Grow(d) /\ frames'[d] = W!LogAfter(d, k) /\ done'[d] = b
      BY <1>5, LogGrows DEF W!A!Grow, SlotInv
<1>6. ASSUME NEW d \in Dbs, NEW size \in Nat
      PROVE  W!Due(d, size) <=> W!A!Due(d, size)
      BY <1>6 DEF W!Due, W!A!Due, W!Effective, SlotInv
<1>7. ASSUME NEW d \in Dbs, NEW k \in 1..2, W!Commit(d, k)
      PROVE  W!A!Commit(d)
  <2> DEFINE due == W!Due(d, W!LogAfter(d, k))
  <2>1. /\ frames' = [frames EXCEPT ![d] = W!LogAfter(d, k)]
        /\ done' = [done EXCEPT ![d] = due /\ W!Moves(d)]
        /\ tried' = IF due THEN {d} ELSE {}
        /\ UNCHANGED <<slot, builtin, pages, faults>>
        BY <1>7, Zenon DEF W!Commit
  <2>2. W!A!Grow(d) /\ frames'[d] = W!LogAfter(d, k) /\ done'[d] = (due /\ W!Moves(d))
        BY <1>5, <2>1, Zenon
  <2>3. due <=> W!A!Due(d, W!LogAfter(d, k))
        BY <1>6, LogGrows
  <2>4. tried' = {} => ~due
        BY <2>1
  <2> QED BY <1>2, <2>1, <2>2, <2>3, <2>4, Zenon DEF W!A!Commit
<1>8. ASSUME NEW d \in Dbs, NEW k \in 1..2, W!CommitPanics(d, k)
      PROVE  W!A!CommitFaulty(d)
  <2>1. /\ frames' = [frames EXCEPT ![d] = W!LogAfter(d, k)]
        /\ done' = [done EXCEPT ![d] = FALSE]
        /\ tried' = {} /\ faults' = faults + 1
        /\ UNCHANGED <<slot, builtin, pages>>
        BY <1>8, Zenon DEF W!CommitPanics
  <2>2. W!A!Grow(d) /\ ~done'[d]
        BY <1>5, <2>1, Zenon
  <2> QED BY <1>2, <2>1, <2>2, Zenon DEF W!A!CommitFaulty
<1>9. ASSUME NEW s, NEW m, W!WalCheckpoint(s, m)
      PROVE  W!A!Checkpoint
  <2>1. UNCHANGED <<slot, builtin, pages, tried, faults>>
        BY <1>9, Zenon DEF W!WalCheckpoint
  <2>2. \A d \in Dbs : done[d] => done'[d]
        BY <1>9, Zenon DEF W!WalCheckpoint
  <2> QED BY <1>2, <2>1, <2>2, Zenon DEF W!A!Checkpoint
<1>10. CASE UNCHANGED W!vars
       BY <1>3, <1>10 DEF W!vars
<1>11. ASSUME NEW v \in Values, NEW name, W!RawPragma(v) \/ W!SetPragma(name, v)
       PROVE  W!A!SetLimit
       BY <1>4, <1>11, Zenon DEF W!RawPragma, W!SetPragma
<1>12. ASSUME NEW p, W!Register(p) \/ W!Unregister(p) \/ W!Others
       PROVE  UNCHANGED W!A!avars
       BY <1>3, <1>12, Zenon DEF W!Register, W!Unregister, W!Others
<1> QED BY <1>7, <1>8, <1>9, <1>10, <1>11, <1>12, Zenon DEF W!Next, W!A!Next

(* The emulated autocheckpoint is the one SQLite promises, for any number  *)
(* of databases and any thresholds: every behaviour of the WAL hook is one *)
(* of AutoCheckpoint, with the effective threshold as its limit.           *)
THEOREM EmulatesAutoCheckpoint == W!Spec => AutoCheckpointSpec
<1>1. W!Init => SlotInv
      BY SlotInit
<1>2. SlotInv /\ [W!Next]_W!vars => SlotInv'
      BY SlotStep
<1>3. W!Init => W!A!Init
      BY DEF W!Init, W!A!Init
<1>4. SlotInv /\ SlotInv' /\ [W!Next]_W!vars => [W!A!Next]_W!A!avars
      BY SlotSimulates
<1> QED BY <1>1, <1>2, <1>3, <1>4, PTL
        DEF W!Spec, AutoCheckpointSpec, W!AutoCheckpointSpec, W!A!Spec
-----------------------------------------------------------------------------
(* The rebuild as STRICT.                                                  *)

(* The types of the database and of what the call remembers. *)
RowSets == UNION {[D -> S!Classes] : D \in SUBSET Ids}
Tables == [there : BOOLEAN, strict : BOOLEAN, rows : RowSets]
Databases == [table : Tables, tmp : Tables, ixs : SUBSET Indexes]
OwnSteps == {"create", "copy", "drop", "rename", "reindex", "commit"}
EarlySteps == {"check", "ddl", "indexes", "begin"}

StrictType ==
  /\ column \in S!Columns
  /\ db \in Databases /\ saved \in Databases
  /\ strict_tx \in {"none", "caller", "own"}
  /\ pc \in {"new", "idle", "rollback"} \cup EarlySteps \cup OwnSteps
  /\ known \in SUBSET Indexes
  /\ result \in {"none", "ok", "error", "strict_violations"}
  /\ late \in [rows : SUBSET Ids, ixs : SUBSET Indexes]
  /\ before \in [table : Tables, ixs : SUBSET Indexes, tx : {"none", "caller"}]

(* The table the call is to leave: every row it found, as the column       *)
(* stores it, and STRICT if the rewrite of the DDL makes it so.            *)
Strictness == column.role # "without_rowid" \/ before.table.strict
Rebuilt == S!Table(Strictness, S!Converted(before.table.rows))

(* A transaction of the call's own is open exactly in the middle of it, or *)
(* until its rollback; what the rollback would restore is what was found;  *)
(* and until then the table found is still there.                          *)
SavedInv ==
  /\ pc = "new" => db.table = S!NoTable /\ strict_tx = "none"
  /\ result # "none" => pc = "idle"
  /\ pc \in OwnSteps => strict_tx = "own"
  /\ strict_tx = "own" => pc \in OwnSteps \cup {"rollback"}
  /\ strict_tx # "none" => saved.tmp = S!NoTable
  /\ strict_tx = "own" =>
       before.tx = "none" /\ saved.table = before.table /\ saved.ixs = before.ixs
  /\ strict_tx # "own" => db.tmp = S!NoTable

(* How far the table and the temporary one have come at each call. *)
ProgressInv ==
  /\ strict_tx # "own" /\ pc \in EarlySteps \cup {"rollback"} =>
       before.tx = strict_tx /\ db.table = before.table /\ db.ixs = before.ixs
  /\ pc \in {"create", "copy"} => db.table = before.table
  /\ pc = "copy" => db.tmp = S!Table(Strictness, S!Empty)
  /\ pc \in {"drop", "rename"} => db.tmp = Rebuilt
  /\ pc \in {"reindex", "commit"} => db.tmp = S!NoTable /\ db.table = Rebuilt
  /\ pc = "commit" => known \subseteq db.ixs

(* The list of indexes has all but the ones created after it was made.     *)
ListedInv == pc \in OwnSteps \cup {"begin"} => before.ixs \ late.ixs \subseteq known

RebuildInv == StrictType /\ SavedInv /\ ProgressInv /\ ListedInv /\ AllOrNothing

(* A column stores a value of some class, and the stored value as it is. *)
LEMMA StoredTwice ==
    ASSUME NEW type, NEW v \in S!Classes
    PROVE  S!Stored(type, v) \in S!Classes /\ S!Stored(type, S!Stored(type, v)) = S!Stored(type, v)
  BY DEF S!Classes, S!Stored

(* What is known of a set of rows, without the union. *)
LEMMA RowSetsType ==
    ASSUME NEW rows
    PROVE  rows \in RowSets <=>
             /\ DOMAIN rows \subseteq Ids /\ rows = [i \in DOMAIN rows |-> rows[i]]
             /\ \A i \in DOMAIN rows : rows[i] \in S!Classes
<1>1. ASSUME rows \in RowSets
      PROVE  /\ DOMAIN rows \subseteq Ids /\ rows = [i \in DOMAIN rows |-> rows[i]]
             /\ \A i \in DOMAIN rows : rows[i] \in S!Classes
  <2>1. PICK D \in SUBSET Ids : rows \in [D -> S!Classes]
        BY <1>1 DEF RowSets
  <2> QED BY <2>1
<1>2. ASSUME DOMAIN rows \subseteq Ids, rows = [i \in DOMAIN rows |-> rows[i]],
             \A i \in DOMAIN rows : rows[i] \in S!Classes
      PROVE  rows \in RowSets
  <2>1. rows \in [DOMAIN rows -> S!Classes]
        BY <1>2
  <2> QED BY <1>2, <2>1 DEF RowSets
<1> QED BY <1>1, <1>2

(* No rows, converted rows and rows with one more are rows. *)
LEMMA RowsStayRows ==
    ASSUME NEW rows \in RowSets, NEW i \in Ids, NEW v \in S!Classes
    PROVE  /\ S!Empty \in RowSets
           /\ S!Converted(rows) \in RowSets
           /\ S!Insert(rows, i, v) \in RowSets
<1>1. DOMAIN rows \subseteq Ids /\ \A j \in DOMAIN rows : rows[j] \in S!Classes
      BY RowSetsType
<1>2. S!Empty \in RowSets
      BY RowSetsType, Zenon DEF S!Empty
<1>3. S!Converted(rows) \in RowSets
      BY <1>1, RowSetsType, StoredTwice DEF S!Converted
<1>4. S!Insert(rows, i, v) \in RowSets
      BY <1>1, RowSetsType, StoredTwice DEF S!Insert
<1> QED BY <1>2, <1>3, <1>4

(* A row added to the converted rows is the row added before. *)
LEMMA InsertConverted ==
    ASSUME NEW rows, NEW i, NEW v \in S!Classes
    PROVE  S!Converted(S!Insert(rows, i, v)) = S!Insert(S!Converted(rows), i, v)
<1>1. S!Stored(column.type, S!Stored(column.type, v)) = S!Stored(column.type, v)
      BY StoredTwice
<1> QED BY <1>1 DEF S!Converted, S!Insert

(* A table with other rows. *)
LEMMA FilledTable ==
    ASSUME NEW strict, NEW old, NEW new
    PROVE  [S!Table(strict, old) EXCEPT !.rows = new] = S!Table(strict, new)
<1>1. \A there : [[there |-> there, strict |-> strict, rows |-> old] EXCEPT !.rows = new]
                   = [there |-> there, strict |-> strict, rows |-> new]
      OBVIOUS
<1> QED BY <1>1, Zenon DEF S!Table

(* The databases the calls and the other connection make. *)
LEMMA DatabasesType ==
    ASSUME StrictType, NEW i \in Ids, NEW v \in S!Classes
    PROVE  /\ S!NoTable \in Tables
           /\ \A strict \in BOOLEAN : S!Table(strict, S!Empty) \in Tables
           /\ [db.table EXCEPT !.rows = S!Insert(@, i, v)] \in Tables
           /\ [before.table EXCEPT !.rows = S!Insert(@, i, v)] \in Tables
<1>1. db.table \in Tables /\ before.table \in Tables
      BY DEF StrictType, Databases
<1>2. db.table.rows \in RowSets /\ before.table.rows \in RowSets
      BY <1>1 DEF Tables
<1>3. /\ S!Empty \in RowSets
      /\ S!Insert(db.table.rows, i, v) \in RowSets
      /\ S!Insert(before.table.rows, i, v) \in RowSets
      BY <1>2, RowsStayRows, Zenon DEF StrictType
<1> QED BY <1>1, <1>3 DEF Tables, S!NoTable, S!Table

(* Types are kept. *)
LEMMA StrictTypeStep ==
    ASSUME StrictType, SavedInv, [S!Next]_S!vars
    PROVE  StrictType'
<1> USE DEF OwnSteps, EarlySteps
<1>1. CASE UNCHANGED S!vars
      BY <1>1 DEF S!vars, StrictType
<1>2. ASSUME NEW col \in S!Columns, NEW strict \in BOOLEAN, S!CreateTable(col, strict)
      PROVE  StrictType'
  <2>1. S!Table(strict, S!Empty) \in Tables
        BY RowSetsType, Zenon DEF Tables, S!Table, S!Empty
  <2> QED BY <1>2, <2>1 DEF S!CreateTable, StrictType, Databases
<1>3. CASE S!Call
  <2>1. strict_tx \in {"none", "caller"}
        BY <1>3 DEF S!Call, SavedInv, StrictType
  <2> QED BY <1>3, <2>1 DEF S!Call, StrictType, Databases
<1>4. CASE S!CheckStrictViolations \/ S!TableCreateSql \/ S!GetIndexSqls \/ S!BeginImmediate
      BY <1>4 DEF S!CheckStrictViolations, S!TableCreateSql, S!GetIndexSqls,
         S!BeginImmediate, S!Then, S!Return, StrictType, Databases
<1>5. CASE S!CreateStrict
  <2>1. S!StrictSql \in BOOLEAN /\ S!Empty \in RowSets
    <3>1. S!Empty \in RowSets
          BY RowSetsType, Zenon DEF S!Empty
    <3>2. S!StrictSql \in BOOLEAN
          BY DEF S!StrictSql, StrictType, Databases, Tables
    <3> QED BY <3>1, <3>2
  <2>2. S!Table(S!StrictSql, S!Empty) \in Tables
        BY <2>1, Zenon DEF Tables, S!Table
  <2> QED BY <1>5, <2>2, Zenon DEF S!CreateStrict, S!Then, StrictType, Databases
<1>6. CASE S!Copy
  <2>1. db.table.rows \in RowSets /\ db.tmp \in Tables
        BY DEF StrictType, Databases, Tables
  <2>2. S!Converted(db.table.rows) \in RowSets
        BY <2>1, RowSetsType, StoredTwice DEF S!Converted, StrictType
  <2>3. [db.tmp EXCEPT !.rows = S!Converted(db.table.rows)] \in Tables
        BY <2>1, <2>2 DEF Tables
  <2>4. \/ UNCHANGED db /\ pc' = "rollback"
        \/ db' = [db EXCEPT !.tmp.rows = S!Converted(db.table.rows)] /\ pc' = "drop"
        BY <1>6 DEF S!Copy, S!Then, S!Converted
  <2>5. db' \in Databases
        BY <2>3, <2>4 DEF StrictType, Databases
  <2> QED BY <1>6, <2>4, <2>5 DEF S!Copy, S!Then, StrictType
<1>7. CASE S!DropTable \/ S!Rename
  <2>1. S!NoTable \in Tables
        BY RowSetsType, Zenon DEF Tables, S!NoTable, S!Empty
  <2> QED BY <1>7, <2>1, Zenon DEF S!DropTable, S!Rename, S!Then, StrictType, Databases
<1>8. CASE S!RecreateIndex
      BY <1>8 DEF S!RecreateIndex, S!Then, StrictType, Databases
<1>9. CASE S!Commit \/ S!Fail \/ S!Rollback
      BY <1>9 DEF S!Commit, S!Fail, S!Rollback, S!Then, S!Return, StrictType
<1>10. ASSUME NEW i \in Ids, NEW v \in S!Classes, S!CallerWrites(i, v) \/ S!OtherInserts(i, v)
       PROVE  StrictType'
  <2>1. /\ [db.table EXCEPT !.rows = S!Insert(@, i, v)] \in Tables
        /\ [before.table EXCEPT !.rows = S!Insert(@, i, v)] \in Tables
        BY DatabasesType
  <2> QED BY <1>10, <2>1 DEF S!CallerWrites, S!OtherInserts, StrictType, Databases
<1>11. ASSUME NEW ix \in Indexes, S!OtherIndexes(ix)
       PROVE  StrictType'
       BY <1>11 DEF S!OtherIndexes, StrictType, Databases
<1> QED BY <1>1, <1>2, <1>3, <1>4, <1>5, <1>6, <1>7, <1>8, <1>9, <1>10, <1>11 DEF S!Next

(* Who has a transaction open, and what it would go back to. *)
LEMMA SavedStep ==
    ASSUME StrictType, SavedInv, ProgressInv, [S!Next]_S!vars
    PROVE  SavedInv'
<1> USE DEF OwnSteps, EarlySteps
<1>1. CASE UNCHANGED S!vars
      BY <1>1 DEF S!vars, SavedInv
<1>2. ASSUME NEW col \in S!Columns, NEW strict \in BOOLEAN, S!CreateTable(col, strict)
      PROVE  SavedInv'
      BY <1>2 DEF S!CreateTable, StrictType, Databases, SavedInv
<1>3. CASE S!Call
      BY <1>3 DEF S!Call, SavedInv
<1>4. CASE S!CheckStrictViolations \/ S!TableCreateSql
      BY <1>4 DEF S!CheckStrictViolations, S!TableCreateSql, S!Then, S!Return, SavedInv
<1>14. CASE S!GetIndexSqls
      BY <1>14 DEF S!GetIndexSqls, S!Then, SavedInv
<1>5. CASE S!BeginImmediate
      BY <1>5 DEF S!BeginImmediate, S!Then, SavedInv, ProgressInv
<1>6. CASE S!CreateStrict \/ S!Copy \/ S!DropTable \/ S!Rename
      BY <1>6, Zenon DEF S!CreateStrict, S!Copy, S!DropTable, S!Rename, S!Then, SavedInv
<1>7. CASE S!RecreateIndex
      BY <1>7, Zenon DEF S!RecreateIndex, S!Then, SavedInv
<1>8. CASE S!Commit
      BY <1>8 DEF S!Commit, S!Return, SavedInv, ProgressInv
<1>9. CASE S!Fail
      BY <1>9 DEF S!Fail, S!Then, S!Return, SavedInv
<1>10. CASE S!Rollback
       BY <1>10 DEF S!Rollback, S!Return, SavedInv
<1>11. ASSUME NEW i \in Ids, NEW v \in S!Classes, S!CallerWrites(i, v)
       PROVE  SavedInv'
       BY <1>11 DEF S!CallerWrites, StrictType, Databases, SavedInv
<1>12. ASSUME NEW i \in Ids, NEW v \in S!Classes, S!OtherInserts(i, v)
       PROVE  SavedInv'
       BY <1>12 DEF S!OtherInserts, S!NoTable, StrictType, Databases, SavedInv
<1>13. ASSUME NEW ix \in Indexes, S!OtherIndexes(ix)
       PROVE  SavedInv'
       BY <1>13 DEF S!OtherIndexes, S!NoTable, StrictType, Databases, SavedInv
<1> QED BY <1>1, <1>2, <1>3, <1>4, <1>5, <1>6, <1>7, <1>8, <1>9, <1>10, <1>11, <1>12, <1>13,
        <1>14 DEF S!Next

(* How far the rebuild has come. *)
LEMMA ProgressStep ==
    ASSUME StrictType, SavedInv, ProgressInv, [S!Next]_S!vars
    PROVE  ProgressInv'
<1> USE DEF OwnSteps, EarlySteps
<1>1. CASE UNCHANGED S!vars
      BY <1>1, Zenon DEF S!vars, ProgressInv, Rebuilt, Strictness, S!Converted
<1>2. ASSUME NEW col \in S!Columns, NEW strict \in BOOLEAN, S!CreateTable(col, strict)
      PROVE  ProgressInv'
      BY <1>2 DEF S!CreateTable, ProgressInv
<1>3. CASE S!Call
      BY <1>3 DEF S!Call, ProgressInv
<1>4. CASE S!CheckStrictViolations \/ S!TableCreateSql
      BY <1>4, Zenon DEF S!CheckStrictViolations, S!TableCreateSql, S!Then, S!Return, ProgressInv
<1>5. CASE S!GetIndexSqls
      BY <1>5 DEF S!GetIndexSqls, S!Then, ProgressInv
<1>6. CASE S!BeginImmediate
      BY <1>6, Zenon DEF S!BeginImmediate, S!Then, ProgressInv
<1>7. CASE S!CreateStrict
  <2>1. strict_tx = "own" /\ UNCHANGED <<strict_tx, before, column>> /\ db.table = before.table
        BY <1>7, Zenon DEF S!CreateStrict, SavedInv, ProgressInv
  <2>2. S!StrictSql = Strictness /\ Strictness' = Strictness
        BY <2>1, Zenon DEF S!StrictSql, Strictness
  <2>3. CASE UNCHANGED db /\ pc' = "rollback"
        BY <2>1, <2>3 DEF ProgressInv
  <2>4. CASE db' = [db EXCEPT !.tmp = S!Table(S!StrictSql, S!Empty)] /\ pc' = "copy"
    <3>1. db'.tmp = S!Table(Strictness', S!Empty) /\ db'.table = db.table
          BY <2>2, <2>4 DEF StrictType, Databases
    <3> QED BY <2>1, <2>4, <3>1 DEF ProgressInv
  <2> QED BY <1>7, <2>3, <2>4, Zenon DEF S!CreateStrict, S!Then
<1>8. CASE S!Copy
  <2>1. strict_tx = "own" /\ UNCHANGED strict_tx
        BY <1>8, Zenon DEF S!Copy, SavedInv
  <2>2. CASE pc' = "rollback"
        BY <2>1, <2>2 DEF ProgressInv
  <2>3. CASE pc' = "drop"
    <3>1. db' = [db EXCEPT !.tmp.rows = S!Converted(db.table.rows)]
          BY <1>8, <2>3 DEF S!Copy, S!Then, S!Converted
    <3>2. db.tmp = S!Table(Strictness, S!Empty) /\ db.table = before.table
          BY <1>8, Zenon DEF S!Copy, ProgressInv
    <3>3. db'.tmp = S!Table(Strictness, S!Converted(before.table.rows))
      <4>1. db'.tmp = [db.tmp EXCEPT !.rows = S!Converted(db.table.rows)]
            BY <3>1 DEF StrictType, Databases
      <4> DEFINE c == S!Converted(db.table.rows)
      <4>2. [S!Table(Strictness, S!Empty) EXCEPT !.rows = c] = S!Table(Strictness, c)
            BY FilledTable, Zenon
      <4>3. c = S!Converted(before.table.rows)
            BY <3>2
      <4> HIDE DEF c
      <4> QED BY <3>2, <4>1, <4>2, <4>3 DEF c
    <3>4. Rebuilt' = Rebuilt
          BY <1>8 DEF S!Copy, Rebuilt, Strictness, S!Converted
    <3> QED BY <2>1, <2>3, <3>3, <3>4, Zenon DEF ProgressInv, Rebuilt
  <2> QED BY <1>8, <2>2, <2>3 DEF S!Copy, S!Then
<1>9. CASE S!DropTable \/ S!Rename
  <2>1. Rebuilt' = Rebuilt
        BY <1>9, Zenon DEF S!DropTable, S!Rename, Rebuilt, Strictness, S!Converted
  <2>2. strict_tx = "own" /\ UNCHANGED strict_tx
        BY <1>9 DEF S!DropTable, S!Rename, SavedInv
  <2>3. CASE S!DropTable
        BY <2>1, <2>2, <2>3 DEF S!DropTable, S!Then, StrictType, Databases, ProgressInv
  <2>4. CASE S!Rename
        BY <2>1, <2>2, <2>4 DEF S!Rename, S!Then, StrictType, Databases, ProgressInv
  <2> QED BY <1>9, <2>3, <2>4
<1>10. CASE S!RecreateIndex
  <2>1. Rebuilt' = Rebuilt
        BY <1>10 DEF S!RecreateIndex, Rebuilt, Strictness, S!Converted
  <2>2. strict_tx = "own" /\ UNCHANGED strict_tx
        BY <1>10 DEF S!RecreateIndex, SavedInv
  <2> QED BY <1>10, <2>1, <2>2, Zenon DEF S!RecreateIndex, S!Then, StrictType, Databases, ProgressInv
<1>11. CASE S!Commit \/ S!Rollback
       BY <1>11, Zenon DEF S!Commit, S!Rollback, S!Return, ProgressInv
<1>12. CASE S!Fail
  <2>1. UNCHANGED <<column, db, strict_tx, known, before>>
        BY <1>12, Zenon DEF S!Fail
  <2>2. CASE pc \in {"check", "ddl"}
    <3>1. pc' = "idle"
          BY <1>12, <2>2, Zenon DEF S!Fail, S!Return
    <3> QED BY <3>1 DEF ProgressInv
  <2>3. CASE pc \notin {"check", "ddl"}
    <3>1. pc' = "rollback"
          BY <1>12, <2>3, Zenon DEF S!Fail, S!Then
    <3>2. pc \in EarlySteps \/ strict_tx = "own"
          BY <1>12 DEF S!Fail, StrictType, SavedInv
    <3> QED BY <2>1, <3>1, <3>2 DEF ProgressInv
  <2> QED BY <2>2, <2>3
<1>13. ASSUME NEW i \in Ids, NEW v \in S!Classes, S!CallerWrites(i, v)
       PROVE  ProgressInv'
       BY <1>13 DEF S!CallerWrites, ProgressInv
<1>14. ASSUME NEW i \in Ids, NEW v \in S!Classes, S!OtherInserts(i, v)
       PROVE  ProgressInv'
  <2>1. pc \notin OwnSteps
        BY <1>14 DEF S!OtherInserts, SavedInv
  <2> QED BY <1>14, <2>1, Zenon DEF S!OtherInserts, StrictType, Databases, Tables, ProgressInv
<1>15. ASSUME NEW ix \in Indexes, S!OtherIndexes(ix)
       PROVE  ProgressInv'
  <2>1. pc \notin OwnSteps
        BY <1>15 DEF S!OtherIndexes, SavedInv
  <2> QED BY <1>15, <2>1, Zenon DEF S!OtherIndexes, StrictType, Databases, ProgressInv
<1> QED BY <1>1, <1>2, <1>3, <1>4, <1>5, <1>6, <1>7, <1>8, <1>9, <1>10, <1>11, <1>12, <1>13,
        <1>14, <1>15, Zenon DEF S!Next

(* What the list of indexes lacks was created by another connection after  *)
(* it was made.                                                            *)
LEMMA ListedStep ==
    ASSUME StrictType, SavedInv, ProgressInv, ListedInv, [S!Next]_S!vars
    PROVE  ListedInv'
<1> USE DEF OwnSteps, EarlySteps
<1>1. ASSUME UNCHANGED <<before, late, known>>,
             pc' \in OwnSteps \cup {"begin"} => pc \in OwnSteps \cup {"begin"}
      PROVE  ListedInv'
      BY <1>1, Zenon DEF ListedInv
<1>2. CASE UNCHANGED S!vars
      BY <1>1, <1>2, Zenon DEF S!vars
<1>3. CASE S!GetIndexSqls
  <2>1. strict_tx # "own" /\ pc \in EarlySteps
        BY <1>3 DEF S!GetIndexSqls, SavedInv
  <2>2. known' = before.ixs /\ UNCHANGED before
        BY <1>3, <2>1, Zenon DEF S!GetIndexSqls, ProgressInv
  <2> QED BY <2>2, Zenon DEF ListedInv
<1>4. CASE S!BeginImmediate \/ S!CreateStrict \/ S!Copy \/ S!DropTable \/ S!Rename \/ S!RecreateIndex
      BY <1>1, <1>4 DEF S!BeginImmediate, S!CreateStrict, S!Copy, S!DropTable, S!Rename,
         S!RecreateIndex, S!Then
<1>5. ASSUME NEW ix \in Indexes, S!OtherIndexes(ix)
      PROVE  ListedInv'
  <2>1. pc \notin OwnSteps /\ UNCHANGED <<pc, known>>
        BY <1>5 DEF S!OtherIndexes, SavedInv
  <2>2. CASE pc = "begin"
    <3>1. before'.ixs = before.ixs \cup {ix} /\ late'.ixs = late.ixs \cup {ix}
          BY <1>5, <2>2 DEF S!OtherIndexes, StrictType
    <3> QED BY <2>1, <2>2, <3>1, Zenon DEF ListedInv
  <2> QED BY <2>1, <2>2, Zenon DEF ListedInv
<1>6. ASSUME NEW i \in Ids, NEW v \in S!Classes, S!OtherInserts(i, v)
      PROVE  ListedInv'
  <2>1. before'.ixs = before.ixs /\ late'.ixs = late.ixs /\ UNCHANGED <<pc, known>>
        BY <1>6 DEF S!OtherInserts, StrictType
  <2> QED BY <2>1, Zenon DEF ListedInv
<1>7. CASE pc' \notin OwnSteps \cup {"begin"}
      BY <1>7, Zenon DEF ListedInv
<1>8. ASSUME S!Next
      PROVE  \/ S!GetIndexSqls \/ S!BeginImmediate \/ S!CreateStrict \/ S!Copy \/ S!DropTable
             \/ S!Rename \/ S!RecreateIndex \/ pc' \notin OwnSteps \cup {"begin"}
             \/ \E i \in Ids, v \in S!Classes : S!OtherInserts(i, v)
             \/ \E ix \in Indexes : S!OtherIndexes(ix)
      BY <1>8, Zenon DEF S!Next, S!CreateTable, S!Call, S!CheckStrictViolations, S!TableCreateSql,
         S!Commit, S!Fail, S!Rollback, S!CallerWrites, S!Then, S!Return
<1> QED BY <1>2, <1>3, <1>4, <1>5, <1>6, <1>7, <1>8, Zenon

(* What the call leaves when it answers. *)
LEMMA AnswerStep ==
    ASSUME RebuildInv, [S!Next]_S!vars
    PROVE  AllOrNothing'
<1> USE DEF OwnSteps, EarlySteps
<1> DEFINE Same == db.table = before.table /\ db.ixs = before.ixs
<1>1. CASE UNCHANGED S!vars
      BY <1>1, Zenon DEF S!vars, RebuildInv, AllOrNothing, S!AllOrNothing, S!Answered, S!Converted
<1>2. CASE ~S!Answered'
      BY <1>2, Zenon DEF AllOrNothing, S!AllOrNothing
<1>3. ASSUME NEW i \in Ids, NEW v \in S!Classes, S!OtherInserts(i, v), S!Answered'
      PROVE  AllOrNothing'
  <2>1. /\ S!Answered /\ UNCHANGED <<column, strict_tx, late, result, pc>>
        /\ db' = [db EXCEPT !.table.rows = S!Insert(@, i, v)]
        /\ before' = [before EXCEPT !.table.rows = S!Insert(@, i, v)]
        BY <1>3, Zenon DEF S!OtherInserts, S!Answered
  <2>2. /\ strict_tx # "own" /\ db.tmp = S!NoTable
        /\ result = "ok" => db.table = Rebuilt /\ before.ixs \ late.ixs \subseteq db.ixs
        /\ (result # "ok" /\ before.tx = "none") => Same
        BY <2>1, Zenon DEF RebuildInv, AllOrNothing, S!AllOrNothing, Rebuilt, Strictness
  <2>3. /\ db'.tmp = db.tmp /\ db'.ixs = db.ixs
        /\ db'.table = [db.table EXCEPT !.rows = S!Insert(db.table.rows, i, v)]
        /\ before'.tx = before.tx /\ before'.ixs = before.ixs
        /\ before'.table = [before.table EXCEPT !.rows = S!Insert(before.table.rows, i, v)]
        BY <2>1 DEF RebuildInv, StrictType, Databases
  <2>4. ASSUME result = "ok"
        PROVE  db'.table = Rebuilt'
    <3>1. db.table = S!Table(Strictness, S!Converted(before.table.rows))
          BY <2>2, <2>4, Zenon DEF Rebuilt
    <3>2. db.table.rows = S!Converted(before.table.rows)
          BY <3>1 DEF S!Table
    <3>3. S!Insert(db.table.rows, i, v) = S!Converted(S!Insert(before.table.rows, i, v))
          BY <3>2, InsertConverted DEF RebuildInv, StrictType
    <3>4. before'.table.rows = S!Insert(before.table.rows, i, v)
          BY <2>3 DEF RebuildInv, StrictType, Tables
    <3>5. db'.table = S!Table(Strictness, S!Insert(db.table.rows, i, v))
      <4>1. [S!Table(Strictness, S!Converted(before.table.rows)) EXCEPT !.rows = S!Insert(db.table.rows, i, v)]
              = S!Table(Strictness, S!Insert(db.table.rows, i, v))
            BY FilledTable, Zenon
      <4> QED BY <2>3, <3>1, <4>1
    <3>6. before'.table.strict = before.table.strict
          BY <2>3 DEF RebuildInv, StrictType, Tables
    <3>7. Strictness' = Strictness
          BY <2>1, <3>6, Zenon DEF Strictness
    <3>8. Rebuilt' = S!Table(Strictness, S!Converted(before'.table.rows))
          BY <2>1, <3>7 DEF Rebuilt, S!Converted
    <3> QED BY <3>3, <3>4, <3>5, <3>8
  <2> QED BY <2>1, <2>2, <2>3, <2>4, Zenon DEF AllOrNothing, S!AllOrNothing, Rebuilt, Strictness
<1>4. ASSUME NEW ix \in Indexes, S!OtherIndexes(ix), S!Answered'
      PROVE  AllOrNothing'
  <2>1. /\ S!Answered /\ UNCHANGED <<column, strict_tx, late, result, pc>>
        /\ db' = [db EXCEPT !.ixs = @ \cup {ix}] /\ before' = [before EXCEPT !.ixs = @ \cup {ix}]
        BY <1>4 DEF S!OtherIndexes, S!Answered
  <2>2. /\ db'.tmp = db.tmp /\ db'.table = db.table /\ db'.ixs = db.ixs \cup {ix}
        /\ before'.tx = before.tx /\ before'.table = before.table /\ before'.ixs = before.ixs \cup {ix}
        BY <2>1 DEF RebuildInv, StrictType, Databases
  <2> QED BY <2>1, <2>2, Zenon DEF RebuildInv, AllOrNothing, S!AllOrNothing, S!Converted
<1>5. CASE S!Commit
  <2>1. /\ db.tmp = S!NoTable /\ db.table = Rebuilt
        /\ known \subseteq db.ixs /\ before.ixs \ late.ixs \subseteq known
        BY <1>5, Zenon DEF S!Commit, RebuildInv, ProgressInv, ListedInv
  <2>2. /\ strict_tx' = "none" /\ result' = "ok"
        /\ UNCHANGED <<column, db, before, late>>
        BY <1>5, Zenon DEF S!Commit, S!Return
  <2> QED BY <2>1, <2>2, Zenon DEF AllOrNothing, S!AllOrNothing, Rebuilt, Strictness, S!Converted
<1>6. CASE S!Rollback
      BY <1>6 DEF S!Rollback, S!Return, RebuildInv, SavedInv, ProgressInv,
         AllOrNothing, S!AllOrNothing
<1>7. CASE (S!CheckStrictViolations \/ S!Fail) /\ S!Answered'
  <2>1. /\ pc \in {"check", "ddl"} /\ result' # "ok"
        /\ UNCHANGED <<db, strict_tx, known, before>>
        BY <1>7 DEF S!CheckStrictViolations, S!Fail, S!Then, S!Return, S!Answered
  <2> QED BY <2>1, Zenon DEF RebuildInv, SavedInv, ProgressInv, AllOrNothing, S!AllOrNothing
<1>8. ASSUME S!Next, S!Answered'
      PROVE  \/ \E i \in Ids, v \in S!Classes : S!OtherInserts(i, v)
             \/ \E ix \in Indexes : S!OtherIndexes(ix)
             \/ S!Commit \/ S!Rollback \/ S!CheckStrictViolations \/ S!Fail
      BY <1>8, Zenon DEF S!Next, S!CreateTable, S!Call, S!TableCreateSql, S!GetIndexSqls,
         S!BeginImmediate, S!CreateStrict, S!Copy, S!DropTable, S!Rename, S!RecreateIndex,
         S!CallerWrites, S!Then, S!Answered, RebuildInv, SavedInv
<1> QED BY <1>1, <1>2, <1>3, <1>4, <1>5, <1>6, <1>7, <1>8

(* RebuildInv is inductive. *)
LEMMA RebuildInductive ==
    /\ S!Init => RebuildInv
    /\ RebuildInv /\ [S!Next]_S!vars => RebuildInv'
<1>1. ASSUME S!Init
      PROVE  RebuildInv
  <2>1. S!NoTable \in Tables
        BY RowSetsType, Zenon DEF Tables, S!NoTable, S!Empty
  <2>2. StrictType
        BY <1>1, <2>1, Zenon DEF S!Init, StrictType, Databases, S!Columns, S!Types
  <2>3. SavedInv
        BY <1>1 DEF S!Init, SavedInv, OwnSteps
  <2>4. ProgressInv
        BY <1>1 DEF S!Init, ProgressInv, EarlySteps
  <2>5. AllOrNothing /\ ListedInv
        BY <1>1 DEF S!Init, AllOrNothing, S!AllOrNothing, S!Answered, ListedInv, OwnSteps
  <2> QED BY <2>2, <2>3, <2>4, <2>5 DEF RebuildInv
<1>2. ASSUME RebuildInv, [S!Next]_S!vars
      PROVE  RebuildInv'
      BY <1>2, StrictTypeStep, SavedStep, ProgressStep, ListedStep, AnswerStep DEF RebuildInv
<1> QED BY <1>1, <1>2

(* enable_strict_table leaves all of the new table or all of the old one,  *)
(* for any rows and indexes, whichever of its calls fails and whatever     *)
(* another connection commits between them.                                *)
THEOREM RebuildSafe == S!Spec => []AllOrNothing
<1>1. RebuildInv => AllOrNothing
      BY DEF RebuildInv
<1> QED BY <1>1, RebuildInductive, PTL DEF S!Spec

(* A value is allowed by the check exactly when a STRICT column of the     *)
(* type accepts what becomes of it.                                        *)
LEMMA AllowedIsAccepted ==
    ASSUME NEW type \in S!Types \ {"other"}, NEW v \in S!Classes
    PROVE  v \in S!Allowed(type) <=> S!TypeAccepts(type, S!Stored(type, v))
  BY DEF S!Types, S!Classes, S!Allowed, S!Stored, S!TypeAccepts

(* Nothing becomes NULL in a column of any type.                           *)
LEMMA NullStaysNull ==
    ASSUME NEW type, NEW v
    PROVE  S!Stored(type, v) = "null" <=> v = "null"
  BY DEF S!Stored

(* What holds from the check to the copy: the rows were allowed, except    *)
(* the late ones; a WITHOUT ROWID table has no NULL in its key; and a      *)
(* temporary table that is STRICT has a type STRICT knows.                 *)
CheckedSteps == {"ddl", "indexes", "begin", "create", "copy"}
CheckedInv ==
  /\ (pc \in CheckedSteps \cup {"idle", "check"} /\ result = "none") =>
       \A i \in DOMAIN db.table.rows : ~S!KeyRefuses(column, FALSE, db.table.rows[i])
  /\ pc \in CheckedSteps =>
       \A i \in DOMAIN db.table.rows \ late.rows : db.table.rows[i] \in S!Allowed(column.type)
  /\ pc = "copy" => ~(db.tmp.strict /\ column.type = "other")

(* A row that is inserted is refused by no key.                            *)
LEMMA InsertAccepted ==
    ASSUME NEW rows, NEW i, NEW v, NEW strict,
           S!Accepts(column, strict, S!Stored(column.type, v)),
           \A j \in DOMAIN rows : ~S!KeyRefuses(column, FALSE, rows[j])
    PROVE  \A j \in DOMAIN S!Insert(rows, i, v) : ~S!KeyRefuses(column, FALSE, S!Insert(rows, i, v)[j])
  BY Zenon DEF S!Insert, S!Accepts, S!KeyRefuses

(* CheckedInv is kept.                                                     *)
LEMMA CheckedStep ==
    ASSUME StrictType, SavedInv, CheckedInv, [S!Next]_S!vars
    PROVE  CheckedInv'
<1> USE DEF CheckedSteps
<1>1. ASSUME UNCHANGED <<column, db, late, result>>,
             pc' \in CheckedSteps => pc \in CheckedSteps,
             pc' \in {"idle", "check"} => pc \in {"idle", "check"},
             pc' = "copy" => pc = "copy"
      PROVE  CheckedInv'
      BY <1>1, Zenon DEF CheckedInv, S!KeyRefuses, S!Allowed
<1>2. CASE UNCHANGED S!vars
      BY <1>1, <1>2, Zenon DEF S!vars
<1>3. ASSUME NEW col \in S!Columns, NEW strict \in BOOLEAN, S!CreateTable(col, strict)
      PROVE  CheckedInv'
  <2>1. db'.table = S!Table(strict, S!Empty) /\ pc' = "idle"
        BY <1>3 DEF S!CreateTable, StrictType, Databases
  <2>2. DOMAIN db'.table.rows = {}
        BY <2>1 DEF S!Table, S!Empty
  <2> QED BY <2>1, <2>2 DEF CheckedInv
<1>4. CASE S!Call \/ S!TableCreateSql \/ S!GetIndexSqls
      BY <1>1, <1>4, Zenon DEF S!Call, S!TableCreateSql, S!GetIndexSqls, S!Then
<1>5. CASE S!CheckStrictViolations
  <2>1. UNCHANGED <<column, db, late>> /\ result = "none" /\ pc = "check"
        BY <1>5 DEF S!CheckStrictViolations, SavedInv
  <2>2. CASE pc' = "ddl"
    <3>1. S!Violations(db.table.rows) = {}
          BY <1>5, <2>2, Zenon DEF S!CheckStrictViolations, S!Return
    <3>2. \A i \in DOMAIN db.table.rows : db.table.rows[i] \in S!Allowed(column.type)
          BY <3>1 DEF S!Violations
    <3> QED BY <2>1, <2>2, <3>2, Zenon DEF CheckedInv, S!KeyRefuses, S!Allowed
  <2>3. CASE pc' = "idle" /\ result' # "none"
        BY <2>3 DEF CheckedInv
  <2> QED BY <1>5, <2>2, <2>3, Zenon DEF S!CheckStrictViolations, S!Then, S!Return
<1>6. CASE S!BeginImmediate
      BY <1>1, <1>6, Zenon DEF S!BeginImmediate, S!Then
<1>7. CASE S!CreateStrict
  <2>1. CASE pc' = "rollback"
        BY <2>1 DEF CheckedInv
  <2>2. CASE /\ ~(column.type = "other" /\ S!StrictSql) /\ pc' = "copy"
             /\ db' = [db EXCEPT !.tmp = S!Table(S!StrictSql, S!Empty)]
    <3>1. db'.table = db.table /\ db'.tmp.strict = S!StrictSql
          BY <2>2 DEF StrictType, Databases, S!Table
    <3>2. pc = "create" /\ UNCHANGED <<column, late, result>>
          BY <1>7, Zenon DEF S!CreateStrict, S!Then
    <3> QED BY <2>2, <3>1, <3>2, Zenon DEF CheckedInv, S!KeyRefuses, S!Allowed
  <2> QED BY <1>7, <2>1, <2>2, Zenon DEF S!CreateStrict, S!Then
<1>8. ASSUME NEW i \in Ids, NEW v \in S!Classes, S!CallerWrites(i, v) \/ S!OtherInserts(i, v)
      PROVE  CheckedInv'
  <2>1. /\ UNCHANGED <<column, pc, result>> /\ db' = [db EXCEPT !.table.rows = S!Insert(@, i, v)]
        /\ S!Accepts(column, db.table.strict, S!Stored(column.type, v))
        BY <1>8, Zenon DEF S!CallerWrites, S!OtherInserts
  <2>2. db'.table.rows = S!Insert(db.table.rows, i, v) /\ db'.tmp = db.tmp
        BY <2>1 DEF StrictType, Databases, Tables
  <2>3. pc \in CheckedSteps => late'.rows = late.rows \cup {i}
        BY <1>8 DEF S!CallerWrites, S!OtherInserts, StrictType
  <2> HIDE DEF CheckedSteps
  <2>4. (pc' \in CheckedSteps \cup {"idle", "check"} /\ result' = "none") =>
          \A j \in DOMAIN S!Insert(db.table.rows, i, v) :
             ~S!KeyRefuses(column, FALSE, S!Insert(db.table.rows, i, v)[j])
        BY <2>1, InsertAccepted, Zenon DEF CheckedInv
  <2>5. ASSUME pc \in CheckedSteps, NEW j \in DOMAIN S!Insert(db.table.rows, i, v) \ late'.rows
        PROVE  S!Insert(db.table.rows, i, v)[j] \in S!Allowed(column.type)
    <3>1. j # i /\ j \in DOMAIN db.table.rows \ late.rows /\ S!Insert(db.table.rows, i, v)[j] = db.table.rows[j]
          BY <2>3, <2>5 DEF S!Insert
    <3>2. db.table.rows[j] \in S!Allowed(column.type)
          BY <2>5, <3>1, Zenon DEF CheckedInv
    <3> QED BY <3>1, <3>2
  <2> QED BY <2>1, <2>2, <2>4, <2>5, Zenon DEF CheckedInv, S!Allowed, S!KeyRefuses
<1>9. ASSUME NEW ix \in Indexes, S!OtherIndexes(ix)
      PROVE  CheckedInv'
  <2>1. UNCHANGED <<column, pc, result>> /\ db'.table = db.table /\ db'.tmp = db.tmp /\ late'.rows = late.rows
        BY <1>9 DEF S!OtherIndexes, StrictType, Databases
  <2> QED BY <2>1, Zenon DEF CheckedInv, S!KeyRefuses, S!Allowed
<1>10. ASSUME S!Copy \/ S!DropTable \/ S!Rename \/ S!RecreateIndex \/ S!Commit \/ S!Fail \/ S!Rollback
       PROVE  CheckedInv'
  <2>1. pc' \notin CheckedSteps /\ (pc' \in {"idle", "check"} => result' # "none")
        BY <1>10, Zenon DEF S!Copy, S!DropTable, S!Rename, S!RecreateIndex, S!Commit, S!Fail,
           S!Rollback, S!Then, S!Return
  <2> QED BY <2>1, Zenon DEF CheckedInv
<1> QED BY <1>2, <1>3, <1>4, <1>5, <1>6, <1>7, <1>8, <1>9, <1>10, Zenon DEF S!Next

(* When the copy comes to a row that the check has allowed, only a key     *)
(* that may not be NULL can refuse it.                                     *)
LEMMA CopyForeseen ==
    ASSUME StrictType, SavedInv, CheckedInv
    PROVE  pc = "copy" => S!NothingMissed
<1> SUFFICES ASSUME pc = "copy", NEW i \in DOMAIN db.table.rows \ late.rows
             PROVE  \/ S!Accepts(column, db.tmp.strict, S!Stored(column.type, db.table.rows[i]))
                    \/ column.role = "key" /\ db.table.rows[i] = "null"
    BY Zenon DEF S!NothingMissed
<1> DEFINE v == db.table.rows[i]
<1>1. result = "none"
      BY DEF SavedInv
<1>2. v \in S!Allowed(column.type) /\ ~S!KeyRefuses(column, FALSE, v)
      BY <1>1, Zenon DEF CheckedInv, CheckedSteps
<1>3. v \in S!Classes /\ column.type \in S!Types
      BY RowSetsType DEF StrictType, Databases, Tables, S!Columns
<1>4. db.tmp.strict => S!TypeAccepts(column.type, S!Stored(column.type, v))
      BY <1>2, <1>3, AllowedIsAccepted, Zenon DEF CheckedInv
<1>5. S!Stored(column.type, v) = "null" => v = "null"
      BY NullStaysNull
<1>6. S!KeyRefuses(column, db.tmp.strict, S!Stored(column.type, v)) => column.role = "key" /\ v = "null"
      BY <1>2, <1>5, Zenon DEF S!KeyRefuses
<1> QED BY <1>4, <1>6, Zenon DEF S!Accepts

(* The check of enable_strict_table foresees its copy, for any rows of any *)
(* storage classes and whatever another connection inserts between the     *)
(* two: it refuses no table without a row that STRICT refuses, and of the  *)
(* rows it saw the copy refuses none but a NULL in a primary key.          *)
THEOREM CheckIsExact == S!Spec => CheckForeseesCopy
<1>1. ASSUME RebuildInv, S!Next, pc = "check", result' = "strict_violations"
      PROVE  \E i \in DOMAIN db.table.rows : ~S!Accepts(column, TRUE, S!Stored(column.type, db.table.rows[i]))
  <2>1. result = "none"
        BY <1>1 DEF RebuildInv, SavedInv
  <2>2. S!CheckStrictViolations
        BY <1>1, <2>1, Zenon DEF S!Next, S!CreateTable, S!Call, S!TableCreateSql, S!GetIndexSqls,
           S!BeginImmediate, S!CreateStrict, S!Copy, S!DropTable, S!Rename, S!RecreateIndex,
           S!Commit, S!Fail, S!Return, S!Rollback, S!CallerWrites, S!OtherInserts, S!OtherIndexes
  <2>3. S!Violations(db.table.rows) # {}
        BY <1>1, <2>1, <2>2, Zenon DEF S!CheckStrictViolations, S!Then, S!Return
  <2>4. PICK i \in DOMAIN db.table.rows : db.table.rows[i] \notin S!Allowed(column.type)
        BY <2>3, Zenon DEF S!Violations
  <2>5. db.table.rows[i] \in S!Classes /\ column.type \in S!Types
        BY <1>1, RowSetsType DEF RebuildInv, StrictType, Databases, Tables, S!Columns
  <2>6. column.type # "other"
        BY <2>4, <2>5 DEF S!Allowed
  <2>7. ~S!TypeAccepts(column.type, S!Stored(column.type, db.table.rows[i]))
        BY <2>4, <2>5, <2>6, AllowedIsAccepted
  <2> QED BY <2>7, Zenon DEF S!Accepts
<1>2. RebuildInv /\ [S!Next]_S!vars =>
        [(pc = "check" /\ result' = "strict_violations") =>
           \E i \in DOMAIN db.table.rows :
              ~S!Accepts(column, TRUE, S!Stored(column.type, db.table.rows[i]))]_S!vars
      BY <1>1, Zenon
<1>3. S!Init => CheckedInv
      BY DEF S!Init, CheckedInv, CheckedSteps
<1>4. RebuildInv /\ CheckedInv /\ [S!Next]_S!vars => CheckedInv'
      BY CheckedStep DEF RebuildInv
<1>5. RebuildInv /\ CheckedInv => (pc = "copy" => S!NothingMissed)
      BY CopyForeseen DEF RebuildInv
<1> QED BY <1>2, <1>3, <1>4, <1>5, RebuildInductive, PTL
        DEF S!Spec, CheckForeseesCopy, S!CheckForeseesCopy, S!NoFalseAlarm
=============================================================================
