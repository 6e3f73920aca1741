----------------------------- MODULE MCCommits -----------------------------
(***************************************************************************)
(* What happens around a commit, for TLC: the WAL hook and the             *)
(* autocheckpoint it emulates (WalHook), the transaction calls and the     *)
(* process that follows them through the hooks (Transactions), and the     *)
(* rebuild of a table as STRICT in one transaction (StrictRebuild).  The   *)
(* three share no state; a behaviour is a behaviour of one of them, with   *)
(* the others at rest in their initial states.                             *)
(***************************************************************************)
EXTENDS Integers, FiniteSets

CONSTANTS
  Dbs, Pids, Spellings, Values, IntMax, Default, MaxFrames, MaxFaults,   \* see WalHook
  Rows, Parent, Child, Names, MaxDepth, MaxTotal,                \* see Transactions
  Ids, Indexes                                                   \* see StrictRebuild

(* Values: thresholds on both sides of every boundary, one that fits no C  *)
(* int.                                                                    *)
Thresholds == {-1, 0, 1, 2, 3}

ASSUME IntAssumption == IntMax \in Nat /\ Default \in 1..IntMax
ASSUME ValuesAssumption == Values \subseteq Int
ASSUME RowsAssumption == IsFiniteSet(Rows)

VARIABLES
  focus,       \* the part that moves
  slot, builtin, pages, subs, frames, done, tried, faults, reader, rival,
  missed, bypassed,
  tx, writing, stack, table, committed, changes, total, buffer, mirror,
  announced, rewound, torn, last,
  column, db, saved, strict_tx, pc, known, late, result, before

W == INSTANCE WalHook WITH Names <- Spellings
X == INSTANCE Transactions
S == INSTANCE StrictRebuild WITH tx <- strict_tx

walVars == <<slot, builtin, pages, subs, frames, done, tried, faults, reader,
             rival, missed, bypassed>>
txVars == <<tx, writing, stack, table, committed, changes, total, buffer, mirror,
            announced, rewound, torn, last>>
strictVars == <<column, db, saved, strict_tx, pc, known, late, result, before>>
allVars == <<focus, walVars, txVars, strictVars>>

MCInit ==
  /\ focus \in {"wal", "transactions", "strict"}
  /\ W!Init /\ X!Init /\ S!Init

MCNext ==
  /\ UNCHANGED focus
  /\ \/ focus = "wal" /\ W!Next /\ UNCHANGED <<txVars, strictVars>>
     \/ focus = "transactions" /\ X!Next /\ UNCHANGED <<walVars, strictVars>>
     \/ focus = "strict" /\ S!Next /\ UNCHANGED <<walVars, txVars>>

MCSpec == MCInit /\ [][MCNext]_allVars

(* The properties of the three modules, which say what each one states.    *)

(* set_pragma keeps the threshold and the subscribers. *)
KeepsBothBehaviors == W!KeepsBothBehaviors

(* The emulated autocheckpoint is the one SQLite promises. *)
AutoCheckpointSpec == W!AutoCheckpointSpec

(* A process that listens to the hooks has the committed table. *)
FollowerAgrees == X!FollowerAgrees

(* query_with_changes reports the rows of its own statement. *)
ReportedIsOwn == X!ReportedIsOwn

(* enable_strict_table leaves the table it found or a complete STRICT one. *)
AllOrNothing == S!AllOrNothing

(* The check of enable_strict_table foresees what its copy will refuse. *)
CheckForeseesCopy == S!CheckForeseesCopy
=============================================================================
