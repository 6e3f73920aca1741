------------------------------ MODULE WalHook ------------------------------
(***************************************************************************)
(* The WAL hook (wal_hook.rs), the wal_autocheckpoint pragma (get_pragma   *)
(* and set_pragma of nif.rs, pragma.rs) and wal_checkpoint (nif.rs).       *)
(* SQLite has one wal_hook slot per connection and implements its          *)
(* autocheckpoint as the default occupant of it.  xqlite puts its own      *)
(* callback there, emulates the autocheckpoint in it, and takes the slot   *)
(* back whenever set_pragma changes the threshold.                         *)
(*                                                                         *)
(* Every action is one NIF call, or one commit inside one: the connection  *)
(* mutex serialises them.  Readers and checkpointers of other connections  *)
(* come and go between them.                                               *)
(***************************************************************************)
EXTENDS Integers, FiniteSets

CONSTANTS
  Dbs,            \* attached databases in WAL mode
  Pids,           \* subscribers
  Names,          \* spellings of the pragma's name callers use
  Values,         \* values callers pass
  IntMax,         \* largest C int (small here)
  Default,        \* DEFAULT_WAL_AUTOCHECKPOINT_PAGES (small here)
  MaxFrames,      \* bound: frames in a log
  MaxFaults       \* bound: panics caught in the callback

VARIABLES
  slot,        \* who is in the slot: "ours", "sqlite" or "none"
  builtin,     \* the threshold of SQLite's own hook while it is in the slot
  pages,       \* WalDispatch.autocheckpoint_pages
  subs,        \* WalDispatch.list
  frames, done, tried, faults,   \* see AutoCheckpoint
  reader,      \* databases with a reader of another connection on an old snapshot
  rival,       \* databases another connection is checkpointing
  missed,      \* this step is a commit that did not reach some subscriber
  bypassed     \* history: the pragma ran without the repair since it last ran with it

vars == <<slot, builtin, pages, subs, frames, done, tried, faults, reader, rival,
          missed, bypassed>>

Init ==
  /\ slot = "ours" /\ builtin = 0 /\ pages = Default
  /\ subs = {}
  /\ frames = [d \in Dbs |-> 0] /\ done = [d \in Dbs |-> FALSE]
  /\ tried = {} /\ faults = 0
  /\ reader = {} /\ rival = {}
  /\ missed = FALSE /\ bypassed = FALSE
----------------------------------------------------------------------------
(* sqlite3Atoi: a number that does not fit a C int counts as 0. *)
Atoi(v) == IF v \in (-IntMax - 1)..IntMax THEN v ELSE 0

(* PRAGMA wal_autocheckpoint = v inside SQLite, where names have no case:  *)
(* a positive v puts the default hook in the slot, any other empties it.   *)
SqlitePragma(v) ==
  /\ slot' = IF Atoi(v) > 0 THEN "sqlite" ELSE "none"
  /\ builtin' = IF Atoi(v) > 0 THEN Atoi(v) ELSE 0

(* set_pragma: the pragma runs, then the repair, for the exact name only:  *)
(* mirror the threshold SQLite reports, reinstall our callback.            *)
SetPragma_noReinstall(name, v) ==
  /\ SqlitePragma(v)
  /\ pages' = builtin'
  /\ bypassed' = FALSE /\ missed' = FALSE
  /\ UNCHANGED <<subs, frames, done, tried, faults, reader, rival>>

SetPragma(name, v) ==
  /\ IF name = "wal_autocheckpoint"
     THEN /\ slot' = "ours" /\ builtin' = 0
          /\ pages' = IF Atoi(v) > 0 THEN Atoi(v) ELSE 0
          /\ bypassed' = FALSE
     ELSE SqlitePragma(v) /\ bypassed' = TRUE /\ UNCHANGED pages
  /\ missed' = FALSE
  /\ UNCHANGED <<subs, frames, done, tried, faults, reader, rival>>

(* The same pragma through query, execute or execute_batch: no repair.     *)
RawPragma(v) ==
  /\ SqlitePragma(v)
  /\ bypassed' = TRUE /\ missed' = FALSE
  /\ UNCHANGED <<pages, subs, frames, done, tried, faults, reader, rival>>

Register(p) ==
  /\ subs' = subs \cup {p} /\ missed' = FALSE
  /\ UNCHANGED <<slot, builtin, pages, frames, done, tried, faults, reader, rival, bypassed>>

Unregister(p) ==
  /\ subs' = subs \ {p} /\ missed' = FALSE
  /\ UNCHANGED <<slot, builtin, pages, frames, done, tried, faults, reader, rival, bypassed>>
----------------------------------------------------------------------------
(* A checkpoint of one database moves everything unless a reader holds it  *)
(* back, and nothing while another connection is checkpointing.            *)
Moves(d) == d \notin rival /\ d \notin reader

(* The log is restarted by the first commit after a complete checkpoint.   *)
LogAfter(d, n) == (IF done[d] THEN 0 ELSE frames[d]) + n

(* What the callback in the slot tries after a commit that leaves size     *)
(* frames: wal_hook_callback, or SQLite's default hook.                    *)
Due_above(d, size) ==
  \/ slot = "ours" /\ pages > 0 /\ size > pages
  \/ slot = "sqlite" /\ size >= builtin

Due(d, size) ==
  \/ slot = "ours" /\ pages > 0 /\ size >= pages
  \/ slot = "sqlite" /\ size >= builtin

(* A commit of n frames to d; the callback notifies, then checkpoints, and *)
(* ignores how the checkpoint went.                                        *)
Commit(d, n) ==
  /\ LogAfter(d, n) <= MaxFrames
  /\ LET due == Due(d, LogAfter(d, n))
     IN /\ tried' = IF due THEN {d} ELSE {}
        /\ done' = [done EXCEPT ![d] = due /\ Moves(d)]
  /\ frames' = [frames EXCEPT ![d] = LogAfter(d, n)]
  /\ missed' = (subs # {} /\ slot # "ours")
  /\ UNCHANGED <<slot, builtin, pages, subs, faults, reader, rival, bypassed>>

(* Our callback panics on the way: guard_ffi_callback answers SQLITE_OK    *)
(* and the commit stands, but the messages and the checkpoint may be lost. *)
CommitPanics(d, n) ==
  /\ slot = "ours" /\ faults < MaxFaults
  /\ LogAfter(d, n) <= MaxFrames
  /\ frames' = [frames EXCEPT ![d] = LogAfter(d, n)]
  /\ done' = [done EXCEPT ![d] = FALSE]
  /\ tried' = {}
  /\ faults' = faults + 1
  /\ missed' \in {FALSE, subs # {}}
  /\ UNCHANGED <<slot, builtin, pages, subs, reader, rival, bypassed>>

(* wal_checkpoint: a NULL schema pointer means every attached database to  *)
(* sqlite3_wal_checkpoint_v2, and the others are done when one is busy.    *)
Targets(schema) == IF schema = "nil" THEN Dbs ELSE {schema}

WalCheckpoint(schema, mode) ==
  /\ LET on == Targets(schema)
     IN /\ done' = [d \in Dbs |-> done[d] \/ (d \in on /\ Moves(d))]
        /\ frames' = [d \in Dbs |-> IF mode = "truncate" /\ d \in on /\ Moves(d) THEN 0 ELSE frames[d]]
  /\ missed' = FALSE
  /\ UNCHANGED <<slot, builtin, pages, subs, tried, faults, reader, rival, bypassed>>

(* Other connections. *)
Others ==
  /\ \E d \in Dbs : \/ reader' \in {reader \cup {d}, reader \ {d}} /\ UNCHANGED rival
                    \/ rival' \in {rival \cup {d}, rival \ {d}} /\ UNCHANGED reader
  /\ missed' = FALSE
  /\ UNCHANGED <<slot, builtin, pages, subs, frames, done, tried, faults, bypassed>>

Modes == {"passive", "full", "restart", "truncate"}

Next ==
  \/ \E v \in Values : RawPragma(v) \/ \E name \in Names : SetPragma(name, v)
  \/ \E p \in Pids : Register(p) \/ Unregister(p)
  \/ \E d \in Dbs, n \in 1..2 : Commit(d, n) \/ CommitPanics(d, n)
  \/ \E s \in Dbs \cup {"nil"}, mode \in Modes : WalCheckpoint(s, mode)
  \/ Others

Spec == Init /\ [][Next]_vars
----------------------------------------------------------------------------
(* get_pragma("wal_autocheckpoint") answers our own threshold. *)
GetPragma == pages

(* The threshold commits are really subject to. *)
Effective == IF slot = "ours" THEN pages ELSE IF slot = "sqlite" THEN builtin ELSE 0

(* get_pragma reports the threshold commits are really subject to, and our *)
(* callback is in the slot, unless the pragma ran last as plain SQL or     *)
(* under another spelling of its name: set_pragma under the exact name     *)
(* repairs whatever happened before it.                                    *)
ReportedIsEffective == ~bypassed => slot = "ours" /\ GetPragma = Effective

(* A commit that some subscriber does not hear of is one whose callback    *)
(* panicked, or one made while such a bypass has our callback displaced:   *)
(* set_pragma keeps the subscribers while it changes the threshold.        *)
EveryCommitHeard == [][missed' => bypassed \/ faults' # faults]_vars

(* Whoever is in the slot, the autocheckpoint is the one SQLite promises:  *)
(* the effective threshold, the same database, tried exactly when the log  *)
(* has grown to it.                                                        *)
A == INSTANCE AutoCheckpoint WITH limit <- Effective
AutoCheckpointSpec == A!Spec

(* set_pragma "keeps both behaviors": the threshold asked for is the one   *)
(* in force, and the subscribers hear every commit.                        *)
KeepsBothBehaviors ==
  ReportedIsEffective /\ [][ReportedIsEffective']_vars /\ EveryCommitHeard
=============================================================================
