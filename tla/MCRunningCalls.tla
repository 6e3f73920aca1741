--------------------------- MODULE MCRunningCalls ---------------------------
(***************************************************************************)
(* Calls that run for long and must end, for TLC: cancellable statements   *)
(* (Cancellation), backups (Backup) and batches of rows on their way to a  *)
(* consumer (RowDelivery).  The three share no state; a behaviour is a     *)
(* behaviour of one of them, with the others at rest.  Cancellation has    *)
(* two families: calls of two threads without progress subscribers, where  *)
(* a statement may run for ever, and one thread with two progress          *)
(* subscribers, where MaxFires bounds the callbacks.                       *)
(***************************************************************************)
EXTENDS Cancellation

CONSTANTS
  Pages, StepSizes, MaxWrites, MaxCalls,   \* see Backup
  MaxRows, Sizes,                          \* see RowDelivery
  t1, k1, k2, p1

ASSUME BackupAssumption == Pages \in Nat /\ StepSizes \subseteq Int
ASSUME RowsAssumption == MaxRows \in Nat /\ Sizes \subseteq Int

VARIABLES
  focus,       \* the part, or the family, that moves
  copy_pc, kind, n, copy_flag, busy, version, pass, copied, dst, retries,
  reported, copy_result, calls,
  rows, mode, size, pos, stmt, conn, seen, lost, told, errored, fin

B == INSTANCE Backup WITH pc <- copy_pc, flag <- copy_flag, told <- reported, result <- copy_result
R == INSTANCE RowDelivery

backupVars == <<copy_pc, kind, n, copy_flag, busy, version, pass, copied, dst,
                retries, reported, copy_result, calls>>
rowVars == <<rows, mode, size, pos, stmt, conn, seen, lost, told, errored, fin>>
allVars == <<focus, vars, backupVars, rowVars>>

(* The token lists callers pass: none, one, two, and the same token twice. *)
Lists == {<<>>, <<k1>>, <<k1, k2>>, <<k2, k2>>}
EveryOne == [i \in Ticks |-> IF i = p1 THEN 1 ELSE 2]

MCInit ==
  /\ focus \in {"cancel", "ticks", "backup", "rows"}
  /\ Init /\ B!Init /\ R!Init

CancelNext == Next /\ ticks' = {}
TickNext == Next /\ token'[k2] = "none" /\ \A t \in Threads \ {t1} : pc'[t] = "idle"

MCNext ==
  /\ UNCHANGED focus
  /\ \/ focus = "cancel" /\ CancelNext /\ UNCHANGED <<backupVars, rowVars>>
     \/ focus = "ticks" /\ TickNext /\ UNCHANGED <<backupVars, rowVars>>
     \/ focus = "backup" /\ B!Next /\ UNCHANGED <<vars, rowVars>>
     \/ focus = "rows" /\ R!Next /\ UNCHANGED <<vars, backupVars>>

(* The fairness of the three FairSpecs. *)
CallFairness ==
  \A t \in Threads :
    /\ WF_vars(GuardRegister(t)) /\ WF_vars(Run(t))
    /\ WF_vars(Fire(t)) /\ WF_vars(CheckOne(t))
    /\ WF_vars(Interrupt(t)) /\ WF_vars(TickPass(t))
    /\ WF_vars(GuardDrop(t)) /\ WF_vars(Return(t))

BackupFairness ==
  /\ WF_backupVars(B!Poll) /\ WF_backupVars(B!Step \/ B!StepBusy) /\ WF_backupVars(B!Return)

MCFairSpec ==
  /\ MCInit /\ [][MCNext]_allVars
  /\ CallFairness /\ BackupFairness /\ WF_rowVars(R!Consume)

(* CancelStops where SQLite never stops calling back: the family without   *)
(* progress subscribers, whose callbacks MaxFires does not bound.          *)
CancelStopsStatement == (focus = "cancel") => CancelStops

(* The properties of Backup and RowDelivery; their modules say what each   *)
(* one states.                                                             *)

(* A backup says ok exactly when the destination is a complete copy. *)
OkMeansCopied == B!OkMeansCopied

(* Every backup ends, by its token or when the locks of others are gone. *)
BackupEnds == B!BackupEnds

(* A consumer gets the result, in order, or is told otherwise. *)
DeliversTheResult == R!DeliversTheResult

(* An enumeration ends and gives its statement back. *)
EnumerationEnds == R!EnumerationEnds
=============================================================================
