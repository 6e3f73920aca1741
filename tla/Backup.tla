------------------------------- MODULE Backup -------------------------------
(***************************************************************************)
(* backup, restore and backup_with_progress (nif.rs).  A call runs the     *)
(* whole copy with the connection mutex held, so only other connections    *)
(* can lock or change the source or the destination meanwhile.  The copy   *)
(* is one transaction on the destination: SQLite commits it with the last  *)
(* page and rolls it back when the backup object is dropped before that.   *)
(* backup and restore leave the loop to rusqlite, which gives up when busy;*)
(* backup_with_progress has its own loop, which never does.                *)
(***************************************************************************)
EXTENDS Integers

CONSTANTS
  Pages,        \* pages of the source
  StepSizes,    \* pages_per_step values callers pass
  MaxWrites,    \* bound: commits of other connections to the source
  MaxCalls      \* bound: calls

VARIABLES
  pc,        \* "idle", "poll" (looking at the tokens), "step" or "return"
  kind,      \* which NIF runs
  n,         \* pages per step
  flag,      \* a token of the call is signalled
  busy,      \* another connection holds a lock the copy needs
  version,   \* version of the source
  pass,      \* version the current pass started on
  copied,    \* pages copied in this pass
  dst,       \* version in the destination; -1 for what was there before
  retries,   \* busy steps so far (only whether there was one, for backup_with_progress)
  told,      \* remaining, as last sent to the caller's pid; -1 for none
  result, calls

callVars == <<pc, kind, n, copied, pass, dst, retries, told, result>>
vars == <<pc, kind, n, flag, busy, version, pass, copied, dst, retries, told, result, calls>>

RestoreRetries == 3   \* rusqlite: Connection::restore gives up then

Init ==
  /\ pc = "idle" /\ kind = "backup" /\ n = 1 /\ flag = FALSE /\ busy = FALSE
  /\ version = 0 /\ pass = 0 /\ copied = 0 /\ dst = -1
  /\ retries = 0 /\ told = -1 /\ result = "none" /\ calls = 0

(* backup_with_progress refuses a step that is not positive. *)
Admits_any(k, size) == TRUE
Admits(k, size) == k = "progress" => size >= 1

Call(k, size) ==
  /\ pc = "idle" /\ calls < MaxCalls
  /\ calls' = calls + 1
  /\ kind' = k /\ n' = size
  /\ pc' = IF Admits(k, size) THEN "poll" ELSE "return"
  /\ result' = IF Admits(k, size) THEN "none" ELSE "invalid"
  /\ pass' = version /\ copied' = 0 /\ dst' = -1 /\ retries' = 0 /\ told' = -1
  /\ flag' = FALSE
  /\ UNCHANGED <<busy, version>>

(* The tokens are looked at before every step; the others have none. *)
Poll_once ==
  /\ pc = "poll"
  /\ IF kind = "progress" /\ flag /\ copied = 0 /\ retries = 0
     THEN pc' = "return" /\ result' = "cancelled" /\ copied' = 0
     ELSE pc' = "step" /\ UNCHANGED <<result, copied>>
  /\ UNCHANGED <<kind, n, flag, busy, version, pass, dst, retries, told, calls>>

Poll ==
  /\ pc = "poll"
  /\ IF kind = "progress" /\ flag
     THEN pc' = "return" /\ result' = "cancelled" /\ copied' = 0
     ELSE pc' = "step" /\ UNCHANGED <<result, copied>>
  /\ UNCHANGED <<kind, n, flag, busy, version, pass, dst, retries, told, calls>>

(* What a busy step leads to: rusqlite's backup stops at the first, its    *)
(* restore at the third, our loop sleeps and tries again.                  *)
GivesUp(k, count) == k = "backup" \/ (k = "restore" /\ count >= RestoreRetries)

AfterBusy_done(k, count) == "ok"
AfterBusy(k, count) == IF GivesUp(k, count) THEN "busy" ELSE "none"

StepBusy ==
  /\ pc = "step" /\ busy
  /\ retries' = IF kind = "restore" THEN retries + 1 ELSE 1
  /\ result' = AfterBusy(kind, retries')
  /\ pc' = IF result' = "none" THEN "poll" ELSE "return"
  /\ UNCHANGED <<kind, n, flag, busy, version, pass, copied, dst, told, calls>>

(* How far a step gets. *)
Reach(from) == IF from + n < Pages THEN from + n ELSE Pages

Step_tellsFirst ==
  LET from == IF version = pass THEN copied ELSE 0
      now == Reach(from)
  IN /\ pc = "step" /\ ~busy
     /\ pass' = version
     /\ copied' = now
     /\ told' = IF kind = "progress" THEN Pages - from ELSE told
     /\ dst' = IF now = Pages THEN version ELSE dst
     /\ result' = IF now = Pages THEN "ok" ELSE "none"
     /\ pc' = IF now = Pages THEN "return" ELSE "poll"
     /\ UNCHANGED <<kind, n, flag, busy, version, retries, calls>>

(* A step that copies: from the start if the source changed meanwhile.     *)
Step ==
  LET from == IF version = pass THEN copied ELSE 0
      now == Reach(from)
  IN /\ pc = "step" /\ ~busy
     /\ pass' = version
     /\ copied' = now
     /\ told' = IF kind = "progress" THEN Pages - now ELSE told
     /\ dst' = IF now = Pages THEN version ELSE dst
     /\ result' = IF now = Pages THEN "ok" ELSE "none"
     /\ pc' = IF now = Pages THEN "return" ELSE "poll"
     /\ UNCHANGED <<kind, n, flag, busy, version, retries, calls>>

(* Anything else SQLite reports ends the call through `?`. *)
StepFails ==
  /\ pc = "step"
  /\ result' = "error" /\ pc' = "return"
  /\ UNCHANGED <<kind, n, flag, busy, version, pass, copied, dst, retries, told, calls>>

Return ==
  /\ pc = "return"
  /\ pc' = "idle" /\ result' = "none" /\ told' = -1
  /\ dst' = -1 /\ copied' = 0 /\ retries' = 0
  /\ UNCHANGED <<kind, n, flag, busy, version, pass, calls>>

Cancel ==
  /\ pc # "idle"
  /\ flag' = TRUE
  /\ UNCHANGED <<busy, version, callVars, calls>>

(* Other connections lock and unlock, and change the source while they     *)
(* hold the lock.                                                          *)
Others ==
  /\ \/ busy' = ~busy /\ UNCHANGED version
     \/ busy /\ version < MaxWrites /\ version' = version + 1 /\ UNCHANGED busy
  /\ UNCHANGED <<flag, callVars, calls>>

Next ==
  \/ \E k \in {"backup", "restore"} : Call(k, Pages)
  \/ \E size \in StepSizes : Call("progress", size)
  \/ Poll \/ Step \/ StepBusy \/ StepFails \/ Return \/ Cancel \/ Others

Spec == Init /\ [][Next]_vars

(* The thread in the NIF keeps going; nothing is assumed of the others.    *)
FairSpec == Spec /\ WF_vars(Poll) /\ WF_vars(Step \/ StepBusy) /\ WF_vars(Return)
----------------------------------------------------------------------------
(* The call says ok exactly when the destination holds a complete copy: a  *)
(* busy step, a cancellation or an error never passes for success, and     *)
(* leaves the destination as it was. And the last progress message before  *)
(* success says nothing remains, however often the copy restarted because  *)
(* the source changed.                                                     *)
OkMeansCopied == pc = "return" =>
  /\ (result = "ok") <=> (dst # -1)
  /\ (kind = "progress" /\ result = "ok") => told = 0

(* A signalled token ends a backup_with_progress, even one that would      *)
(* never finish because a lock it needs is never released or the source    *)
(* never stops changing.                                                   *)
CancelEnds == (pc # "idle" /\ kind = "progress" /\ flag) ~> (pc = "idle")

(* Every call returns once the locks of other connections are gone for     *)
(* good: no step size makes the loop spin without copying.                 *)
CallReturns == <>[](~busy) => ((pc # "idle") ~> (pc = "idle"))

(* Every backup ends: by its token, or when the locks of others are gone.  *)
BackupEnds == CancelEnds /\ CallReturns
=============================================================================
