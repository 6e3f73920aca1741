----------------------------- MODULE Authorizer -----------------------------
(***************************************************************************)
(* The deny-list authorizer (authorizer.rs; set_authorizer and             *)
(* remove_authorizer in nif.rs) and the statements it decides about.       *)
(* SQLite asks while it prepares.  Installing an authorizer expires every  *)
(* prepared statement, which SQLite then prepares again when the statement *)
(* next STARTS; a statement that is under way runs on.  Clearing the       *)
(* authorizer expires nothing.  Every call holds the connection mutex for  *)
(* all it does, so a call is one step.                                     *)
(***************************************************************************)
EXTENDS Naturals

CONSTANTS
  Mapped,     \* action codes authorizer.rs has a kind for (named by their atom)
  Unmapped,   \* action codes a later SQLite reports
  Foreign,    \* atoms that name no kind
  Stmts

VARIABLES
  installed,  \* SQLite has an authorizer callback
  denied,     \* the kinds its closure owns
  asked,      \* the atoms of the last list set_authorizer accepted; {} once removed
  st,         \* "none", "ready" (prepared or finished), "running"
  attempts,   \* the action codes a statement's program attempts
  expired,    \* prepared before the current authorizer
  result      \* of the last call

vars == <<installed, denied, asked, st, attempts, expired, result>>

Codes == Mapped \cup Unmapped
Atoms == Mapped \cup Foreign \cup {"unknown"}

(* ActionKind::of: a code without a kind of its own is Unknown. *)
Of_dropsUnmapped(code) == code
Of(code) == IF code \in Mapped THEN code ELSE "unknown"

(* ActionKind::from_atom *)
Names(atom) == atom \in Mapped \cup {"unknown"}

Denies(codes) == installed /\ \E c \in codes : Of(c) \in denied

Init ==
  /\ installed = FALSE /\ denied = {} /\ asked = {}
  /\ st = [s \in Stmts |-> "none"] /\ attempts = [s \in Stmts |-> {}]
  /\ expired = [s \in Stmts |-> FALSE] /\ result = "none"

Reset(s) ==
  /\ st' = [st EXCEPT ![s] = "none"]
  /\ attempts' = [attempts EXCEPT ![s] = {}]
  /\ expired' = [expired EXCEPT ![s] = FALSE]

Install(kinds) ==
  /\ installed' = TRUE /\ denied' = kinds
  /\ expired' = [s \in Stmts |-> st[s] # "none"]

SetAuthorizer_skipsForeign(atoms) ==
  /\ Install({a \in atoms : Names(a)})
  /\ result' = IF \A a \in atoms : Names(a) THEN "ok" ELSE "invalid_authorizer_action"
  /\ asked' = IF \A a \in atoms : Names(a) THEN atoms ELSE asked
  /\ UNCHANGED <<st, attempts>>

SetAuthorizer(atoms) ==
  /\ IF \A a \in atoms : Names(a)
     THEN Install(atoms) /\ result' = "ok" /\ asked' = atoms
     ELSE result' = "invalid_authorizer_action" /\ UNCHANGED <<installed, denied, asked, expired>>
  /\ UNCHANGED <<st, attempts>>

RemoveAuthorizer ==
  /\ installed' = FALSE /\ denied' = {} /\ asked' = {}
  /\ result' = "ok"
  /\ UNCHANGED <<st, attempts, expired>>

Prepare(s, codes) ==
  /\ st[s] = "none"
  /\ IF Denies(codes)
     THEN result' = "authorization_denied" /\ UNCHANGED <<st, attempts, expired>>
     ELSE /\ st' = [st EXCEPT ![s] = "ready"]
          /\ attempts' = [attempts EXCEPT ![s] = codes]
          /\ expired' = [expired EXCEPT ![s] = FALSE]
          /\ result' = "ok"
  /\ UNCHANGED <<installed, denied, asked>>

(* The first step of a run; an expired statement is prepared again first.  *)
Start(s) ==
  /\ st[s] = "ready"
  /\ IF expired[s] /\ Denies(attempts[s])
     THEN result' = "authorization_denied" /\ UNCHANGED <<st, expired>>
     ELSE /\ st' = [st EXCEPT ![s] = "running"]
          /\ expired' = [expired EXCEPT ![s] = FALSE]
          /\ result' = "ok"
  /\ UNCHANGED <<installed, denied, asked, attempts>>

Finish(s) ==
  /\ st[s] = "running"
  /\ st' = [st EXCEPT ![s] = "ready"]
  /\ result' = "ok"
  /\ UNCHANGED <<installed, denied, asked, attempts, expired>>

Finalize(s) ==
  /\ st[s] # "none"
  /\ Reset(s) /\ result' = "ok"
  /\ UNCHANGED <<installed, denied, asked>>

Next ==
  \/ \E atoms \in SUBSET Atoms : SetAuthorizer(atoms)
  \/ RemoveAuthorizer
  \/ \E s \in Stmts :
       \/ \E codes \in SUBSET Codes \ {{}} : Prepare(s, codes)
       \/ Start(s) \/ Finish(s) \/ Finalize(s)

Spec == Init /\ [][Next]_vars
-----------------------------------------------------------------------------
(* The atom that denies an action code: its own, or :unknown for a code    *)
(* this build does not map (the documentation of set_authorizer).          *)
AtomFor(code) == IF code \in Mapped THEN code ELSE "unknown"

(* No run of a statement begins when the list last accepted names one of   *)
(* the actions it attempts: neither a statement prepared before the list   *)
(* was installed, nor one that was under way then and is started again.    *)
DeniedNeverStarts == [][\A s \in Stmts :
  (st[s] = "ready" /\ st'[s] = "running") => \A c \in attempts[s] : AtomFor(c) \notin asked]_vars

(* The closure SQLite calls owns exactly the last accepted list: a list    *)
(* with one atom that names no kind changes nothing, whatever else is in   *)
(* it, and a prepared statement that is not expired passed that list.      *)
ListInForce ==
  /\ denied = asked
  /\ \A s \in Stmts : (st[s] # "none" /\ ~expired[s]) =>
       \A c \in attempts[s] : AtomFor(c) \notin asked

(* The deny list decides: what SQLite asks is the last accepted list, and  *)
(* no statement that it denies begins to run.                              *)
DenyListHolds == ListInForce /\ [][ListInForce']_vars /\ DeniedNeverStarts
=============================================================================
