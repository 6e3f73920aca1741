----------------------------- MODULE MCFeatures -----------------------------
(***************************************************************************)
(* Five optional features of a connection, for TLC: loading of extensions  *)
(* (ExtensionGate), the authorizer (Authorizer), incremental blob I/O      *)
(* (BlobIO), changesets (Changeset) and run reports (ExplainAnalyze).      *)
(* They share no state; a behaviour is a behaviour of one of them, with    *)
(* the others at rest in their initial states.                             *)
(***************************************************************************)
EXTENDS ExtensionGate, Integers, Sequences, TLC

CONSTANTS
  Mapped, Unmapped, Foreign, Stmts,    \* see Authorizer
  UsizeBits, IntBits, Rowids, Contents, Args, Chunks,   \* see BlobIO
  Keys, Vals, Absent, MaxWrites,       \* see Changeset
  MaxRows, MaxScans, MaxReports        \* see ExplainAnalyze

(* Blobs of no, one and two bytes, and what is written into them.          *)
NoneToTwo == {<<>>, <<0>>, <<0, 1>>}
UpToTwo == {<<>>, <<1>>, <<1, 1>>}

ASSUME NamesAssumption ==
  /\ Mapped \cap (Unmapped \cup Foreign) = {} /\ "unknown" \notin Mapped \cup Foreign
(* A usize is at least as wide as a c_int, and what the powers of two that *)
(* bound them have to do with each other.                                  *)
ASSUME WidthAssumption ==
  /\ IntBits \in Nat \ {0} /\ UsizeBits \in Nat /\ IntBits <= UsizeBits
  /\ 2^(IntBits - 1) \in Nat \ {0} /\ 2^IntBits = 2 * 2^(IntBits - 1)
  /\ 2^UsizeBits \in Nat /\ 2^IntBits <= 2^UsizeBits
(* SQLite holds no blob whose length a c_int cannot say. *)
ASSUME ContentsAssumption ==
  /\ Contents \subseteq Seq({0, 1}) /\ \A c \in Contents : Len(c) < 2^(IntBits - 1)
ASSUME ArgsAssumption == Args \subseteq 0..(2^UsizeBits - 1)
ASSUME ChunksAssumption == Chunks \subseteq Seq({0, 1})
ASSUME AbsentAssumption == Absent \notin Vals
ASSUME ReportAssumption == MaxRows \in Nat /\ MaxScans \in Nat

VARIABLES
  focus,       \* the part that moves
  installed, denied, asked, st, attempts, expired, result,
  rows, blob, row, size, readOnly, conn, last,
  source, orig, cs, writes, replica, children, apply, before, applied,
  sql, stage, prepared, effects, produced, plan, scans, report, reports, held, ran

U == INSTANCE Authorizer
B == INSTANCE BlobIO
C == INSTANCE Changeset WITH answer <- applied
X == INSTANCE ExplainAnalyze WITH
       MaxCalls <- MaxReports, pc <- stage, applied <- effects, calls <- reports

gateVars == <<pc, want, mutex, flag, switch, agreed, answer, calls>>
authVars == <<installed, denied, asked, st, attempts, expired, result>>
blobVars == <<rows, blob, row, size, readOnly, conn, last>>
setVars == <<source, orig, cs, writes, replica, children, apply, before, applied>>
reportVars == <<sql, stage, prepared, effects, produced, plan, scans, report, reports, held, ran>>
allVars == <<focus, gateVars, authVars, blobVars, setVars, reportVars>>

MCInit ==
  /\ focus \in {"extensions", "authorizer", "blobs", "changesets", "reports"}
  /\ Init /\ U!Init /\ B!Init /\ C!Init /\ X!Init

MCNext ==
  /\ UNCHANGED focus
  /\ \/ focus = "extensions" /\ Next /\ UNCHANGED <<authVars, blobVars, setVars, reportVars>>
     \/ focus = "authorizer" /\ U!Next /\ UNCHANGED <<gateVars, blobVars, setVars, reportVars>>
     \/ focus = "blobs" /\ B!Next /\ UNCHANGED <<gateVars, authVars, setVars, reportVars>>
     \/ focus = "changesets" /\ C!Next /\ UNCHANGED <<gateVars, authVars, blobVars, reportVars>>
     \/ focus = "reports" /\ X!Next /\ UNCHANGED <<gateVars, authVars, blobVars, setVars>>

MCSpec == MCInit /\ [][MCNext]_allVars

(* The properties of the instantiated modules, which say what each one     *)
(* states.                                                                 *)

(* The last accepted deny list decides which statements begin to run. *)
DenyListHolds == U!DenyListHolds

(* Reads and writes of a blob touch exactly their range. *)
TouchesItsRange == B!TouchesItsRange

(* Closing a handle is sound after the connection was closed. *)
TeardownIsSound == B!TeardownIsSound

(* changeset_apply does what its strategy says or nothing at all. *)
ApplyKeepsItsPromise == C!ApplyKeepsItsPromise

(* A run of explain_analyze is reported whole and finalized. *)
RunIsWhole == X!RunIsWhole

ValSymmetry == Permutations(Vals)
=============================================================================
