---------------------------- MODULE ExtensionGate ----------------------------
(***************************************************************************)
(* Loading of SQLite extensions (nif.rs).  enable_load_extension runs with *)
(* the connection mutex held: it tells SQLite and then stores the answer   *)
(* in the handle's extensions_enabled flag.  load_extension looks at the   *)
(* flag WITHOUT the mutex, then takes the mutex and asks SQLite, which     *)
(* consults its own switch again: what the flag said may be stale by then. *)
(***************************************************************************)
EXTENDS Naturals

CONSTANTS
  Threads,
  Nobody,       \* holder of a free mutex
  MaxCalls      \* bound: calls, all threads together

ASSUME NobodyAssumption == Nobody \notin Threads
ASSUME CallsAssumption == MaxCalls \in Nat

VARIABLES
  pc,         \* "idle"; "enable" (waiting for the mutex), "store"; "load", "ask"
  want,       \* the argument of enable_load_extension
  mutex,
  flag,       \* XqliteConn.extensions_enabled
  switch,     \* SQLite's own load_extension switch
  agreed,     \* the last value enable_load_extension returned :ok for
  answer,     \* what each thread's last load_extension returned
  calls

vars == <<pc, want, mutex, flag, switch, agreed, answer, calls>>

Init ==
  /\ pc = [t \in Threads |-> "idle"] /\ want = [t \in Threads |-> FALSE]
  /\ mutex = Nobody /\ flag = FALSE /\ switch = FALSE /\ agreed = FALSE
  /\ answer = [t \in Threads |-> "none"] /\ calls = 0

Returns(t) == pc' = [pc EXCEPT ![t] = "idle"]

CallEnable(t, on) ==
  /\ pc[t] = "idle" /\ calls < MaxCalls
  /\ calls' = calls + 1
  /\ pc' = [pc EXCEPT ![t] = "enable"]
  /\ want' = [want EXCEPT ![t] = on]
  /\ answer' = [answer EXCEPT ![t] = "none"]
  /\ UNCHANGED <<mutex, flag, switch, agreed>>

(* Under the mutex: tell SQLite.  A refusal returns before the flag.       *)
TellSqlite_flagDecides(t) ==
  /\ pc[t] = "enable" /\ mutex = Nobody
  /\ mutex' = t /\ pc' = [pc EXCEPT ![t] = "store"]
  /\ switch' = (switch \/ want[t])
  /\ UNCHANGED <<want, flag, agreed, answer, calls>>

TellSqlite(t) ==
  /\ pc[t] = "enable" /\ mutex = Nobody
  /\ mutex' = t /\ pc' = [pc EXCEPT ![t] = "store"] /\ switch' = want[t]
  /\ UNCHANGED <<want, flag, agreed, answer, calls>>

SqliteRefuses(t) ==
  /\ pc[t] = "enable" /\ mutex = Nobody
  /\ Returns(t) /\ want' = [want EXCEPT ![t] = FALSE]
  /\ UNCHANGED <<mutex, flag, switch, agreed, answer, calls>>

StoreFlag_enableOnly(t) ==
  /\ pc[t] = "store"
  /\ flag' = (flag \/ want[t]) /\ agreed' = want[t]
  /\ mutex' = Nobody /\ Returns(t) /\ want' = [want EXCEPT ![t] = FALSE]
  /\ UNCHANGED <<switch, answer, calls>>

StoreFlag(t) ==
  /\ pc[t] = "store"
  /\ flag' = want[t] /\ agreed' = want[t]
  /\ mutex' = Nobody /\ Returns(t) /\ want' = [want EXCEPT ![t] = FALSE]
  /\ UNCHANGED <<switch, answer, calls>>

CallLoad(t) ==
  /\ pc[t] = "idle" /\ calls < MaxCalls
  /\ calls' = calls + 1
  /\ pc' = [pc EXCEPT ![t] = "load"]
  /\ answer' = [answer EXCEPT ![t] = "none"]
  /\ UNCHANGED <<want, mutex, flag, switch, agreed>>

(* The flag is read without the mutex. *)
ReadFlag(t) ==
  /\ pc[t] = "load"
  /\ IF flag THEN pc' = [pc EXCEPT ![t] = "ask"] /\ UNCHANGED answer
             ELSE Returns(t) /\ answer' = [answer EXCEPT ![t] = "disabled"]
  /\ UNCHANGED <<want, mutex, flag, switch, agreed, calls>>

(* sqlite3_load_extension under the mutex: refused when SQLite's switch is *)
(* off, otherwise the library is there and loads, or it does not.          *)
AskSqlite(t) ==
  /\ pc[t] = "ask" /\ mutex = Nobody
  /\ Returns(t)
  /\ \E outcome \in IF switch THEN {"loaded", "error"} ELSE {"error"} :
       answer' = [answer EXCEPT ![t] = outcome]
  /\ UNCHANGED <<want, mutex, flag, switch, agreed, calls>>

Next == \E t \in Threads :
  \/ \E on \in BOOLEAN : CallEnable(t, on)
  \/ TellSqlite(t) \/ SqliteRefuses(t) \/ StoreFlag(t)
  \/ CallLoad(t) \/ ReadFlag(t) \/ AskSqlite(t)

Spec == Init /\ [][Next]_vars
-----------------------------------------------------------------------------
(* A load succeeds only while the last enable_load_extension to succeed    *)
(* was one that allowed it: after enable_load_extension(false) returned,   *)
(* not even a load that read the flag before that call goes through.       *)
DisabledMeansNoLoad == [][\A t \in Threads :
  (answer[t] # "loaded" /\ answer'[t] = "loaded") => agreed]_vars

(* With the mutex free the handle's flag says what SQLite's switch says:   *)
(* a load_extension that begins then is refused by both or by neither, and *)
(* a caller is never told "disabled" by a connection that allows loading.  *)
FlagMirrorsSwitch ==
  /\ mutex = Nobody => flag = switch
  /\ \A t \in Threads : pc[t] = "store" => mutex = t /\ switch = want[t]

(* The gate holds: the flag load_extension looks at without the mutex says *)
(* what SQLite's switch says whenever the mutex is free, and when it is    *)
(* stale the load is still refused.                                        *)
GateHolds == FlagMirrorsSwitch /\ [][FlagMirrorsSwitch']_vars /\ DisabledMeansNoLoad
=============================================================================
