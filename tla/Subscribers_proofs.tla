------------------------- MODULE Subscribers_proofs -------------------------
(***************************************************************************)
(* Proofs about the log hook and the telemetry bridge, for any number of   *)
(* threads, bridges and hooks (HookList_proofs is about the third part of  *)
(* MCSubscribers).                                                         *)
(*                                                                         *)
(* LogHook: LogInv; who walks holds the lock, and what it has told and     *)
(* what it has still to tell are the list.                                 *)
(* TelemetryBridge: BridgeInv; on an open connection the entries of a      *)
(* bridge in the lists are the handles it holds.                           *)
(***************************************************************************)
EXTENDS MCSubscribers, Sequences, FiniteSetTheorems, TLAPS

(* The log hook.  MASTER_LOCK is held by whoever reads or writes the list, *)
(* the callback included, and the list has members only after SQLite was   *)
(* given the callback.                                                     *)
LogInv ==
  /\ log_lock \in Threads \cup {NULL}
  /\ log_pc \in [Threads -> {"idle", "wait", "held", "walk"}]
  /\ log_op \in [Threads -> {"none", "register", "unregister", "event"}]
  /\ log_todo \in [Threads -> SUBSET Nat] /\ log_heard \in [Threads -> SUBSET Nat]
  /\ log_subs \subseteq Nat /\ log_next_id \in Nat
  /\ log_installed => log_xlog
  /\ log_subs # {} => log_installed
  /\ \A t \in Threads :
       /\ log_pc[t] \in {"held", "walk"} => log_lock = t
       /\ log_pc[t] = "idle" => log_op[t] = "none"
       /\ log_pc[t] # "walk" => log_heard[t] = {}
       /\ log_pc[t] = "walk" => log_op[t] = "event" /\ log_heard[t] \cup log_todo[t] = log_subs

(* A call that is over has let go of the lock and of its event. *)
LEMMA LogLeaves ==
  ASSUME LogInv, NEW t \in Threads, log_pc[t] # "idle", L!Leave(t), log_lock \in {NULL, t},
         log_subs' \subseteq Nat, log_next_id' \in Nat,
         log_installed' => log_xlog', log_subs' # {} => log_installed',
         log_lock = t \/ log_subs' = log_subs
  PROVE  LogInv'
<1>1. \A u \in Threads : u # t => log_pc[u] \notin {"held", "walk"}
      BY NullAssumption, Zenon DEF LogInv
<1> QED BY <1>1 DEF LogInv, L!Leave

(* Every step keeps the invariant of the log hook. *)
LEMMA LogStep ==
  ASSUME LogInv, [L!Next]_L!vars
  PROVE  LogInv'
<1> USE NullAssumption DEF LogInv
<1>0. CASE UNCHANGED L!vars
      BY <1>0, Zenon DEF L!vars, L!locals
<1>1. ASSUME NEW t \in Threads, NEW what \in {"register", "unregister", "event"}, NEW id, L!Call(t, what, id)
      PROVE  LogInv'
      BY <1>1 DEF L!Call
<1>2. ASSUME NEW t \in Threads, L!Lock(t)
      PROVE  LogInv'
  <2>1. CASE L!Leave(t)
        BY <1>2, <2>1, LogLeaves DEF L!Lock
  <2>2. CASE log_lock' = t /\ log_pc' = [log_pc EXCEPT ![t] = "held"] /\ UNCHANGED L!locals
        BY <1>2, <2>2 DEF L!Lock, L!locals
  <2> QED BY <1>2, <2>1, <2>2 DEF L!Lock
<1>3. ASSUME NEW t \in Threads, L!Install(t)
      PROVE  LogInv'
  <2>1. CASE L!Leave(t)
        BY <1>3, <2>1, LogLeaves DEF L!Install
  <2>2. CASE log_xlog' = TRUE /\ log_installed' = TRUE /\ UNCHANGED <<log_lock, log_pc, L!locals>>
        BY <1>3, <2>2 DEF L!Install, L!locals
  <2> QED BY <1>3, <2>1, <2>2, Zenon DEF L!Install
<1>4. ASSUME NEW t \in Threads, L!Register(t) \/ L!Unregister(t) \/ L!EndWalk(t) \/ L!Panic(t)
      PROVE  LogInv'
  <2>1. L!Leave(t) /\ log_pc[t] \in {"held", "walk"}
        BY <1>4 DEF L!Register, L!Unregister, L!EndWalk, L!Panic
  <2>2. log_subs' \subseteq Nat /\ log_next_id' \in Nat
    <3>1. /\ \/ log_subs' = log_subs \/ log_subs' = log_subs \cup {log_next_id}
             \/ log_subs' = log_subs \ {log_arg[t]}
          /\ log_next_id' = log_next_id \/ log_next_id' = log_next_id + 1
          BY <1>4, Zenon DEF L!Register, L!Unregister, L!EndWalk, L!Panic
    <3>2. log_subs \subseteq Nat /\ log_next_id \in Nat
          BY Zenon
    <3>3. log_next_id' \in Nat
          BY ONLY <3>1, <3>2
    <3>4. log_subs' \subseteq Nat
          BY ONLY <3>1, <3>2, Zenon
    <3> QED BY <3>3, <3>4, Zenon
  <2>3. (log_installed' => log_xlog') /\ (log_subs' # {} => log_installed')
    <3>1. UNCHANGED <<log_installed, log_xlog>>
          BY <1>4, Zenon DEF L!Register, L!Unregister, L!EndWalk, L!Panic
    <3>2. log_subs' # {} => log_installed
          BY <1>4, Zenon DEF L!Register, L!Unregister, L!EndWalk, L!Panic
    <3> QED BY <3>1, <3>2, Zenon
  <2> QED BY <2>1, <2>2, <2>3, LogLeaves
<1>5. ASSUME NEW t \in Threads, L!StartWalk(t)
      PROVE  LogInv'
      BY <1>5 DEF L!StartWalk
<1>6. ASSUME NEW t \in Threads, L!SendOne(t)
      PROVE  LogInv'
      BY <1>6 DEF L!SendOne
<1> QED BY <1>0, <1>1, <1>2, <1>3, <1>4, <1>5, <1>6
        DEF L!Next, L!CallRegister, L!CallEvent, L!CallUnregister

(* An event ends when everyone has heard it, or in a panic of its own.     *)
LEMMA EventEnds ==
  ASSUME LogInv, [L!Next]_L!vars, NEW t \in Threads, log_op[t] = "event", log_pc'[t] = "idle"
  PROVE  log_heard[t] = log_subs \/ L!Panic(t)
<1>1. log_pc[t] # "idle"
      BY DEF LogInv
<1>2. PICK u \in Threads :
        \/ L!Lock(u) \/ L!Install(u) \/ L!Register(u) \/ L!Unregister(u) \/ L!EndWalk(u) \/ L!Panic(u)
        \/ \E what, id : L!Call(u, what, id)
        \/ L!StartWalk(u) \/ L!SendOne(u)
      BY <1>1, Zenon DEF L!vars, L!Next, L!CallRegister, L!CallEvent, L!CallUnregister
<1>3. u = t
      BY <1>1, <1>2 DEF LogInv, L!Call, L!Lock, L!Install, L!Register, L!Unregister, L!StartWalk, L!SendOne,
         L!EndWalk, L!Panic, L!Leave
<1>4. L!EndWalk(t) \/ L!Panic(t)
      BY <1>1, <1>2, <1>3 DEF LogInv, L!Call, L!Lock, L!Install, L!Register, L!Unregister, L!StartWalk, L!SendOne
<1> QED BY <1>4 DEF LogInv, L!EndWalk

(* Every log event reaches everyone registered, for any number of threads  *)
(* and registrations, whichever installation failed and whichever earlier  *)
(* callback panicked (register_log_hook, unregister_log_hook,              *)
(* log_callback).                                                          *)
THEOREM LogServesAll == L!Spec => EveryoneServed
<1>1. L!Init => LogInv
      BY DEF L!Init, LogInv
<1>2. LogInv /\ [L!Next]_L!vars => LogInv'
      BY LogStep
<1>3. LogInv => L!RegisteredIsServed /\ L!WalkIsCurrent
      BY DEF LogInv, L!RegisteredIsServed, L!WalkIsCurrent
<1>4. LogInv /\ [L!Next]_L!vars =>
        [\A t \in Threads :
           (log_op[t] = "event" /\ log_pc'[t] = "idle") => (log_heard[t] = log_subs \/ L!Panic(t))]_L!vars
      BY EventEnds
<1> QED BY <1>1, <1>2, <1>3, <1>4, PTL DEF L!Spec, EveryoneServed, L!EveryoneServed, L!NoEventLost
-----------------------------------------------------------------------------
(* The telemetry bridge.  A bridge's entries in the lists of an open       *)
(* connection are the handles it has, whatever the state of its caller and *)
(* its server; while it registers, the handles follow what it asked for.   *)
AllHooks == Kinds \cup {"all"}
Message == Kinds \X Nat

BridgeType ==
  /\ nextId \in [Kinds -> Nat] /\ events \in Nat
  /\ DOMAIN lists = Kinds /\ lists = [k \in Kinds |-> lists[k]]
  /\ \A k \in Kinds : DOMAIN lists[k] \subseteq {h \in Nat : h < nextId[k]}
  /\ caller \in [Bridges -> {"idle", "register", "raised", "bridged", "unbridge", "rollback", "error",
                             "unbridged", "exited"}]
  /\ server \in [Bridges -> {"none", "alive", "stopping", "stopped"}]
  /\ hooks \in [Bridges -> Seq(AllHooks)] /\ asked \in [Bridges -> Seq(AllHooks)]
  /\ handles \in [Bridges -> Seq(Message)] /\ mailbox \in [Bridges -> Seq(Message)]
  /\ emitted \in [Bridges -> Seq(Message)] /\ due \in [Bridges -> Seq(Message)]

Held(b, k) == {h \in Nat : <<k, h>> \in T!Range(handles[b])}

(* Where the caller is, its server is; and no handle outlives a stop.      *)
StageOf(b) ==
  /\ caller[b] = "idle" => server[b] = "none" /\ handles[b] = <<>>
  /\ caller[b] \in {"register", "bridged", "raised"} => server[b] = "alive"
  /\ caller[b] \in {"rollback", "unbridge"} => server[b] \in {"alive", "stopping"}
  /\ caller[b] = "exited" => server[b] \in {"stopping", "stopped"}
  /\ caller[b] \in {"error", "unbridged"} => server[b] = "stopped"
  /\ server[b] # "alive" => handles[b] = <<>>
  /\ server[b] \in {"none", "stopped"} => mailbox[b] = <<>>

MailOf(b) == due[b] = emitted[b] \o mailbox[b]

HandlesOf(b) ==
  /\ T!IsInjective(handles[b])
  /\ \A i \in DOMAIN handles[b] : handles[b][i][2] < nextId[handles[b][i][1]]
  /\ open => \A k \in Kinds : T!On(b, k) = Held(b, k)

AskedOf(b) ==
  /\ caller[b] \in {"register", "bridged"} =>
       /\ T!IsInjective(asked[b])
       /\ Len(asked[b]) = Len(handles[b]) + Len(hooks[b])
       /\ \A i \in DOMAIN handles[b] : handles[b][i][1] = asked[b][i]
       /\ \A i \in DOMAIN hooks[b] : hooks[b][i] = asked[b][Len(handles[b]) + i]
  /\ caller[b] = "bridged" => hooks[b] = <<>>

BridgeOk(b) == StageOf(b) /\ MailOf(b) /\ HandlesOf(b) /\ AskedOf(b)
BridgeInv == BridgeType /\ \A b \in Bridges : BridgeOk(b)

(* What appending to a list, and taking its head, do to its members.       *)
LEMMA AppendMember ==
  ASSUME NEW S, NEW s \in Seq(S), NEW e \in S
  PROVE  /\ T!Range(Append(s, e)) = T!Range(s) \cup {e}
         /\ T!IsInjective(s) /\ e \notin T!Range(s) => T!IsInjective(Append(s, e))
<1>1. /\ Len(s) \in Nat /\ DOMAIN s = 1..Len(s) /\ DOMAIN Append(s, e) = 1..(Len(s) + 1)
      /\ Append(s, e)[Len(s) + 1] = e /\ \A i \in 1..Len(s) : Append(s, e)[i] = s[i]
      OBVIOUS
<1>2. \A i \in 1..(Len(s) + 1) : i \in 1..Len(s) \/ i = Len(s) + 1
      BY <1>1
<1>3. \A i \in 1..Len(s) : i \in 1..(Len(s) + 1)
      BY <1>1
<1>4. Len(s) + 1 \in 1..(Len(s) + 1)
      BY <1>1
<1>5. ASSUME NEW x
      PROVE  x \in T!Range(Append(s, e)) <=> x \in T!Range(s) \cup {e}
      BY <1>1, <1>2, <1>3, <1>4, Zenon DEF T!Range
<1>6. ASSUME T!IsInjective(s), e \notin T!Range(s)
      PROVE  T!IsInjective(Append(s, e))
      BY <1>1, <1>2, <1>6, Zenon DEF T!Range, T!IsInjective
<1> QED BY <1>5, <1>6, Zenon DEF T!Range

(* What a list that is not empty has behind its head. *)
LEMMA TailOf ==
  ASSUME NEW S, NEW s \in Seq(S), s # <<>>
  PROVE  /\ Len(s) \in Nat /\ Len(s) > 0 /\ DOMAIN s = 1..Len(s) /\ Head(s) = s[1]
         /\ Tail(s) \in Seq(S) /\ Len(Tail(s)) = Len(s) - 1 /\ DOMAIN Tail(s) = 1..(Len(s) - 1)
         /\ \A i \in 1..(Len(s) - 1) : Tail(s)[i] = s[i + 1]
<1>1. Len(s) \in Nat /\ Len(s) > 0 /\ DOMAIN s = 1..Len(s) /\ Head(s) = s[1]
      OBVIOUS
<1> QED BY <1>1

(* Taking the head takes that member away. *)
LEMMA TailMember ==
  ASSUME NEW S, NEW s \in Seq(S), s # <<>>, T!IsInjective(s)
  PROVE  /\ T!Range(Tail(s)) = T!Range(s) \ {Head(s)} /\ T!IsInjective(Tail(s))
         /\ Head(s) \in T!Range(s)
<1>1. Len(s) \in Nat /\ Len(s) > 0 /\ DOMAIN s = 1..Len(s) /\ Head(s) = s[1]
      OBVIOUS
<1>2. /\ Tail(s) \in Seq(S) /\ DOMAIN Tail(s) = 1..(Len(s) - 1)
      /\ \A i \in 1..(Len(s) - 1) : Tail(s)[i] = s[i + 1]
      BY <1>1
<1>3. T!IsInjective(Tail(s))
      BY <1>1, <1>2 DEF T!IsInjective
<1>4. \A i \in 2..Len(s) : s[i] # Head(s) /\ i - 1 \in 1..(Len(s) - 1) /\ Tail(s)[i - 1] = s[i]
      BY <1>1, <1>2 DEF T!IsInjective
<1>5. ASSUME NEW x
      PROVE  x \in T!Range(Tail(s)) <=> x \in T!Range(s) /\ x # Head(s)
  <2>1. x \in T!Range(Tail(s)) => x \in T!Range(s) /\ x # Head(s)
        BY <1>1, <1>2, <1>4 DEF T!Range
  <2>2. ASSUME NEW i \in 1..Len(s), s[i] # Head(s)
        PROVE  s[i] \in T!Range(Tail(s))
    <3>1. i \in 2..Len(s)
          BY <1>1, <2>2
    <3>2. i - 1 \in DOMAIN Tail(s) /\ Tail(s)[i - 1] = s[i]
          BY <1>2, <1>4, <3>1
    <3> QED BY <3>2, Zenon DEF T!Range
  <2> QED BY <1>1, <2>1, <2>2, Zenon DEF T!Range
<1>6. Head(s) \in T!Range(s)
      BY <1>1 DEF T!Range
<1>7. T!Range(Tail(s)) = T!Range(s) \ {Head(s)}
      BY <1>5, Zenon DEF T!Range
<1> QED BY <1>3, <1>6, <1>7

(* A message that goes from a mailbox to the emitted ones stays in line. *)
LEMMA MovesOver ==
  ASSUME NEW S, NEW e \in Seq(S), NEW m \in Seq(S), m # <<>>
  PROVE  Append(e, Head(m)) \o Tail(m) = e \o m
OBVIOUS

(* What is queued behind the mailbox is behind both. *)
LEMMA Associative ==
  ASSUME NEW S, NEW e \in Seq(S), NEW m \in Seq(S), NEW x \in Seq(S)
  PROVE  (e \o m) \o x = e \o (m \o x)
OBVIOUS

(* The hooks a call asks for. *)
LEMMA HookListIsSeq ==
  ASSUME NEW hs \in T!HookLists
  PROVE  hs \in Seq(AllHooks) /\ T!IsInjective(hs)
<1>1. PICK n \in 1..MaxHooks : hs \in [1..n -> AllHooks]
      BY Zenon DEF T!HookLists, AllHooks
<1>2. n \in Nat
      BY HooksAssumption
<1>3. hs \in Seq(AllHooks)
      BY <1>1, <1>2
<1> QED BY <1>3, Zenon DEF T!HookLists

(* A registration adds its entry, and an unregistration takes it away; the *)
(* other entries stay.                                                     *)
LEMMA RegisterLists ==
  ASSUME BridgeInv, NEW b \in Bridges, T!Register(b)
  PROVE  LET k == Head(hooks[b])
         IN  /\ k \in Kinds /\ nextId[k] \in Nat
             /\ nextId' = [nextId EXCEPT ![k] = @ + 1]
             /\ DOMAIN lists' = Kinds /\ lists' = [j \in Kinds |-> lists'[j]]
             /\ \A j \in Kinds : DOMAIN lists'[j] \subseteq {h \in Nat : h < nextId'[j]}
             /\ nextId[k] \notin T!On(b, k)
             /\ \A c \in Bridges, j \in Kinds :
                  T!On(c, j)' = IF c = b /\ j = k THEN T!On(c, j) \cup {nextId[k]} ELSE T!On(c, j)
<1> DEFINE k == Head(hooks[b])
           was == lists[k]
           now == [h \in DOMAIN was \cup {nextId[k]} |-> IF h = nextId[k] THEN b ELSE was[h]]
<1>1. k \in Kinds /\ lists' = [lists EXCEPT ![k] = now] /\ nextId' = [nextId EXCEPT ![k] = @ + 1]
      BY Zenon DEF T!Register
<1>2. /\ nextId \in [Kinds -> Nat] /\ DOMAIN lists = Kinds
      /\ \A j \in Kinds : DOMAIN lists[j] \subseteq {h \in Nat : h < nextId[j]}
      BY DEF BridgeInv, BridgeType
<1>3. /\ DOMAIN lists' = Kinds /\ lists' = [j \in Kinds |-> lists'[j]]
      /\ lists'[k] = now /\ \A j \in Kinds : j # k => lists'[j] = lists[j]
      BY <1>1, <1>2, Zenon
<1>4. /\ nextId[k] \in Nat /\ nextId'[k] = nextId[k] + 1 /\ \A j \in Kinds : j # k => nextId'[j] = nextId[j]
      BY <1>1, <1>2
<1>5. nextId[k] \notin DOMAIN was
      BY <1>1, <1>2, <1>4
<1>6. /\ DOMAIN now = DOMAIN was \cup {nextId[k]} /\ now[nextId[k]] = b
      /\ \A h \in DOMAIN was : now[h] = was[h]
      BY <1>5
<1>7. \A j \in Kinds : DOMAIN lists'[j] \subseteq {h \in Nat : h < nextId'[j]}
  <2>1. DOMAIN lists'[k] \subseteq {h \in Nat : h < nextId'[k]}
    <3>1. DOMAIN was \subseteq {h \in Nat : h < nextId[k]}
          BY <1>1, <1>2, Zenon
    <3>2. DOMAIN lists'[k] = DOMAIN was \cup {nextId[k]}
          BY <1>3, <1>6, Zenon
    <3> QED BY ONLY <1>4, <3>1, <3>2
  <2>2. \A j \in Kinds : j # k => DOMAIN lists'[j] \subseteq {h \in Nat : h < nextId'[j]}
        BY <1>2, <1>3, <1>4, Zenon
  <2> QED BY <2>1, <2>2
<1> HIDE DEF now, was
<1>8. nextId[k] \notin T!On(b, k)
      BY <1>5, Zenon DEF T!On, was
<1>9. ASSUME NEW c \in Bridges, NEW j \in Kinds
      PROVE  T!On(c, j)' = IF c = b /\ j = k THEN T!On(c, j) \cup {nextId[k]} ELSE T!On(c, j)
  <2>0. T!On(c, j)' = {h \in DOMAIN lists'[j] : lists'[j][h] = c}
        BY DEF T!On
  <2>1. CASE j # k
        BY <1>3, <2>0, <2>1 DEF T!On
  <2>2. CASE j = k
    <3>1. T!On(c, j) = {h \in DOMAIN was : was[h] = c} /\ T!On(c, j)' = {h \in DOMAIN now : now[h] = c}
          BY <1>3, <2>0, <2>2 DEF T!On, was
    <3> QED BY ONLY <1>5, <1>6, <2>2, <3>1
  <2> QED BY <2>1, <2>2
<1> QED BY <1>1, <1>3, <1>4, <1>7, <1>8, <1>9

(* An unregistration takes away the entry of the first handle. *)
LEMMA UnregisterLists ==
  ASSUME BridgeInv, NEW b \in Bridges, T!UnregisterHook(b)
  PROVE  LET k == Head(handles[b])[1]  id == Head(handles[b])[2]
         IN  /\ k \in Kinds /\ id \in Nat /\ Head(handles[b]) = <<k, id>>
             /\ DOMAIN lists' = Kinds /\ lists' = [j \in Kinds |-> lists'[j]]
             /\ \A j \in Kinds : DOMAIN lists'[j] \subseteq DOMAIN lists[j]
             /\ open => /\ id \in T!On(b, k)
                        /\ \A c \in Bridges, j \in Kinds :
                             T!On(c, j)' = IF j = k THEN T!On(c, j) \ {id} ELSE T!On(c, j)
<1> DEFINE k == Head(handles[b])[1]
           id == Head(handles[b])[2]
           was == lists[k]
           now == [h \in DOMAIN was \ {id} |-> was[h]]
<1>0. /\ handles[b] \in Seq(Message) /\ handles[b] # <<>> /\ DOMAIN lists = Kinds
      /\ lists = [j \in Kinds |-> lists[j]] /\ T!IsInjective(handles[b])
      BY Zenon DEF BridgeInv, BridgeType, BridgeOk, HandlesOf, T!UnregisterHook
<1>1. Head(handles[b]) \in Message /\ Head(handles[b]) \in T!Range(handles[b])
      BY <1>0, TailMember
<1>2. k \in Kinds /\ id \in Nat /\ Head(handles[b]) = <<k, id>>
      BY <1>1 DEF Message
<1>3. lists' = IF ~open THEN lists ELSE [lists EXCEPT ![k] = now]
      BY Zenon DEF T!UnregisterHook
<1>4. open => lists'[k] = now /\ \A j \in Kinds : j # k => lists'[j] = lists[j]
      BY <1>0, <1>2, <1>3
<1>5. DOMAIN lists' = Kinds /\ lists' = [j \in Kinds |-> lists'[j]]
      BY <1>0, <1>3, Zenon
<1>6. DOMAIN now = DOMAIN was \ {id} /\ \A h \in DOMAIN now : now[h] = was[h]
      BY Zenon
<1> HIDE DEF now
<1>7. \A j \in Kinds : DOMAIN lists'[j] \subseteq DOMAIN lists[j]
      BY <1>3, <1>4, <1>6
<1>8. ASSUME open, NEW c \in Bridges, NEW j \in Kinds
      PROVE  T!On(c, j)' = IF j = k THEN T!On(c, j) \ {id} ELSE T!On(c, j)
  <2>0. T!On(c, j)' = {h \in DOMAIN lists'[j] : lists'[j][h] = c}
        BY DEF T!On
  <2>1. CASE j # k
        BY <1>4, <1>8, <2>0, <2>1, Zenon DEF T!On
  <2>2. CASE j = k
    <3>1. T!On(c, j) = {h \in DOMAIN was : was[h] = c} /\ T!On(c, j)' = {h \in DOMAIN now : now[h] = c}
          BY <1>4, <1>8, <2>0, <2>2 DEF T!On
    <3> QED BY ONLY <1>6, <2>2, <3>1
  <2> QED BY <2>1, <2>2
<1>9. open => id \in T!On(b, k)
  <2>1. HandlesOf(b)
        BY Zenon DEF BridgeInv, BridgeOk
  <2>2. open => T!On(b, k) = Held(b, k)
        BY <1>2, <2>1, Zenon DEF HandlesOf
  <2>3. id \in Nat /\ <<k, id>> \in T!Range(handles[b])
        BY <1>1, <1>2, Zenon
  <2>4. id \in Held(b, k)
        BY <2>3, Zenon DEF Held
  <2> QED BY <2>2, <2>4, Zenon
<1> QED BY <1>2, <1>5, <1>7, <1>8, <1>9

(* What a bridge is told of an event: once for each of its entries, and    *)
(* nothing if it has none.                                                 *)
Told(b, k) == [i \in 1..T!Cardinality(T!On(b, k)) |-> <<k, events'>>]

(* A function on 1..n is a sequence. *)
LEMMA FunctionIsSeq ==
  ASSUME NEW S, NEW n \in Nat, NEW s \in [1..n -> S]
  PROVE  s \in Seq(S) /\ (n = 0 => s = <<>>)
OBVIOUS

(* What a bridge is told is a sequence, empty if it is on no list. *)
LEMMA ToldIsSeq ==
  ASSUME BridgeInv, NEW k \in Kinds, events' = events + 1
  PROVE  \A b \in Bridges : Told(b, k) \in Seq(Message) /\ (T!On(b, k) = {} => Told(b, k) = <<>>)
<1> SUFFICES ASSUME NEW b \in Bridges
             PROVE  Told(b, k) \in Seq(Message) /\ (T!On(b, k) = {} => Told(b, k) = <<>>)
    OBVIOUS
<1>1. nextId[k] \in Nat /\ events \in Nat /\ DOMAIN lists[k] \subseteq {h \in Nat : h < nextId[k]}
      BY DEF BridgeInv, BridgeType
<1>2. T!On(b, k) \subseteq 0..nextId[k]
      BY <1>1 DEF T!On
<1>3. IsFiniteSet(T!On(b, k))
  <2>1. IsFiniteSet(0..nextId[k])
        BY <1>1, FS_Interval
  <2> QED BY <1>2, <2>1, FS_Subset, Zenon
<1>4. T!Cardinality(T!On(b, k)) = Cardinality(T!On(b, k))
      BY Zenon DEF T!Cardinality, Cardinality
<1>5. T!Cardinality(T!On(b, k)) \in Nat /\ (T!On(b, k) = {} => T!Cardinality(T!On(b, k)) = 0)
      BY <1>3, <1>4, FS_CardinalityType, FS_EmptySet
<1>6. <<k, events'>> \in Message
      BY <1>1 DEF Message
<1>7. Told(b, k) \in [1..T!Cardinality(T!On(b, k)) -> Message]
      BY <1>6 DEF Told
<1> QED BY <1>5, <1>7, FunctionIsSeq

(* The kinds of values each part holds. *)
LEMMA BridgeTypeStep ==
  ASSUME BridgeInv, [T!Next]_T!vars
  PROVE  BridgeType'
<1> USE DEF BridgeInv, BridgeType
<1>0. CASE UNCHANGED T!vars
      BY <1>0, Zenon DEF T!vars
<1>1. ASSUME NEW b \in Bridges, NEW hs \in T!HookLists, T!Bridge(b, hs)
      PROVE  BridgeType'
      BY <1>1, HookListIsSeq DEF T!Bridge, T!Goto
<1>2. ASSUME NEW b \in Bridges, T!Register(b)
      PROVE  BridgeType'
  <2>1. /\ hooks' = [hooks EXCEPT ![b] = Tail(@)] /\ hooks[b] # <<>>
        /\ handles' = [handles EXCEPT ![b] = Append(@, <<Head(hooks[b]), nextId[Head(hooks[b])]>>)]
        /\ UNCHANGED <<open, caller, asked, server, mailbox, emitted, due, events>>
        BY <1>2, Zenon DEF T!Register
  <2>2. <<Head(hooks[b]), nextId[Head(hooks[b])]>> \in Message
        BY <1>2, RegisterLists, Zenon DEF Message
  <2>3. hooks' \in [Bridges -> Seq(AllHooks)] /\ handles' \in [Bridges -> Seq(Message)]
        BY <2>1, <2>2
  <2>4. nextId' \in [Kinds -> Nat]
    <3>1. /\ nextId' = [nextId EXCEPT ![Head(hooks[b])] = @ + 1] /\ nextId \in [Kinds -> Nat]
          /\ Head(hooks[b]) \in Kinds
          BY <1>2, Zenon DEF T!Register
    <3>2. ASSUME NEW f \in [Kinds -> Nat], NEW k \in Kinds
          PROVE  [f EXCEPT ![k] = @ + 1] \in [Kinds -> Nat]
          OBVIOUS
    <3> QED BY <3>1, <3>2, Zenon
  <2> QED BY <1>2, <2>1, <2>3, <2>4, RegisterLists, Zenon
<1>3. ASSUME NEW b \in Bridges, NEW l \in {"rollback", "raised", "bridged", "unbridge", "exited"}, T!Goto(b, l),
             UNCHANGED <<open, lists, nextId, hooks, handles, asked, server, mailbox, emitted, due, events>>
      PROVE  BridgeType'
  <2>1. caller' = [caller EXCEPT ![b] = l]
        BY <1>3 DEF T!Goto
  <2>2. caller' \in [Bridges -> {"idle", "register", "raised", "bridged", "unbridge", "rollback", "error",
                             "unbridged", "exited"}]
        BY <2>1
  <2> QED BY <1>3, <2>2, Zenon
<1>4. ASSUME NEW b \in Bridges, T!UnregisterHook(b)
      PROVE  BridgeType'
  <2>1. /\ handles' = [handles EXCEPT ![b] = Tail(@)] /\ handles[b] # <<>>
        /\ UNCHANGED <<open, nextId, caller, hooks, asked, server, mailbox, emitted, due, events>>
        BY <1>4, Zenon DEF T!UnregisterHook
  <2>2. handles' \in [Bridges -> Seq(Message)]
        BY <2>1
  <2>3. \A k \in Kinds : DOMAIN lists'[k] \subseteq {h \in Nat : h < nextId'[k]}
        BY <1>4, <2>1, UnregisterLists, Zenon
  <2> QED BY <1>4, <2>1, <2>2, <2>3, UnregisterLists, Zenon
<1>5. ASSUME NEW b \in Bridges, T!Stop(b) \/ T!Stopped(b)
      PROVE  BridgeType'
  <2>1. /\ \E v \in {"stopping", "stopped"} : server' = [server EXCEPT ![b] = v]
        /\ \/ caller' = caller
           \/ \E l \in {"error", "unbridged"} : caller' = [caller EXCEPT ![b] = l]
           \/ caller' = [caller EXCEPT ![b] = caller[b]]
        /\ UNCHANGED <<open, lists, nextId, hooks, handles, asked, mailbox, emitted, due, events>>
        BY <1>5, Zenon DEF T!Stop, T!Stopped, T!Goto
  <2>2. /\ server' \in [Bridges -> {"none", "alive", "stopping", "stopped"}]
        /\ caller' \in [Bridges -> {"idle", "register", "raised", "bridged", "unbridge", "rollback", "error",
                                    "unbridged", "exited"}]
        BY <2>1, Zenon
  <2>3. UNCHANGED <<lists, nextId, hooks, handles, asked, mailbox, emitted, due, events>>
        BY <2>1, Zenon
  <2> QED BY ONLY <2>2, <2>3, BridgeType DEF BridgeType
<1>6. ASSUME NEW b \in Bridges, T!HandleInfo(b)
      PROVE  BridgeType'
  <2>1. /\ emitted' = [emitted EXCEPT ![b] = Append(@, Head(mailbox[b]))] /\ mailbox[b] # <<>>
        /\ mailbox' = [mailbox EXCEPT ![b] = Tail(@)]
        /\ UNCHANGED <<open, lists, nextId, caller, hooks, handles, asked, server, due, events>>
        BY <1>6, Zenon DEF T!HandleInfo, T!bvars
  <2>2. emitted' \in [Bridges -> Seq(Message)] /\ mailbox' \in [Bridges -> Seq(Message)]
        BY <2>1
  <2> QED BY <2>1, <2>2, Zenon
<1>7. ASSUME NEW k \in Kinds, T!Fire(k)
      PROVE  BridgeType'
  <2>1. /\ events' = events + 1
        /\ UNCHANGED <<open, lists, nextId, caller, hooks, handles, asked, server, emitted>>
        BY <1>7, Zenon DEF T!Fire, T!bvars
  <2>2. /\ due' = [b \in Bridges |-> due[b] \o Told(b, k)]
        /\ mailbox' = [b \in Bridges |->
                         IF server[b] \in {"alive", "stopping"} THEN mailbox[b] \o Told(b, k) ELSE mailbox[b]]
        BY <1>7, Zenon DEF T!Fire, Told
  <2>3. \A b \in Bridges : Told(b, k) \in Seq(Message)
        BY <2>1, ToldIsSeq
  <2>4. due' \in [Bridges -> Seq(Message)] /\ mailbox' \in [Bridges -> Seq(Message)]
    <3>1. due' \in [Bridges -> Seq(Message)]
          BY <2>2, <2>3
    <3>2. mailbox' \in [Bridges -> Seq(Message)]
          BY <2>2, <2>3
    <3> QED BY <3>1, <3>2
  <2>5. events' \in Nat
        BY <2>1
  <2> QED BY <2>1, <2>4, <2>5, Zenon
<1>8. CASE T!CloseConnection
      BY <1>8, Zenon DEF T!CloseConnection, T!bvars
<1> QED BY <1>0, <1>1, <1>2, <1>3, <1>4, <1>5, <1>6, <1>7, <1>8, Zenon DEF T!Next, T!RegisterFails, T!RegisterRaises, T!Bridged, T!Unbridge, T!StopTimesOut, T!OnError

(* A bridge that a step leaves alone. *)
Same(c) == /\ hooks'[c] = hooks[c] /\ handles'[c] = handles[c] /\ asked'[c] = asked[c]
           /\ mailbox'[c] = mailbox[c] /\ emitted'[c] = emitted[c] /\ due'[c] = due[c]
Lists(c) == /\ open' => open /\ \A k \in Kinds : T!On(c, k)' = T!On(c, k)
            /\ \A k \in Kinds : nextId[k] \in Nat /\ nextId'[k] \in Nat /\ nextId[k] <= nextId'[k]

(* A bridge keeps its handles while its lists keep its entries. *)
LEMMA SameHandles ==
  ASSUME BridgeInv, NEW c \in Bridges, handles'[c] = handles[c], Lists(c)
  PROVE  HandlesOf(c)'
<1>1. /\ T!IsInjective(handles[c]) /\ handles[c] \in Seq(Message)
      /\ \A i \in DOMAIN handles[c] : handles[c][i][2] < nextId[handles[c][i][1]]
      /\ open => \A k \in Kinds : T!On(c, k) = Held(c, k)
      BY Zenon DEF BridgeInv, BridgeOk, HandlesOf, BridgeType
<1>2. ASSUME NEW i \in DOMAIN handles[c]
      PROVE  handles[c][i][2] < nextId'[handles[c][i][1]]
  <2>1. handles[c][i] \in Message
        BY <1>1
  <2>2. handles[c][i][1] \in Kinds /\ handles[c][i][2] \in Nat
        BY <2>1 DEF Message
  <2> QED BY <1>1, <2>2 DEF Lists
<1>3. \A k \in Kinds : Held(c, k)' = Held(c, k)
      BY DEF Held, T!Range
<1>4. T!IsInjective(handles'[c])
      BY <1>1
<1> QED BY <1>1, <1>2, <1>3, <1>4, Zenon DEF HandlesOf, Lists

(* A step of another bridge leaves a bridge as it was. *)
LEMMA SameBridge ==
  ASSUME BridgeInv, NEW c \in Bridges, Same(c), Lists(c), caller'[c] = caller[c], server'[c] = server[c]
  PROVE  BridgeOk(c)'
<1>0. BridgeOk(c)
      BY Zenon DEF BridgeInv
<1>1. StageOf(c)'
      BY <1>0, Zenon DEF BridgeOk, Same, StageOf
<1>2. MailOf(c)'
      BY <1>0 DEF BridgeOk, Same, MailOf
<1>3. AskedOf(c)'
      BY <1>0, Zenon DEF BridgeOk, Same, AskedOf
<1>4. HandlesOf(c)'
      BY SameHandles, Zenon DEF Same
<1> QED BY <1>1, <1>2, <1>3, <1>4 DEF BridgeOk

(* A step of a caller or of its server that touches no list. *)
LEMMA CallerMoves ==
  ASSUME BridgeInv, NEW b \in Bridges, Same(b), Lists(b),
         \/ caller[b] = "register" /\ caller'[b] \in {"rollback", "raised"} /\ server'[b] = server[b]
         \/ caller[b] = "register" /\ hooks[b] = <<>> /\ caller'[b] = "bridged" /\ server'[b] = server[b]
         \/ caller[b] = "bridged" /\ caller'[b] = "unbridge" /\ server'[b] = server[b]
         \/ /\ caller[b] \in {"rollback", "unbridge"} /\ handles[b] = <<>> /\ server[b] = "alive"
            /\ caller'[b] = caller[b] /\ server'[b] = "stopping"
         \/ /\ server[b] = "stopping" /\ mailbox[b] = <<>> /\ server'[b] = "stopped"
            /\ caller'[b] = IF caller[b] = "rollback" THEN "error"
                            ELSE IF caller[b] = "unbridge" THEN "unbridged" ELSE caller[b]
         \/ caller[b] \in {"rollback", "unbridge"} /\ server[b] = "stopping" /\ caller'[b] = "exited" /\ server'[b] = server[b]
  PROVE  BridgeOk(b)'
<1>0. BridgeOk(b)
      BY Zenon DEF BridgeInv
<1>1. StageOf(b)'
      BY <1>0, Zenon DEF BridgeOk, Same, StageOf
<1>2. MailOf(b)'
      BY <1>0 DEF BridgeOk, Same, MailOf
<1>3. AskedOf(b)'
      BY <1>0, ZenonT(40) DEF BridgeOk, Same, AskedOf, StageOf, T!IsInjective
<1>4. HandlesOf(b)'
      BY SameHandles DEF Same
<1> QED BY <1>1, <1>2, <1>3, <1>4, Zenon DEF BridgeOk

(* Only the bridge that acts changes. *)
LEMMA OthersSame ==
  ASSUME BridgeInv, NEW b \in Bridges, NEW c \in Bridges, c # b,
         \/ \E hs \in T!HookLists : T!Bridge(b, hs)
         \/ T!Register(b) \/ T!RegisterFails(b) \/ T!RegisterRaises(b) \/ T!Bridged(b) \/ T!Unbridge(b)
         \/ T!UnregisterHook(b) \/ T!Stop(b) \/ T!Stopped(b) \/ T!StopTimesOut(b) \/ T!HandleInfo(b)
  PROVE  Same(c) /\ caller'[c] = caller[c] /\ server'[c] = server[c]
<1>1. /\ DOMAIN caller = Bridges /\ DOMAIN server = Bridges /\ DOMAIN hooks = Bridges /\ DOMAIN handles = Bridges
      /\ DOMAIN asked = Bridges /\ DOMAIN mailbox = Bridges /\ DOMAIN emitted = Bridges /\ DOMAIN due = Bridges
      BY Zenon DEF BridgeInv, BridgeType
<1>2. /\ caller' = caller \/ \E v : caller' = [caller EXCEPT ![b] = v]
      /\ server' = server \/ \E v : server' = [server EXCEPT ![b] = v]
      /\ hooks' = hooks \/ \E v : hooks' = [hooks EXCEPT ![b] = v]
      /\ handles' = handles \/ \E v : handles' = [handles EXCEPT ![b] = v]
      /\ asked' = asked \/ \E v : asked' = [asked EXCEPT ![b] = v]
      /\ mailbox' = mailbox \/ \E v : mailbox' = [mailbox EXCEPT ![b] = v]
      /\ emitted' = emitted \/ \E v : emitted' = [emitted EXCEPT ![b] = v]
      /\ due' = due
  <2>1. CASE \E hs \in T!HookLists : T!Bridge(b, hs)
        BY <2>1, Zenon DEF T!Bridge, T!Goto
  <2>2. CASE T!Register(b)
        BY <2>2, Zenon DEF T!Register
  <2>3. CASE T!RegisterFails(b) \/ T!RegisterRaises(b) \/ T!Bridged(b) \/ T!Unbridge(b)
        BY <2>3, Zenon DEF T!RegisterFails, T!RegisterRaises, T!Bridged, T!Unbridge, T!Goto
  <2>4. CASE T!UnregisterHook(b)
        BY <2>4, Zenon DEF T!UnregisterHook
  <2>5. CASE T!Stop(b) \/ T!Stopped(b) \/ T!StopTimesOut(b)
        BY <2>5, Zenon DEF T!Stop, T!Stopped, T!StopTimesOut, T!Goto
  <2>6. CASE T!HandleInfo(b)
        BY <2>6, Zenon DEF T!HandleInfo, T!bvars
  <2> QED BY <2>1, <2>2, <2>3, <2>4, <2>5, <2>6, Zenon
<1>3. ASSUME NEW f, NEW v, DOMAIN f = Bridges
      PROVE  [f EXCEPT ![b] = v][c] = f[c]
      BY <1>3
<1> QED BY <1>1, <1>2, <1>3, Zenon DEF Same

(* A step that writes no list and does not reopen the connection. *)
LEMMA ListsSame ==
  ASSUME BridgeInv, NEW c \in Bridges, UNCHANGED <<lists, nextId>>, open' => open
  PROVE  Lists(c)
<1>1. \A k \in Kinds : nextId[k] \in Nat
      BY DEF BridgeInv, BridgeType
<1>2. \A k \in Kinds : T!On(c, k)' = T!On(c, k)
      BY Zenon DEF T!On
<1> QED BY <1>1, <1>2 DEF Lists

(* bridge/2 begins. *)
LEMMA BridgeBegins ==
  ASSUME BridgeInv, NEW b \in Bridges, NEW hs \in T!HookLists, T!Bridge(b, hs)
  PROVE  BridgeOk(b)'
<1>1. /\ caller[b] = "idle" /\ caller' = [caller EXCEPT ![b] = "register"] /\ server' = [server EXCEPT ![b] = "alive"]
      /\ hooks' = [hooks EXCEPT ![b] = hs] /\ asked' = [asked EXCEPT ![b] = hs]
      /\ UNCHANGED <<open, lists, nextId, handles, mailbox, emitted, due>>
      BY Zenon DEF T!Bridge, T!Goto
<1>2. /\ caller'[b] = "register" /\ server'[b] = "alive" /\ hooks'[b] = hs /\ asked'[b] = hs
      BY <1>1, Zenon DEF BridgeInv, BridgeType
<1>3. BridgeOk(b) /\ handles[b] = <<>>
  <2>1. BridgeOk(b)
        BY Zenon DEF BridgeInv
  <2>2. StageOf(b) /\ caller[b] = "idle"
        BY <1>1, <2>1, Zenon DEF BridgeOk
  <2> QED BY <2>1, <2>2, Zenon DEF StageOf
<1>4. StageOf(b)' /\ MailOf(b)'
      BY <1>1, <1>2, <1>3 DEF BridgeOk, StageOf, MailOf
<1>5. HandlesOf(b)'
      BY <1>1, SameHandles, ListsSame, Zenon
<1>6. AskedOf(b)'
  <2>1. hs \in Seq(AllHooks) /\ T!IsInjective(hs)
        BY HookListIsSeq, Zenon
  <2>2. handles'[b] = <<>>
        BY <1>1, <1>3
  <2> QED BY ONLY <1>2, <2>1, <2>2 DEF AskedOf
<1> QED BY <1>4, <1>5, <1>6 DEF BridgeOk

(* A registration: its handle is one the list never gave out. *)
LEMMA RegisterOk ==
  ASSUME BridgeInv, NEW b \in Bridges, T!Register(b)
  PROVE  BridgeOk(b)'
<1> DEFINE k == Head(hooks[b])
           id == nextId[k]
           hs == handles[b]
           td == hooks[b]
<1>1. /\ caller[b] = "register" /\ hooks[b] # <<>> /\ open
      /\ handles' = [handles EXCEPT ![b] = Append(@, <<k, id>>)] /\ hooks' = [hooks EXCEPT ![b] = Tail(@)]
      /\ UNCHANGED <<open, caller, asked, server, mailbox, emitted, due>>
      BY Zenon DEF T!Register
<1>2. /\ k \in Kinds /\ id \in Nat /\ nextId' = [nextId EXCEPT ![k] = @ + 1]
      /\ \A j \in Kinds : T!On(b, j)' = IF j = k THEN T!On(b, j) \cup {id} ELSE T!On(b, j)
      BY RegisterLists, Zenon
<1>3. /\ hs \in Seq(Message) /\ td \in Seq(AllHooks) /\ asked[b] \in Seq(AllHooks) /\ nextId \in [Kinds -> Nat]
      /\ handles'[b] = Append(hs, <<k, id>>) /\ hooks'[b] = Tail(td)
      BY <1>1, SMTT(30) DEF BridgeInv, BridgeType
<1>4. BridgeOk(b)
      BY Zenon DEF BridgeInv
<1>5. /\ T!IsInjective(hs) /\ \A i \in DOMAIN hs : hs[i][2] < nextId[hs[i][1]]
      /\ \A j \in Kinds : T!On(b, j) = Held(b, j)
      BY <1>1, <1>4, Zenon DEF BridgeOk, HandlesOf
<1>6. StageOf(b)' /\ MailOf(b)'
      BY <1>1, <1>4, Zenon DEF BridgeOk, StageOf, MailOf
<1>7. <<k, id>> \in Message /\ <<k, id>> \notin T!Range(hs)
  <2>1. ASSUME NEW i \in DOMAIN hs, hs[i] = <<k, id>>
        PROVE  FALSE
        BY <1>2, <1>5, <2>1
  <2> QED BY <1>2, <2>1, Zenon DEF Message, T!Range
<1>8. T!IsInjective(handles'[b]) /\ T!Range(handles'[b]) = T!Range(hs) \cup {<<k, id>>}
  <2> DEFINE h == <<k, id>>
  <2>1. hs \in Seq(Message) /\ T!IsInjective(hs) /\ h \in Message /\ h \notin T!Range(hs)
        BY <1>3, <1>5, <1>7, Zenon
  <2> HIDE DEF k, id, hs, h
  <2>2. T!Range(Append(hs, h)) = T!Range(hs) \cup {h}
        BY ONLY <2>1, AppendMember
  <2>4. T!IsInjective(Append(hs, h))
        BY ONLY <2>1, AppendMember
  <2>3. T!IsInjective(Append(hs, <<k, id>>)) /\ T!Range(Append(hs, <<k, id>>)) = T!Range(hs) \cup {<<k, id>>}
        BY <2>2, <2>4, Zenon DEF h
  <2> QED BY <1>3, <2>3, Zenon
<1> HIDE DEF k, id, hs, td
<1>9. /\ Len(hs) \in Nat /\ DOMAIN hs = 1..Len(hs) /\ DOMAIN handles'[b] = 1..(Len(hs) + 1)
      /\ Len(handles'[b]) = Len(hs) + 1
      /\ handles'[b][Len(hs) + 1] = <<k, id>> /\ \A i \in 1..Len(hs) : handles'[b][i] = hs[i]
      BY <1>3
<1>10. HandlesOf(b)'
  <2>1. ASSUME NEW i \in DOMAIN handles'[b]
        PROVE  handles'[b][i][2] < nextId'[handles'[b][i][1]]
    <3>1. CASE i \in 1..Len(hs)
      <4>1. hs[i] \in Message
            BY <1>3, <1>9, <3>1
      <4>2. hs[i][1] \in Kinds /\ hs[i][2] \in Nat
            BY <4>1, Zenon DEF Message
      <4>3. hs[i][2] < nextId[hs[i][1]] /\ handles'[b][i] = hs[i]
            BY <1>5, <1>9, <3>1, Zenon
      <4> QED BY ONLY <1>2, <1>3, <4>2, <4>3
    <3>2. CASE i = Len(hs) + 1
          BY <1>2, <1>3, <1>9, <3>2 DEF id
    <3> QED BY <1>9, <2>1, <3>1, <3>2
  <2>2. ASSUME NEW j \in Kinds
        PROVE  T!On(b, j)' = Held(b, j)'
    <3>1. Held(b, j) = {h \in Nat : <<j, h>> \in T!Range(hs)}
          BY DEF Held, hs
    <3>2. Held(b, j)' = {h \in Nat : <<j, h>> \in T!Range(handles'[b])}
          BY DEF Held, T!Range
    <3>3. \A h \in Nat : <<j, h>> = <<k, id>> <=> j = k /\ h = id
          OBVIOUS
    <3>4. Held(b, j)' = IF j = k THEN Held(b, j) \cup {id} ELSE Held(b, j)
          BY ONLY <1>2, <1>8, <3>1, <3>2, <3>3
    <3> QED BY <1>2, <1>5, <3>4, Zenon
  <2>3. T!IsInjective(handles[b])'
        BY <1>8
  <2> QED BY <2>1, <2>2, <2>3, Zenon DEF HandlesOf
<1>11. AskedOf(b)'
  <2>1. /\ T!IsInjective(asked[b]) /\ Len(asked[b]) = Len(hs) + Len(td)
        /\ \A i \in DOMAIN hs : hs[i][1] = asked[b][i]
        /\ \A i \in DOMAIN td : td[i] = asked[b][Len(hs) + i]
        BY <1>1, <1>4, Zenon DEF BridgeOk, AskedOf, hs, td
  <2>2. /\ Len(td) \in Nat /\ Len(td) > 0 /\ DOMAIN td = 1..Len(td) /\ k = td[1]
        /\ Len(Tail(td)) = Len(td) - 1 /\ DOMAIN Tail(td) = 1..(Len(td) - 1)
        /\ \A i \in 1..(Len(td) - 1) : Tail(td)[i] = td[i + 1]
    <3>1. td \in Seq(AllHooks) /\ td # <<>> /\ k = Head(td)
          BY <1>1, <1>3, Zenon DEF k, td
    <3> QED BY ONLY <3>1, TailOf
  <2>3. \A i \in DOMAIN handles'[b] : handles'[b][i][1] = asked[b][i]
    <3>1. k = asked[b][Len(hs) + 1]
          BY ONLY <2>1, <2>2
    <3> QED BY ONLY <1>9, <2>1, <3>1
  <2>4. \A i \in DOMAIN hooks'[b] : hooks'[b][i] = asked[b][Len(handles'[b]) + i]
    <3>1. ASSUME NEW i \in 1..(Len(td) - 1)
          PROVE  Tail(td)[i] = asked[b][Len(hs) + 1 + i]
      <4>1. i + 1 \in 1..Len(td) /\ Len(hs) + (i + 1) = Len(hs) + 1 + i
            BY <1>9, <2>2
      <4> QED BY <2>1, <2>2, <4>1
    <3> QED BY <1>3, <1>9, <2>2, <3>1, Zenon
  <2>5. Len(asked[b]) = Len(handles'[b]) + Len(hooks'[b])
    <3>1. Len(hooks'[b]) = Len(td) - 1
          BY <1>3, <2>2, Zenon
    <3>2. /\ Len(asked[b]) = Len(hs) + Len(td) /\ Len(hs) \in Nat /\ Len(td) \in Nat
          /\ Len(handles'[b]) = Len(hs) + 1
          BY <1>9, <2>1, <2>2, Zenon
    <3> QED BY ONLY <3>1, <3>2
  <2>6. asked'[b] = asked[b] /\ caller'[b] = "register"
        BY <1>1
  <2>7. T!IsInjective(asked[b])'
        BY <1>1, <2>1, Zenon
  <2> QED BY <2>3, <2>4, <2>5, <2>6, <2>7, Zenon DEF AskedOf
<1> QED BY <1>6, <1>10, <1>11 DEF BridgeOk

(* An unregistration takes the entry of the pair at the head, which is the *)
(* bridge's own.                                                           *)
LEMMA UnregisterOk ==
  ASSUME BridgeInv, NEW b \in Bridges, T!UnregisterHook(b)
  PROVE  BridgeOk(b)' /\ \A c \in Bridges : c # b => Lists(c)
<1> DEFINE k == Head(handles[b])[1]
           id == Head(handles[b])[2]
           hs == handles[b]
<1>1. /\ caller[b] \in {"rollback", "unbridge"} /\ hs # <<>>
      /\ handles' = [handles EXCEPT ![b] = Tail(@)]
      /\ UNCHANGED <<open, nextId, caller, hooks, asked, server, mailbox, emitted, due>>
      BY Zenon DEF T!UnregisterHook
<1>2. /\ k \in Kinds /\ id \in Nat /\ Head(hs) = <<k, id>>
      /\ open => /\ id \in T!On(b, k)
                 /\ \A c \in Bridges, j \in Kinds : T!On(c, j)' = IF j = k THEN T!On(c, j) \ {id} ELSE T!On(c, j)
      BY UnregisterLists, Zenon
<1>3. hs \in Seq(Message) /\ handles'[b] = Tail(hs) /\ nextId \in [Kinds -> Nat]
      BY <1>1, Zenon DEF BridgeInv, BridgeType
<1>4. /\ BridgeOk(b) /\ T!IsInjective(hs) /\ \A i \in DOMAIN hs : hs[i][2] < nextId[hs[i][1]]
      /\ open => \A j \in Kinds : T!On(b, j) = Held(b, j)
      BY DEF BridgeInv, BridgeOk, HandlesOf
<1>5. StageOf(b)'
  <2>1. server[b] # "alive" => hs = <<>>
        BY <1>4, Zenon DEF BridgeOk, StageOf
  <2>2. server'[b] = "alive" /\ caller'[b] \in {"rollback", "unbridge"}
        BY <1>1, <2>1
  <2> QED BY ONLY <2>2, Zenon DEF StageOf
<1>6. MailOf(b)' /\ AskedOf(b)'
      BY <1>1, <1>4, Zenon DEF BridgeOk, MailOf, AskedOf
<1> HIDE DEF k, id, hs
<1>7. T!IsInjective(Tail(hs)) /\ T!Range(Tail(hs)) = T!Range(hs) \ {<<k, id>>}
  <2>1. T!IsInjective(Tail(hs)) /\ T!Range(Tail(hs)) = T!Range(hs) \ {Head(hs)}
        BY ONLY <1>1, <1>3, <1>4, TailMember
  <2> QED BY <1>2, <2>1, Zenon
<1>8. ASSUME NEW i \in DOMAIN Tail(hs)
      PROVE  Tail(hs)[i][2] < nextId[Tail(hs)[i][1]]
  <2>1. i + 1 \in DOMAIN hs /\ Tail(hs)[i] = hs[i + 1]
        BY ONLY <1>1, <1>3, <1>8
  <2> QED BY <1>4, <2>1, Zenon
<1>9. ASSUME open, NEW j \in Kinds
      PROVE  T!On(b, j)' = Held(b, j)'
  <2>1. Held(b, j) = {h \in Nat : <<j, h>> \in T!Range(hs)}
        BY DEF Held, hs
  <2>2. Held(b, j)' = {h \in Nat : <<j, h>> \in T!Range(Tail(hs))}
        BY <1>3, Zenon DEF Held, T!Range
  <2>3. \A h \in Nat : <<j, h>> = <<k, id>> <=> j = k /\ h = id
        OBVIOUS
  <2>4. Held(b, j)' = IF j = k THEN Held(b, j) \ {id} ELSE Held(b, j)
        BY ONLY <1>2, <1>7, <2>1, <2>2, <2>3
  <2> QED BY <1>2, <1>4, <1>9, <2>4, Zenon
<1>10. HandlesOf(b)'
  <2>1. T!IsInjective(handles[b])'
        BY <1>3, <1>7, Zenon
  <2>2. \A i \in DOMAIN handles'[b] : handles'[b][i][2] < nextId'[handles'[b][i][1]]
        BY <1>1, <1>3, <1>8, Zenon
  <2>3. open' = open
        BY <1>1
  <2> QED BY <1>9, <2>1, <2>2, <2>3, Zenon DEF HandlesOf
<1>11. ASSUME NEW c \in Bridges, c # b
       PROVE  Lists(c)
  <2>1. open => id \notin T!On(c, k)
    <3>1. T!On(b, k) = {h \in DOMAIN lists[k] : lists[k][h] = b} /\ T!On(c, k) = {h \in DOMAIN lists[k] : lists[k][h] = c}
          BY DEF T!On
    <3> QED BY <1>2, <1>11, <3>1, Zenon
  <2>2. open => \A j \in Kinds : T!On(c, j)' = T!On(c, j)
        BY <1>2, <2>1
  <2> QED BY <1>1, <1>3, <2>2 DEF Lists
<1> QED BY <1>5, <1>6, <1>10, <1>11 DEF BridgeOk

(* handle_info moves a message from the mailbox to what is emitted. *)
LEMMA HandleOk ==
  ASSUME BridgeInv, NEW b \in Bridges, T!HandleInfo(b)
  PROVE  BridgeOk(b)'
<1>1. /\ server[b] \in {"alive", "stopping"} /\ mailbox[b] # <<>>
      /\ emitted' = [emitted EXCEPT ![b] = Append(@, Head(mailbox[b]))]
      /\ mailbox' = [mailbox EXCEPT ![b] = Tail(@)]
      /\ UNCHANGED <<open, lists, nextId, caller, hooks, handles, asked, server, due>>
      BY Zenon DEF T!HandleInfo, T!bvars
<1>2. /\ emitted[b] \in Seq(Message) /\ mailbox[b] \in Seq(Message)
      /\ emitted'[b] = Append(emitted[b], Head(mailbox[b])) /\ mailbox'[b] = Tail(mailbox[b])
      BY <1>1 DEF BridgeInv, BridgeType
<1>3. BridgeOk(b)
      BY DEF BridgeInv
<1>4. emitted'[b] \o mailbox'[b] = emitted[b] \o mailbox[b]
      BY <1>1, <1>2, MovesOver, Zenon
<1>5. MailOf(b)'
      BY <1>1, <1>3, <1>4, Zenon DEF BridgeOk, MailOf
<1>6. StageOf(b)'
      BY <1>1, <1>3, Zenon DEF BridgeOk, StageOf
<1>7. AskedOf(b)'
      BY <1>1, <1>3, Zenon DEF BridgeOk, AskedOf
<1>8. HandlesOf(b)'
      BY <1>1, ListsSame, SameHandles, Zenon
<1> QED BY <1>5, <1>6, <1>7, <1>8 DEF BridgeOk

(* An event reaches those that are on its list; one whose server is gone   *)
(* is on none.                                                             *)
LEMMA FireOk ==
  ASSUME BridgeInv, NEW k \in Kinds, T!Fire(k), NEW b \in Bridges
  PROVE  BridgeOk(b)'
<1>1. /\ open /\ events' = events + 1
      /\ UNCHANGED <<open, lists, nextId, caller, hooks, handles, asked, server, emitted>>
      BY Zenon DEF T!Fire, T!bvars
<1>2. /\ due' = [c \in Bridges |-> due[c] \o Told(c, k)]
      /\ mailbox' = [c \in Bridges |->
                       IF server[c] \in {"alive", "stopping"} THEN mailbox[c] \o Told(c, k) ELSE mailbox[c]]
      BY Zenon DEF T!Fire, Told
<1>3. /\ due'[b] = due[b] \o Told(b, k)
      /\ mailbox'[b] = IF server[b] \in {"alive", "stopping"} THEN mailbox[b] \o Told(b, k) ELSE mailbox[b]
      BY <1>2
<1>4. Told(b, k) \in Seq(Message) /\ (T!On(b, k) = {} => Told(b, k) = <<>>)
      BY <1>1, ToldIsSeq
<1>5. BridgeOk(b) /\ emitted[b] \in Seq(Message) /\ mailbox[b] \in Seq(Message) /\ due[b] \in Seq(Message)
      BY DEF BridgeInv, BridgeType
<1>6. server[b] \notin {"alive", "stopping"} => Told(b, k) = <<>>
  <2>1. server[b] \notin {"alive", "stopping"} => handles[b] = <<>>
        BY <1>5 DEF BridgeOk, StageOf
  <2>2. handles[b] = <<>> => Held(b, k) = {}
        BY DEF Held, T!Range
  <2>3. T!On(b, k) = Held(b, k)
        BY <1>1, <1>5 DEF BridgeOk, HandlesOf
  <2> QED BY <1>4, <2>1, <2>2, <2>3, Zenon
<1>7. due'[b] = emitted[b] \o mailbox'[b]
  <2>1. due[b] = emitted[b] \o mailbox[b]
        BY <1>5 DEF BridgeOk, MailOf
  <2>2. (emitted[b] \o mailbox[b]) \o Told(b, k) = emitted[b] \o (mailbox[b] \o Told(b, k))
    <3>1. \A e, m, x \in Seq(Message) : (e \o m) \o x = e \o (m \o x)
          BY Associative
    <3> QED BY <1>4, <1>5, <3>1, Zenon
  <2>3. due[b] \o <<>> = due[b]
        BY <1>5
  <2> QED BY <1>3, <1>6, <2>1, <2>2, <2>3, Zenon
<1>8. MailOf(b)'
      BY <1>1, <1>7, Zenon DEF MailOf
<1>9. StageOf(b)'
  <2>1. server[b] \in {"none", "stopped"} => mailbox'[b] = mailbox[b]
        BY <1>3
  <2> QED BY <1>1, <1>5, <2>1 DEF BridgeOk, StageOf
<1>10. AskedOf(b)'
      BY <1>1, <1>5, Zenon DEF BridgeOk, AskedOf
<1>11. HandlesOf(b)'
      BY <1>1, ListsSame, SameHandles, Zenon
<1> QED BY <1>8, <1>9, <1>10, <1>11 DEF BridgeOk

(* Every step of every bridge keeps the invariant. *)
LEMMA BridgeInvStep ==
  ASSUME BridgeInv, [T!Next]_T!vars
  PROVE  BridgeInv'
<1>0. BridgeType'
      BY BridgeTypeStep
<1>1. ASSUME NEW b \in Bridges,
             \/ \E hs \in T!HookLists : T!Bridge(b, hs)
             \/ T!RegisterFails(b) \/ T!RegisterRaises(b) \/ T!Bridged(b) \/ T!Unbridge(b)
             \/ T!Stop(b) \/ T!Stopped(b) \/ T!StopTimesOut(b) \/ T!HandleInfo(b)
      PROVE  \A c \in Bridges : Lists(c)
  <2>1. UNCHANGED <<lists, nextId, open>>
        BY <1>1, Zenon DEF T!Bridge, T!RegisterFails, T!RegisterRaises, T!Bridged, T!Unbridge, T!Stop, T!Stopped,
                           T!StopTimesOut, T!HandleInfo
  <2> QED BY <2>1, ListsSame, Zenon
<1>2. ASSUME NEW b \in Bridges, T!Register(b), NEW c \in Bridges, c # b
      PROVE  Lists(c)
  <2>1. open' = open
        BY <1>2, Zenon DEF T!Register
  <2>2. \A j \in Kinds : T!On(c, j)' = T!On(c, j)
        BY <1>2, RegisterLists, Zenon
  <2>3. PICK k \in Kinds : nextId' = [nextId EXCEPT ![k] = @ + 1]
        BY <1>2, RegisterLists, Zenon
  <2>4. nextId \in [Kinds -> Nat]
        BY Zenon DEF BridgeInv, BridgeType
  <2> QED BY <2>1, <2>2, <2>3, <2>4 DEF Lists
<1>3. ASSUME NEW b \in Bridges,
             \/ T!RegisterFails(b) \/ T!RegisterRaises(b) \/ T!Bridged(b) \/ T!Unbridge(b)
             \/ T!Stop(b) \/ T!Stopped(b) \/ T!StopTimesOut(b)
      PROVE  BridgeOk(b)'
  <2>1. Lists(b)
        BY <1>1, <1>3, Zenon
  <2>2. Same(b)
        BY <1>3, Zenon DEF Same, T!RegisterFails, T!RegisterRaises, T!Bridged, T!Unbridge, T!Stop, T!Stopped,
                           T!StopTimesOut
  <2>3. DOMAIN caller = Bridges /\ DOMAIN server = Bridges
        BY Zenon DEF BridgeInv, BridgeType
  <2>4. CASE T!RegisterFails(b) \/ T!RegisterRaises(b) \/ T!Bridged(b) \/ T!Unbridge(b) \/ T!StopTimesOut(b)
    <3>1. /\ server' = server
          /\ \/ caller[b] = "register" /\ caller' = [caller EXCEPT ![b] = "rollback"]
             \/ caller[b] = "register" /\ caller' = [caller EXCEPT ![b] = "raised"]
             \/ caller[b] = "register" /\ hooks[b] = <<>> /\ caller' = [caller EXCEPT ![b] = "bridged"]
             \/ caller[b] = "bridged" /\ caller' = [caller EXCEPT ![b] = "unbridge"]
             \/ /\ caller[b] \in {"rollback", "unbridge"} /\ server[b] = "stopping"
                /\ caller' = [caller EXCEPT ![b] = "exited"]
          BY <2>4, Zenon DEF T!RegisterFails, T!RegisterRaises, T!Bridged, T!Unbridge, T!StopTimesOut, T!Goto, T!OnError
    <3> QED BY <2>1, <2>2, <2>3, <3>1, CallerMoves
  <2>5. CASE T!Stop(b)
    <3>1. /\ caller[b] \in {"rollback", "unbridge"} /\ handles[b] = <<>> /\ server[b] = "alive"
          /\ caller' = caller /\ server' = [server EXCEPT ![b] = "stopping"]
          BY <2>5, Zenon DEF T!Stop
    <3> QED BY <2>1, <2>2, <2>3, <3>1, CallerMoves, Zenon
  <2>6. CASE T!Stopped(b)
    <3>1. /\ server[b] = "stopping" /\ mailbox[b] = <<>> /\ server' = [server EXCEPT ![b] = "stopped"]
          /\ caller' = [caller EXCEPT ![b] = IF caller[b] = "rollback" THEN "error"
                                             ELSE IF caller[b] = "unbridge" THEN "unbridged" ELSE caller[b]]
          BY <2>6, Zenon DEF T!Stopped, T!Goto
    <3> QED BY <2>1, <2>2, <2>3, <3>1, CallerMoves, Zenon
  <2> QED BY <1>3, <2>4, <2>5, <2>6
<1>4. ASSUME NEW b \in Bridges,
             \/ \E hs \in T!HookLists : T!Bridge(b, hs)
             \/ T!Register(b) \/ T!RegisterFails(b) \/ T!RegisterRaises(b) \/ T!Bridged(b) \/ T!Unbridge(b)
             \/ T!UnregisterHook(b) \/ T!Stop(b) \/ T!Stopped(b) \/ T!StopTimesOut(b) \/ T!HandleInfo(b),
             NEW c \in Bridges
      PROVE  BridgeOk(c)'
  <2>1. CASE c = b
    <3>1. BridgeOk(b)'
      <4>1. (\E hs \in T!HookLists : T!Bridge(b, hs)) => BridgeOk(b)'
            BY BridgeBegins
      <4>2. T!Register(b) \/ T!HandleInfo(b) \/ T!UnregisterHook(b) => BridgeOk(b)'
            BY RegisterOk, HandleOk, UnregisterOk
      <4> QED BY <1>3, <1>4, <4>1, <4>2
    <3> QED BY <2>1, <3>1
  <2>2. CASE c # b
    <3>1. Lists(c)
          BY <1>1, <1>2, <1>4, <2>2, UnregisterOk, Zenon
    <3> QED BY <1>4, <2>2, <3>1, OthersSame, SameBridge, Zenon
  <2> QED BY <2>1, <2>2
<1>5. ASSUME NEW c \in Bridges, T!CloseConnection \/ UNCHANGED T!vars
      PROVE  BridgeOk(c)'
  <2>1. /\ UNCHANGED <<lists, nextId, caller, hooks, handles, asked, server, mailbox, emitted, due>>
        /\ open' => open
    <3>1. CASE T!CloseConnection
          BY <3>1, Zenon DEF T!CloseConnection, T!bvars
    <3>2. CASE UNCHANGED T!vars
          BY <3>2, Zenon DEF T!vars
    <3> QED BY <1>5, <3>1, <3>2, Zenon
  <2>2. Same(c) /\ caller'[c] = caller[c] /\ server'[c] = server[c]
        BY <2>1, Zenon DEF Same
  <2> QED BY <2>1, <2>2, ListsSame, SameBridge, Zenon
<1>6. \A c \in Bridges : BridgeOk(c)'
      BY <1>4, <1>5, FireOk, Zenon DEF T!Next
<1> QED BY <1>0, <1>6, Zenon DEF BridgeInv

(* The invariant of the bridges holds throughout. *)
LEMMA BridgeInvariant == T!Spec => []BridgeInv
<1>1. T!Init => BridgeInv
  <2> SUFFICES ASSUME T!Init
               PROVE  BridgeInv
      OBVIOUS
  <2>1. /\ open = TRUE /\ events = 0 /\ lists = [k \in Kinds |-> T!Empty] /\ nextId = [k \in Kinds |-> 1]
        /\ caller = [b \in Bridges |-> "idle"] /\ server = [b \in Bridges |-> "none"]
        /\ hooks = [b \in Bridges |-> <<>>] /\ handles = hooks /\ asked = hooks
        /\ mailbox = hooks /\ emitted = hooks /\ due = hooks
        BY Zenon DEF T!Init
  <2>2. DOMAIN T!Empty = {}
        BY DEF T!Empty
  <2>3. BridgeType
        BY <2>1, <2>2 DEF BridgeType
  <2>4. ASSUME NEW b \in Bridges
        PROVE  BridgeOk(b)
    <3>1. /\ caller[b] = "idle" /\ server[b] = "none" /\ hooks[b] = <<>> /\ handles[b] = <<>>
          /\ mailbox[b] = <<>> /\ emitted[b] = <<>> /\ due[b] = <<>>
          BY <2>1, Zenon
    <3>2. StageOf(b) /\ MailOf(b) /\ AskedOf(b)
          BY <3>1 DEF StageOf, MailOf, AskedOf
    <3>3. ASSUME NEW k \in Kinds
          PROVE  T!On(b, k) = Held(b, k)
      <4>1. lists[k] = T!Empty
            BY <2>1, Zenon
      <4> QED BY <2>2, <3>1, <4>1 DEF T!On, Held, T!Range
    <3>4. HandlesOf(b)
          BY <3>1, <3>3 DEF HandlesOf, T!IsInjective
    <3> QED BY <3>2, <3>4 DEF BridgeOk
  <2> QED BY <2>3, <2>4 DEF BridgeInv
<1>2. BridgeInv /\ [T!Next]_T!vars => BridgeInv'
      BY BridgeInvStep
<1> QED BY <1>1, <1>2, PTL DEF T!Spec

(* A bridge that is established is on exactly the lists it asked for, and  *)
(* one that failed or was taken down is on none of an open connection,     *)
(* whatever the other bridges do: unregister_hook of bridge.ex gives back  *)
(* exactly the handles that register_per_conn_hooks collected.             *)
THEOREM BridgesSafe == T!Spec => []BridgesKeepTheirLists
<1>1. BridgeInv => BridgesKeepTheirLists
  <2> SUFFICES ASSUME BridgeInv
               PROVE  BridgesKeepTheirLists
      OBVIOUS
  <2>1. ASSUME NEW b \in Bridges, open, caller[b] \in {"error", "unbridged", "exited"}, NEW k \in Kinds
        PROVE  T!On(b, k) = {}
    <3>1. handles[b] = <<>> /\ T!On(b, k) = Held(b, k)
      <4>1. StageOf(b) /\ HandlesOf(b)
            BY <2>1, Zenon DEF BridgeInv, BridgeOk
      <4> QED BY <2>1, <4>1 DEF StageOf, HandlesOf
    <3>2. T!Range(<<>>) = {}
          BY DEF T!Range
    <3> QED BY <3>1, <3>2, Zenon DEF Held
  <2>2. ASSUME NEW b \in Bridges, caller[b] \in {"error", "unbridged"}
        PROVE  server[b] = "stopped"
        BY <2>2, Zenon DEF BridgeInv, BridgeOk, StageOf
  <2>3. ASSUME NEW b \in Bridges, open, caller[b] = "bridged", NEW k \in Kinds
        PROVE  T!Cardinality(T!On(b, k)) = IF k \in T!Range(asked[b]) THEN 1 ELSE 0
    <3> DEFINE hs == handles[b]
               want == asked[b]
    <3>1. /\ hs \in Seq(Message) /\ want \in Seq(AllHooks) /\ hooks[b] = <<>>
          /\ T!IsInjective(want) /\ Len(want) = Len(hs) + Len(hooks[b])
          /\ \A i \in DOMAIN hs : hs[i][1] = want[i]
          /\ T!On(b, k) = Held(b, k)
          BY <2>3 DEF BridgeInv, BridgeType, BridgeOk, HandlesOf, AskedOf
    <3> HIDE DEF hs, want
    <3>2. DOMAIN want = 1..Len(hs) /\ DOMAIN hs = 1..Len(hs)
      <4>1. Len(hooks[b]) = 0
            BY <3>1
      <4>2. hs \in Seq(Message) /\ want \in Seq(AllHooks) /\ Len(want) = Len(hs) + 0
            BY <3>1, <4>1, Zenon
      <4>3. Len(hs) \in Nat /\ DOMAIN hs = 1..Len(hs) /\ DOMAIN want = 1..Len(want)
            BY ONLY <4>2
      <4>4. Len(want) = Len(hs)
            BY ONLY <4>2, <4>3
      <4> QED BY <4>3, <4>4, Zenon
    <3>3. Held(b, k) = {h \in Nat : \E i \in 1..Len(hs) : hs[i] = <<k, h>>}
          BY <3>2, Zenon DEF Held, hs, T!Range
    <3>4. \A i \in 1..Len(hs) : hs[i][2] \in Nat /\ hs[i] = <<want[i], hs[i][2]>>
      <4>1. ASSUME NEW i \in 1..Len(hs)
            PROVE  hs[i][2] \in Nat /\ hs[i] = <<want[i], hs[i][2]>>
        <5>0. \A s \in Seq(Message) : \A j \in DOMAIN s : s[j] \in Message
              BY ONLY TRUE
        <5>1. hs[i] \in Message
              BY <3>1, <3>2, <4>1, <5>0, Zenon
        <5>2. hs[i][1] = want[i]
              BY <3>1, <3>2, Zenon
        <5>3. \A m \in Message : m[2] \in Nat /\ m = <<m[1], m[2]>>
              BY ONLY TRUE DEF Message
        <5> QED BY <5>1, <5>2, <5>3, Zenon
      <4> QED BY <4>1, Zenon
    <3>5. T!Cardinality(T!On(b, k)) = Cardinality(T!On(b, k))
          BY Zenon DEF T!Cardinality, Cardinality
    <3>0. \A x, y, u, v : <<x, y>> = <<u, v>> => x = u
          OBVIOUS
    <3>6. CASE k \in T!Range(want)
      <4>1. PICK i \in 1..Len(hs) : want[i] = k
            BY <3>2, <3>6, Zenon DEF T!Range
      <4>2. \A j \in 1..Len(hs) : want[j] = k => j = i
            BY <3>1, <3>2, <4>1, Zenon DEF T!IsInjective
      <4>3. Held(b, k) = {hs[i][2]}
        <5>1. hs[i] = <<k, hs[i][2]>> /\ hs[i][2] \in Nat
              BY <3>4, <4>1, Zenon
        <5>2. ASSUME NEW h \in Nat, NEW j \in 1..Len(hs), hs[j] = <<k, h>>
              PROVE  h = hs[i][2]
          <6>1. hs[j] = <<want[j], hs[j][2]>>
                BY <3>4, Zenon
          <6>2. want[j] = k
                BY <3>0, <5>2, <6>1, Zenon
          <6>3. j = i
                BY <4>2, <6>2, Zenon
          <6> QED BY ONLY <5>2, <6>3
        <5> QED BY <3>3, <5>1, <5>2, Zenon
      <4>4. Cardinality(T!On(b, k)) = 1
            BY <3>1, <4>3, FS_Singleton, Zenon
      <4> QED BY <3>5, <3>6, <4>4 DEF want
    <3>7. CASE k \notin T!Range(want)
      <4>1. \A i \in 1..Len(hs) : want[i] # k
            BY <3>2, <3>7, Zenon DEF T!Range
      <4>2. Held(b, k) = {}
        <5>1. ASSUME NEW h \in Nat, NEW j \in 1..Len(hs), hs[j] = <<k, h>>
              PROVE  FALSE
          <6>1. hs[j] = <<want[j], hs[j][2]>>
                BY <3>4, Zenon
          <6>2. want[j] = k
                BY <3>0, <5>1, <6>1, Zenon
          <6> QED BY <4>1, <6>2, Zenon
        <5> QED BY <3>3, <5>1, Zenon
      <4>3. Cardinality(T!On(b, k)) = 0
            BY <3>1, <4>2, FS_EmptySet
      <4> QED BY <3>5, <3>7, <4>3 DEF want
    <3> QED BY <3>6, <3>7, Zenon
  <2>4. T!StaysSubscribed
        BY <2>3, Zenon DEF T!StaysSubscribed
  <2>5. T!NothingLeftBehind
        BY <2>1, <2>2, Zenon DEF T!NothingLeftBehind
  <2> QED BY <2>4, <2>5 DEF BridgesKeepTheirLists, T!BridgesKeepTheirLists
<1> QED BY <1>1, BridgeInvariant, PTL

(* Every event raised on a list the bridge was on is emitted once and in   *)
(* order, and unbridge/1 returns only when all of them have been.          *)
THEOREM BridgeEmits == T!Spec => []EmitsWhatItHeard
<1>1. BridgeInv => EmitsWhatItHeard
  <2> SUFFICES ASSUME BridgeInv, NEW b \in Bridges
               PROVE  /\ due[b] = emitted[b] \o mailbox[b]
                      /\ caller[b] \in {"error", "unbridged"} => emitted[b] = due[b]
      BY Zenon DEF EmitsWhatItHeard, T!EmitsWhatItHeard
  <2>1. due[b] = emitted[b] \o mailbox[b] /\ emitted[b] \in Seq(Message)
        BY Zenon DEF BridgeInv, BridgeOk, MailOf, BridgeType
  <2>2. caller[b] \in {"error", "unbridged"} => mailbox[b] = <<>>
        BY DEF BridgeInv, BridgeOk, StageOf
  <2>3. emitted[b] \o <<>> = emitted[b]
        BY <2>1
  <2> QED BY <2>1, <2>2, <2>3, Zenon
<1> QED BY <1>1, BridgeInvariant, PTL
=============================================================================
