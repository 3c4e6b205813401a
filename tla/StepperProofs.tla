---------------------------- MODULE StepperProofs ----------------------------
(***************************************************************************)
(* Theorems about the stepper: types for every client, and for one browser *)
(* tab, whose buttons wait for a load and a kill, what a script's results  *)
(* show and what a script starts over, for every number of loads and       *)
(* kills; and what the tab itself shows of them once nothing is under way. *)
(***************************************************************************)
EXTENDS Stepper, StepperPage, SequenceTheorems, TLAPS

Statement == {"BEGIN", "COMMIT"} \cup Row
Connection == Txn \X Nat
Result == [status : {"PENDING", "WAITING", "DONE", "ERROR", "KILLED"}, of : Nat]
Runtime == [conn : Nat, made : Nat, scenario : Scenario \cup {NoScenario}, installed : Nat,
            cursor : Nat, killed : BOOLEAN, busy : BOOLEAN, results : Seq(Result)]

StepRequest == [conn : Connection, kind : {"step"}, txn : Txn, index : Nat, sql : Statement,
                gen : Nat, installed : Nat]
KillRequest == [conn : {Admin}, kind : {"kill"}, txn : Txn, target : Connection]
LoadKinds == {"loadKill", "rollback", "reset", "set"}
LoadRequests == [conn : Connection \cup {Admin}, kind : LoadKinds]
Request == StepRequest \cup KillRequest \cup LoadRequests

Stages == {"idle", "connect", "end", "ending", "reconnect", "reset", "set"}
Load == [at : Stages, txn : Txn, scenario : Scenario \cup {NoScenario}]

EngineTypes == txn \in [Txn -> Runtime] /\ generation \in Nat /\ load \in Load
BoundTypes == loads \in Nat /\ kills \in Nat
DbTypes == /\ alive \subseteq Connection /\ inTx \subseteq Connection
           /\ owner \in [Row -> Connection \cup {Nobody}]
StepperTypeOK == EngineTypes /\ BoundTypes /\ DbTypes /\ sent \in Seq(Request)

(* A result for each statement of the script that is there. *)
RuntimeFits(x, t) ==
  IF x.scenario = NoScenario THEN x.results = <<>>
  ELSE Len(x.results) = Len(Script[x.scenario][t])

(* Before the first load nothing can be asked of the engine. *)
BeforeLoad ==
  load.scenario = NoScenario =>
    load.at = "idle" /\ sent = <<>> /\ \A t \in Txn : txn[t] = Unloaded

ScriptsFit == BeforeLoad /\ \A t \in Txn : RuntimeFits(txn[t], t)

TypesInv == StepperTypeOK /\ ScriptsFit

(* The results are of the script that is there. *)
Own(x) == \A k \in DOMAIN x.results : x.results[k].of = x.installed
-----------------------------------------------------------------------------
(* The operators the engine is built from. *)

LEMMA ScriptTypes ==
  ASSUME NEW s \in Scenario, NEW t \in Txn
  PROVE  Script[s][t] \in Seq(Statement)
  <1>1. /\ LockA \in Seq(Statement)
        /\ LockBoth("A", "B") \in Seq(Statement) /\ LockBoth("B", "A") \in Seq(Statement)
    BY DEF LockA, LockBoth, Statement, Row
  <1> DEFINE a == LockA  b == LockBoth("A", "B")  c == LockBoth("B", "A")
  <1>2. Script = [PESSIMISTIC_RC |-> [T1 |-> a, T2 |-> a], CLASSIC_DEADLOCK |-> [T1 |-> b, T2 |-> c],
                  ORDERED_LOCKING |-> [T1 |-> b, T2 |-> b]]
    BY DEF Script
  <1> HIDE DEF a, b, c
  <1>3. s \in {"PESSIMISTIC_RC", "CLASSIC_DEADLOCK", "ORDERED_LOCKING"} /\ t \in {"T1", "T2"}
    BY <1>2 DEF Scenario, Txn
  <1>4. Script[s][t] \in {a, b, c}
    BY <1>2, <1>3
  <1> QED BY <1>1, <1>4 DEF a, b, c

LEMMA Removed ==
  ASSUME NEW S, NEW s \in Seq(S), NEW i \in DOMAIN s
  PROVE  /\ RemoveAt(s, i) \in Seq(S)
         /\ Len(RemoveAt(s, i)) = Len(s) - 1
         /\ \A j \in 1 .. Len(s) - 1 : RemoveAt(s, i)[j] = IF j < i THEN s[j] ELSE s[j + 1]
  <1>1. i \in 1 .. Len(s) /\ Len(s) \in Nat
    OBVIOUS
  <1> DEFINE p == SubSeq(s, 1, i - 1)  q == SubSeq(s, i + 1, Len(s))
  <1>2. p \in Seq(S) /\ Len(p) = i - 1 /\ \A j \in 1 .. i - 1 : p[j] = s[j]
    BY <1>1
  <1>3. q \in Seq(S) /\ Len(q) = Len(s) - i /\ \A j \in 1 .. Len(s) - i : q[j] = s[j + i]
    BY <1>1
  <1>4. RemoveAt(s, i) = p \o q
    BY DEF RemoveAt
  <1> HIDE DEF p, q
  <1> QED BY <1>1, <1>2, <1>3, <1>4

LEMMA Sent ==
  ASSUME NEW S, NEW s \in Seq(S), NEW e \in S
  PROVE  /\ Append(s, e) \in Seq(S)
         /\ Len(Append(s, e)) = Len(s) + 1
         /\ \A j \in 1 .. Len(s) : Append(s, e)[j] = s[j]
         /\ Append(s, e)[Len(s) + 1] = e
  OBVIOUS

(* Results that are replaced one by one are as many. *)
LEMMA Marked ==
  ASSUME NEW r \in Seq(Result), NEW q, q = [k \in DOMAIN r |-> q[k]],
         \A k \in DOMAIN r : q[k] \in Result
  PROVE  q \in Seq(Result) /\ Len(q) = Len(r) /\ DOMAIN q = DOMAIN r
  <1>1. DOMAIN q = 1 .. Len(r) /\ q \in [1 .. Len(r) -> Result]
    OBVIOUS
  <1>2. Len(r) \in Nat
    OBVIOUS
  <1> QED BY <1>1, <1>2

LEMMA AnsweredIs ==
  ASSUME NEW t \in Txn, NEW x \in Runtime, RuntimeFits(x, t), NEW s \in StepRequest,
         NEW status \in {"DONE", "ERROR"}
  PROVE  LET y == Answered(x, s, status) IN
         /\ y \in Runtime /\ RuntimeFits(y, t)
         /\ y.conn = x.conn /\ y.made = x.made /\ y.installed = x.installed
         /\ y.busy = FALSE
         /\ Own(x) /\ s.installed = x.installed => Own(y)
  <1> DEFINE e == [status |-> status, of |-> s.installed]
             q == [k \in DOMAIN x.results |-> IF k = s.index THEN e ELSE x.results[k]]
             y == [x EXCEPT !.busy = FALSE, !.results = q]
  <1>1. Answered(x, s, status) = y
    BY DEF Answered, BusyAfter
  <1>2. x.results \in Seq(Result) /\ e \in Result /\ e.of = s.installed
    BY DEF Runtime, StepRequest, Result
  <1> HIDE DEF e
  <1>3. \A k \in DOMAIN x.results : q[k] \in Result
    BY <1>2
  <1>4. q \in Seq(Result) /\ Len(q) = Len(x.results) /\ DOMAIN q = DOMAIN x.results
    BY <1>2, <1>3, Marked
  <1>5. \A k \in DOMAIN x.results : q[k] = IF k = s.index THEN e ELSE x.results[k]
    OBVIOUS
  <1> HIDE DEF q
  <1>6. y \in Runtime /\ y.results = q /\ y.scenario = x.scenario /\ y.busy = FALSE
        /\ y.conn = x.conn /\ y.made = x.made /\ y.installed = x.installed
    BY <1>4 DEF Runtime
  <1> HIDE DEF y
  <1>7. RuntimeFits(y, t)
    BY <1>4, <1>6 DEF RuntimeFits, Runtime
  <1>8. Own(x) /\ s.installed = x.installed => Own(y)
    BY <1>2, <1>4, <1>5, <1>6 DEF Own
  <1> QED BY <1>1, <1>6, <1>7, <1>8

(* What a KILL leaves of a transaction: what it did, and no connection. *)
KilledBy(x) ==
  [x EXCEPT !.killed = TRUE, !.conn = 0,
            !.results = [k \in DOMAIN x.results |->
               IF k > x.cursor THEN [x.results[k] EXCEPT !.status = "KILLED"] ELSE x.results[k]]]

LEMMA KilledByIs ==
  ASSUME NEW t \in Txn, NEW x \in Runtime, RuntimeFits(x, t)
  PROVE  LET y == KilledBy(x) IN
         /\ y \in Runtime /\ RuntimeFits(y, t)
         /\ y.conn = 0 /\ y.made = x.made /\ y.installed = x.installed
         /\ y.busy = x.busy /\ (Own(x) => Own(y))
  <1> DEFINE w == "KILLED"
             e(k) == [x.results[k] EXCEPT !.status = w]
             q == [k \in DOMAIN x.results |-> IF k > x.cursor THEN e(k) ELSE x.results[k]]
             y == [x EXCEPT !.killed = TRUE, !.conn = 0, !.results = q]
  <1>1. KilledBy(x) = y
    BY DEF KilledBy
  <1>2. x.results \in Seq(Result) /\ w \in {"PENDING", "WAITING", "DONE", "ERROR", "KILLED"}
    BY DEF Runtime
  <1> HIDE DEF w
  <1>3. ASSUME NEW k \in DOMAIN x.results
        PROVE  e(k) \in Result /\ e(k).of = x.results[k].of
    <2> DEFINE z == x.results[k]
    <2>1. z \in Result
      BY <1>2
    <2> HIDE DEF z
    <2>2. [z EXCEPT !.status = w] \in Result /\ [z EXCEPT !.status = w].of = z.of
      BY <1>2, <2>1 DEF Result
    <2> QED BY <2>2 DEF z
  <1> HIDE DEF e
  <1>4. \A k \in DOMAIN x.results : q[k] \in Result /\ q[k].of = x.results[k].of
    BY <1>2, <1>3
  <1>5. q \in Seq(Result) /\ Len(q) = Len(x.results) /\ DOMAIN q = DOMAIN x.results
    BY <1>2, <1>4, Marked
  <1> HIDE DEF q
  <1>6. y \in Runtime /\ y.results = q /\ y.scenario = x.scenario /\ y.busy = x.busy
        /\ y.conn = 0 /\ y.made = x.made /\ y.installed = x.installed
    BY <1>5 DEF Runtime
  <1> HIDE DEF y
  <1> QED BY <1>1, <1>4, <1>5, <1>6 DEF RuntimeFits, Runtime, Own

LEMMA KilledIs ==
  ASSUME NEW t \in Txn, NEW x \in Runtime, RuntimeFits(x, t)
  PROVE  LET y == Killed(x) IN
         /\ y \in Runtime /\ RuntimeFits(y, t)
         /\ y.conn = 0 /\ y.made = x.made /\ y.installed = x.installed
         /\ y.busy = FALSE /\ (Own(x) => Own(y))
  BY DEF Killed, Runtime, RuntimeFits, Own

(* The script that load() puts in place. *)
LEMMA FreshIs ==
  ASSUME load \in Load, load.scenario # NoScenario, loads \in Nat,
         NEW t \in Txn, NEW x \in Runtime
  PROVE  LET y == Fresh(x, t) IN
         /\ y \in Runtime /\ RuntimeFits(y, t) /\ Own(y)
         /\ y.conn = x.conn /\ y.made = x.made /\ y.busy = x.busy
  <1> DEFINE p == "PENDING"
             e == [status |-> p, of |-> loads]
             l == Script[load.scenario][t]
             q == [k \in DOMAIN l |-> e]
             y == [x EXCEPT !.scenario = load.scenario, !.installed = loads,
                            !.cursor = 0, !.killed = FALSE, !.results = q]
  <1>1. Fresh(x, t) = y
    BY DEF Fresh
  <1>2. load.scenario \in Scenario
    BY DEF Load
  <1>3. l \in Seq(Statement) /\ p \in {"PENDING", "WAITING", "DONE", "ERROR", "KILLED"}
    BY <1>2, ScriptTypes
  <1> HIDE DEF p
  <1>4. e \in Result /\ e.of = loads
    BY <1>3 DEF Result
  <1> HIDE DEF e, l
  <1>5. q \in Seq(Result) /\ Len(q) = Len(l) /\ \A k \in DOMAIN q : q[k].of = loads
    BY <1>3, <1>4
  <1> HIDE DEF q
  <1>6. y \in Runtime /\ y.results = q /\ y.scenario = load.scenario /\ y.busy = x.busy
        /\ y.conn = x.conn /\ y.made = x.made /\ y.installed = loads
    BY <1>2, <1>5 DEF Runtime
  <1> HIDE DEF y
  <1>7. load.scenario # NoScenario
    OBVIOUS
  <1> QED BY <1>1, <1>5, <1>6, <1>7 DEF RuntimeFits, Own, l

(* A step takes the next statement; its result is of the script. *)
LEMMA TakenIs ==
  ASSUME NEW t \in Txn, NEW x \in Runtime, RuntimeFits(x, t),
         NEW busy \in BOOLEAN, NEW status \in {"WAITING", "ERROR"}
  PROVE  LET y == Taken(x, busy, status) IN
         /\ y \in Runtime /\ RuntimeFits(y, t)
         /\ y.conn = x.conn /\ y.made = x.made /\ y.installed = x.installed
         /\ y.busy = busy /\ (Own(x) => Own(y))
  <1> DEFINE e == [status |-> status, of |-> x.installed]
             k == x.cursor + 1
             r == x.results
             q == [r EXCEPT ![k] = e]
             y == [x EXCEPT !.cursor = k, !.busy = busy, !.results = q]
  <1>1. Taken(x, busy, status) = y
    BY DEF Taken
  <1>2. r \in Seq(Result) /\ e \in Result /\ e.of = x.installed /\ k \in Nat
    BY DEF Runtime, Result
  <1> HIDE DEF e, k, r
  <1>3. /\ DOMAIN q = DOMAIN r
        /\ \A j \in DOMAIN r : q[j] \in Result /\ (q[j] = r[j] \/ q[j] = e)
        /\ q = [j \in DOMAIN r |-> q[j]]
    BY <1>2
  <1>5. q \in Seq(Result) /\ Len(q) = Len(r)
    BY <1>2, <1>3, Marked
  <1> HIDE DEF q
  <1>4. y \in Runtime /\ y.results = q /\ y.scenario = x.scenario /\ y.busy = busy
        /\ y.conn = x.conn /\ y.made = x.made /\ y.installed = x.installed
    BY <1>2, <1>3, <1>5 DEF Runtime
  <1> HIDE DEF y
  <1>6. RuntimeFits(y, t)
    <2>1. x.scenario = NoScenario => r = <<>> /\ Len(r) = 0 /\ q = <<>>
      BY <1>2, <1>5 DEF RuntimeFits, r
    <2> QED BY <1>4, <1>5, <2>1 DEF RuntimeFits, r
  <1>7. Own(x) => Own(y)
    BY <1>2, <1>3, <1>4 DEF Own, r
  <1> QED BY <1>1, <1>4, <1>6, <1>7
-----------------------------------------------------------------------------
(* Type correctness. *)

LEMMA RequestKinds ==
  ASSUME NEW s \in Request
  PROVE  /\ s.kind = "step" => s \in StepRequest
         /\ s.kind = "kill" => s \in KillRequest
         /\ s.kind \in LoadKinds => s \in LoadRequests
         /\ s.conn \in Connection \cup {Admin}
  BY DEF Request, StepRequest, KillRequest, LoadRequests, LoadKinds

LEMMA ConnType ==
  ASSUME txn \in [Txn -> Runtime], NEW t \in Txn
  PROVE  Conn(t) \in Connection
  BY DEF Conn, Connection, Runtime

LEMMA LoadRequestType ==
  ASSUME NEW c \in Connection \cup {Admin}, NEW kind \in LoadKinds
  PROVE  [conn |-> c, kind |-> kind] \in Request
  BY DEF Request, LoadRequests

LEMMA Loaded ==
  ASSUME TypesInv,
         \/ load.at # "idle" \/ (\E i \in DOMAIN sent : TRUE)
         \/ \E t \in Txn : txn[t].conn # 0 \/ txn[t].results # <<>>
  PROVE  load.scenario # NoScenario
  BY DEF TypesInv, ScriptsFit, BeforeLoad, Unloaded

LEMMA OneTxn ==
  ASSUME TypesInv, NEW t \in Txn, NEW y \in Runtime, RuntimeFits(y, t),
         txn' = [txn EXCEPT ![t] = y]
  PROVE  txn' \in [Txn -> Runtime] /\ \A u \in Txn : RuntimeFits(txn'[u], u)
  BY DEF TypesInv, StepperTypeOK, EngineTypes, ScriptsFit

LEMMA FreedType ==
  ASSUME DbTypes, NEW c
  PROVE  Freed(c) \in [Row -> Connection \cup {Nobody}]
  BY DEF DbTypes, Freed

LEMMA InitTypes == Init => TypesInv
  <1> SUFFICES ASSUME Init PROVE TypesInv
    OBVIOUS
  <1>1. Unloaded \in Runtime /\ \A t \in Txn : RuntimeFits(Unloaded, t)
    BY DEF Unloaded, Runtime, RuntimeFits
  <1>2. load \in Load
    BY DEF Init, Load, Stages, Txn
  <1>3. sent \in Seq(Request)
    BY DEF Init
  <1> QED
    BY <1>1, <1>2, <1>3
    DEF Init, TypesInv, StepperTypeOK, EngineTypes, BoundTypes, DbTypes, ScriptsFit, BeforeLoad

(* What a statement does to the database. *)
LEMMA DbStep ==
  ASSUME TypesInv, NEW i \in DOMAIN sent, Execute(i) \/ Refuse(i) \/ Victim(i)
  PROVE  /\ sent[i] \in StepRequest /\ First(i) /\ DbTypes'
         /\ alive' = alive /\ inTx' \subseteq inTx \cup {sent[i].conn}
         /\ ~Served(i) => inTx' = inTx /\ owner' = owner
  <1>1. sent[i] \in StepRequest /\ First(i)
    BY RequestKinds DEF Execute, Refuse, Victim, WaitCycle, Blocked, IsStep, TypesInv, StepperTypeOK
  <1>2. sent[i].conn \in Connection /\ DbTypes
    BY <1>1 DEF StepRequest, TypesInv, StepperTypeOK
  <1>3. CASE Execute(i)
    <2>1. inTx' \in {inTx \cup {sent[i].conn}, inTx \ {sent[i].conn}, inTx}
      BY <1>3 DEF Execute
    <2>2. owner' \in [Row -> Connection \cup {Nobody}]
      BY <1>2, <1>3, FreedType DEF Execute, DbTypes
    <2> QED BY <1>1, <1>2, <1>3, <2>1, <2>2 DEF Execute, DbTypes
  <1>4. CASE Refuse(i)
    BY <1>1, <1>2, <1>4 DEF Refuse, dbVars, DbTypes
  <1>5. CASE Victim(i)
    BY <1>1, <1>2, <1>5, FreedType DEF Victim, WaitCycle, Blocked, DbTypes
  <1> QED BY <1>3, <1>4, <1>5

(* Settle touches one transaction, and only if the load is still the one   *)
(* the step was taken in.                                                  *)
LEMMA SettleIs ==
  ASSUME TypesInv, NEW i \in DOMAIN sent, sent[i] \in StepRequest,
         NEW status \in {"DONE", "ERROR"}, Settle(i, status)
  PROVE  /\ sent' = RemoveAt(sent, i) /\ sent' \in Seq(Request)
         /\ UNCHANGED <<generation, load, loads, kills>>
         /\ txn' \in [Txn -> Runtime] /\ \A u \in Txn : RuntimeFits(txn'[u], u)
         /\ \A u \in Txn : /\ txn'[u].conn = txn[u].conn /\ txn'[u].made = txn[u].made
                           /\ txn'[u].installed = txn[u].installed
                           /\ txn'[u].busy => txn[u].busy
                           /\ txn[u].busy /\ ~txn'[u].busy => u = sent[i].txn /\ sent[i].gen = generation
                           /\ u = sent[i].txn /\ sent[i].gen = generation => ~txn'[u].busy
                           /\ Own(txn[u]) /\ (sent[i].gen = generation
                                => sent[i].installed = txn[sent[i].txn].installed) => Own(txn'[u])
  <1> DEFINE s == sent[i]  t == s.txn  x == txn[t]  y == Answered(x, s, status)
  <1>1. /\ sent' = RemoveAt(sent, i) /\ UNCHANGED <<generation, load, loads, kills>>
        /\ IF s.gen = generation THEN txn' = [txn EXCEPT ![t] = y] ELSE txn' = txn
    BY DEF Settle, boundVars
  <1>2. sent' \in Seq(Request)
    BY <1>1, Removed DEF TypesInv, StepperTypeOK
  <1>3. t \in Txn /\ txn \in [Txn -> Runtime] /\ (\A u \in Txn : RuntimeFits(txn[u], u))
        /\ x \in Runtime /\ RuntimeFits(x, t) /\ s \in StepRequest
    BY DEF StepRequest, TypesInv, StepperTypeOK, EngineTypes, ScriptsFit
  <1> HIDE DEF s, x, t
  <1>4. /\ y \in Runtime /\ RuntimeFits(y, t)
        /\ y.conn = x.conn /\ y.made = x.made /\ y.installed = x.installed
        /\ y.busy = FALSE
        /\ Own(x) /\ s.installed = x.installed => Own(y)
    BY <1>3, AnsweredIs
  <1> HIDE DEF y
  <1>5. CASE s.gen = generation
    <2>1. txn' = [txn EXCEPT ![t] = y]
      BY <1>1, <1>5
    <2>2. txn' \in [Txn -> Runtime] /\ \A u \in Txn : RuntimeFits(txn'[u], u)
      BY <1>3, <1>4, <2>1, OneTxn
    <2>3. \A u \in Txn : txn'[u] = IF u = t THEN y ELSE txn[u]
      BY <1>3, <2>1
    <2> QED BY <1>1, <1>2, <1>3, <1>4, <1>5, <2>2, <2>3 DEF s, t, x
  <1>6. CASE s.gen # generation
    BY <1>1, <1>2, <1>3, <1>6 DEF s, t, x
  <1> QED BY <1>5, <1>6

LEMMA StatementTypes ==
  ASSUME TypesInv, NEW i \in DOMAIN sent, NEW status \in {"DONE", "ERROR"},
         Execute(i) \/ Refuse(i) \/ Victim(i), Settle(i, status)
  PROVE  TypesInv'
  <1>1. sent[i] \in StepRequest /\ DbTypes'
    BY DbStep
  <1>2. sent' \in Seq(Request) /\ UNCHANGED <<generation, load, loads, kills>>
        /\ txn' \in [Txn -> Runtime] /\ \A u \in Txn : RuntimeFits(txn'[u], u)
    BY <1>1, SettleIs
  <1>3. load.scenario # NoScenario
    BY Loaded
  <1> QED
    BY <1>1, <1>2, <1>3 DEF TypesInv, StepperTypeOK, EngineTypes, BoundTypes, ScriptsFit, BeforeLoad

LEMMA StepIs ==
  ASSUME TypesInv, NEW t \in Txn, Step(t)
  PROVE  /\ TypesInv' /\ UNCHANGED <<generation, load, loads, kills, alive, inTx, owner>>
         /\ Ready(txn[t])
         /\ \A u \in Txn : /\ txn'[u].conn = txn[u].conn /\ txn'[u].made = txn[u].made
                           /\ txn'[u].installed = txn[u].installed
                           /\ u # t => txn'[u] = txn[u]
                           /\ Own(txn[u]) => Own(txn'[u])
         /\ \/ txn[t].conn = 0 /\ sent' = sent /\ ~txn'[t].busy
            \/ /\ txn[t].conn # 0 /\ txn'[t].busy
               /\ \E s \in StepRequest : /\ sent' = Append(sent, s) /\ s.conn = Conn(t) /\ s.txn = t
                                        /\ s.gen = generation /\ s.installed = txn[t].installed
  <1> DEFINE x == txn[t]  k == x.cursor + 1
             y(busy, status) == Taken(x, busy, status)
             r == [conn |-> Conn(t), kind |-> "step", txn |-> t, index |-> k,
                   sql |-> Script[x.scenario][t][k], gen |-> generation, installed |-> x.installed]
  <1>1. /\ txn \in [Txn -> Runtime] /\ x \in Runtime /\ RuntimeFits(x, t)
        /\ generation \in Nat /\ sent \in Seq(Request)
    BY DEF TypesInv, StepperTypeOK, EngineTypes, ScriptsFit
  <1>2. /\ Ready(x) /\ UNCHANGED <<generation, load, loads, kills, alive, inTx, owner>>
        /\ IF x.conn = 0 THEN txn' = [txn EXCEPT ![t] = y(FALSE, "ERROR")] /\ sent' = sent
           ELSE txn' = [txn EXCEPT ![t] = y(TRUE, "WAITING")] /\ sent' = Append(sent, r)
    BY DEF Step, boundVars, dbVars
  <1>3. \A busy \in BOOLEAN, status \in {"WAITING", "ERROR"} :
          /\ y(busy, status) \in Runtime /\ RuntimeFits(y(busy, status), t)
          /\ y(busy, status).conn = x.conn /\ y(busy, status).made = x.made
          /\ y(busy, status).installed = x.installed /\ y(busy, status).busy = busy
          /\ (Own(x) => Own(y(busy, status)))
    BY <1>1, TakenIs
  <1>4. r \in StepRequest /\ r.conn = Conn(t) /\ r.txn = t /\ r.gen = generation /\ r.installed = x.installed
    <2>1. x.scenario \in Scenario /\ k \in 1 .. Len(Script[x.scenario][t])
      <3>1. x.cursor < Len(x.results) /\ x.cursor \in Nat /\ x.results \in Seq(Result)
            /\ x.scenario \in Scenario \cup {NoScenario}
        BY <1>1, <1>2 DEF Ready, Runtime
      <3>2. x.results # <<>>
        BY <3>1
      <3> QED BY <1>1, <3>1, <3>2 DEF RuntimeFits
    <2> DEFINE l == Script[x.scenario][t]
    <2>2. l \in Seq(Statement)
      BY <2>1, ScriptTypes
    <2>3. k \in 1 .. Len(l)
      BY <2>1
    <2> HIDE DEF l
    <2>4. l[k] \in Statement /\ k \in Nat
      BY <2>2, <2>3
    <2>5. Conn(t) \in Connection /\ x.installed \in Nat
      BY <1>1, ConnType DEF Runtime
    <2> HIDE DEF k, x
    <2> DEFINE a == Conn(t)  q == l[k]
    <2>6. r = [conn |-> a, kind |-> "step", txn |-> t, index |-> k, sql |-> q,
               gen |-> generation, installed |-> x.installed]
      BY DEF l
    <2> HIDE DEF a, q, r
    <2> QED BY <1>1, <2>4, <2>5, <2>6 DEF StepRequest, a, q
  <1> HIDE DEF y, r
  <1>5. PICK busy \in BOOLEAN, status \in {"WAITING", "ERROR"} :
          /\ txn' = [txn EXCEPT ![t] = y(busy, status)]
          /\ x.conn = 0 => ~busy /\ sent' = sent
          /\ x.conn # 0 => busy /\ sent' = Append(sent, r)
    <2>1. CASE x.conn = 0
      BY <1>2, <2>1
    <2>2. CASE x.conn # 0
      BY <1>2, <2>2
    <2> QED BY <2>1, <2>2
  <1> DEFINE z == y(busy, status)
  <1>6. z \in Runtime /\ RuntimeFits(z, t) /\ z.conn = x.conn /\ z.made = x.made
        /\ z.installed = x.installed /\ z.busy = busy /\ (Own(x) => Own(z))
    BY <1>3
  <1>7. txn' = [txn EXCEPT ![t] = z]
    BY <1>5
  <1> HIDE DEF z, x
  <1>8. txn' \in [Txn -> Runtime] /\ \A u \in Txn : RuntimeFits(txn'[u], u)
    BY <1>6, <1>7, OneTxn
  <1>9. \A u \in Txn : txn'[u] = IF u = t THEN z ELSE txn[u]
    BY <1>1, <1>7
  <1>10. sent' \in Seq(Request)
    BY <1>1, <1>4, <1>5 DEF Request
  <1>13. load.scenario # NoScenario
    BY <1>1, <1>2, Loaded DEF Ready, Runtime, x
  <1>11. TypesInv'
    BY <1>2, <1>8, <1>10, <1>13
    DEF TypesInv, StepperTypeOK, EngineTypes, BoundTypes, DbTypes, ScriptsFit, BeforeLoad
  <1>12. \/ txn[t].conn = 0 /\ sent' = sent /\ ~txn'[t].busy
         \/ /\ txn[t].conn # 0 /\ txn'[t].busy
            /\ \E s \in StepRequest : /\ sent' = Append(sent, s) /\ s.conn = Conn(t) /\ s.txn = t
                                     /\ s.gen = generation /\ s.installed = txn[t].installed
    <2>1. CASE x.conn = 0
      BY <1>5, <1>6, <1>9, <2>1 DEF x
    <2>2. CASE x.conn # 0
      BY <1>4, <1>5, <1>6, <1>9, <2>2 DEF x
    <2> QED BY <2>1, <2>2
  <1> QED BY <1>2, <1>6, <1>9, <1>11, <1>12 DEF x

LEMMA KillIs ==
  ASSUME TypesInv, NEW t \in Txn, Kill(t)
  PROVE  /\ TypesInv' /\ UNCHANGED <<txn, generation, load, loads, alive, inTx, owner>>
         /\ \E s \in KillRequest : sent' = Append(sent, s) /\ s.target = Conn(t) /\ s.txn = t
  <1> DEFINE a == Conn(t)
             r == [conn |-> Admin, kind |-> "kill", txn |-> t, target |-> a]
  <1>1. a \in Connection
    BY ConnType DEF TypesInv, StepperTypeOK, EngineTypes
  <1>2. sent' = Append(sent, r) /\ kills' = kills + 1
        /\ UNCHANGED <<txn, generation, load, loads, alive, inTx, owner>>
    BY DEF Kill, engineVars, dbVars
  <1> HIDE DEF a
  <1>3. r \in KillRequest /\ r.target = a /\ r.txn = t
    BY <1>1 DEF KillRequest
  <1> HIDE DEF r
  <1>4. sent' \in Seq(Request)
    BY <1>2, <1>3 DEF TypesInv, StepperTypeOK, Request
  <1>5. load.scenario # NoScenario
    BY Loaded DEF Kill
  <1>6. TypesInv'
    BY <1>2, <1>4, <1>5
    DEF TypesInv, StepperTypeOK, EngineTypes, BoundTypes, DbTypes, ScriptsFit, BeforeLoad
  <1> QED BY <1>2, <1>3, <1>6 DEF a

LEMMA KillDoneIs ==
  ASSUME TypesInv, KillDone
  PROVE  /\ TypesInv' /\ UNCHANGED <<generation, load, loads, kills, owner>>
         /\ \E i \in DOMAIN sent :
              /\ sent[i] \in KillRequest /\ sent' = RemoveAt(sent, i)
              /\ alive' = alive \ {sent[i].target} /\ inTx' = inTx \ {sent[i].target}
              /\ \A u \in Txn : /\ txn'[u].made = txn[u].made
                                /\ txn'[u].installed = txn[u].installed
                                /\ txn'[u].busy = txn[u].busy
                                /\ Own(txn[u]) => Own(txn'[u])
                                /\ txn'[u].conn = IF u = sent[i].txn /\ sent[i].target \in alive
                                                  THEN 0 ELSE txn[u].conn
  <1>1. PICK i \in DOMAIN sent :
          /\ sent[i].kind = "kill" /\ sent' = RemoveAt(sent, i)
          /\ alive' = alive \ {sent[i].target} /\ inTx' = inTx \ {sent[i].target}
          /\ IF sent[i].target \in alive
             THEN txn' = [txn EXCEPT ![sent[i].txn] = KilledBy(txn[sent[i].txn])] ELSE txn' = txn
          /\ UNCHANGED <<generation, load, loads, kills, owner>>
    BY DEF KillDone, KilledBy, boundVars
  <1>2. sent[i] \in KillRequest /\ sent' \in Seq(Request)
    BY <1>1, RequestKinds, Removed DEF TypesInv, StepperTypeOK
  <1> DEFINE t == sent[i].txn  x == txn[t]  z == KilledBy(x)
  <1>3. t \in Txn /\ txn \in [Txn -> Runtime] /\ (\A u \in Txn : RuntimeFits(txn[u], u))
        /\ x \in Runtime /\ RuntimeFits(x, t)
    BY <1>2 DEF KillRequest, TypesInv, StepperTypeOK, EngineTypes, ScriptsFit
  <1> HIDE DEF t, x
  <1>4. /\ z \in Runtime /\ RuntimeFits(z, t) /\ z.conn = 0 /\ z.made = x.made
        /\ z.installed = x.installed /\ z.busy = x.busy /\ (Own(x) => Own(z))
    BY <1>3, KilledByIs
  <1> HIDE DEF z
  <1>5. IF sent[i].target \in alive THEN txn' = [txn EXCEPT ![t] = z] ELSE txn' = txn
    BY <1>1 DEF t, x, z
  <1>6. txn' \in [Txn -> Runtime] /\ \A u \in Txn : RuntimeFits(txn'[u], u)
    <2>1. CASE txn' = [txn EXCEPT ![t] = z]
      BY <1>3, <1>4, <2>1, OneTxn
    <2> QED BY <1>3, <1>5, <2>1
  <1>10. load.scenario # NoScenario
    BY Loaded
  <1>7. TypesInv'
    BY <1>1, <1>2, <1>6, <1>10
    DEF TypesInv, StepperTypeOK, EngineTypes, BoundTypes, DbTypes, ScriptsFit, BeforeLoad
  <1>8. \A u \in Txn : txn'[u] = IF u = t /\ sent[i].target \in alive THEN z ELSE txn[u]
    BY <1>3, <1>5
  <1>9. \A u \in Txn : /\ txn'[u].made = txn[u].made
                       /\ txn'[u].installed = txn[u].installed
                       /\ txn'[u].busy = txn[u].busy
                       /\ Own(txn[u]) => Own(txn'[u])
                       /\ txn'[u].conn = IF u = t /\ sent[i].target \in alive THEN 0 ELSE txn[u].conn
    BY <1>4, <1>8 DEF x
  <1> QED BY <1>1, <1>2, <1>7, <1>9 DEF t

LEMMA LoadIs ==
  ASSUME load \in Load, NEW at \in Stages, NEW t \in Txn
  PROVE  /\ [load EXCEPT !.at = at] \in Load /\ [load EXCEPT !.at = at, !.txn = t] \in Load
         /\ [load EXCEPT !.at = at].at = at /\ [load EXCEPT !.at = at].txn = load.txn
         /\ [load EXCEPT !.at = at].scenario = load.scenario
         /\ [load EXCEPT !.at = at, !.txn = t].at = at /\ [load EXCEPT !.at = at, !.txn = t].txn = t
         /\ [load EXCEPT !.at = at, !.txn = t].scenario = load.scenario
  BY DEF Load

LEMMA ReturnsIs ==
  ASSUME load \in Load, LoadReturns
  PROVE  load' \in Load /\ load'.at = "idle" /\ load'.txn = "T1" /\ load'.scenario = load.scenario
  <1> DEFINE a == "idle"  t == "T1"
  <1>1. a \in Stages /\ t \in Txn /\ load' = [load EXCEPT !.at = a, !.txn = t]
    BY DEF LoadReturns, Stages, Txn
  <1> HIDE DEF a, t
  <1>2. load' \in Load /\ load'.at = a /\ load'.txn = t /\ load'.scenario = load.scenario
    BY <1>1, LoadIs
  <1> QED BY <1>2 DEF a, t

LEMMA EndNextIs ==
  ASSUME load \in Load, NEW t \in Txn, EndNext(t)
  PROVE  /\ load' \in Load /\ load'.scenario = load.scenario
         /\ IF t = "T1" THEN load'.at = "end" /\ load'.txn = "T2"
            ELSE load'.at = "reconnect" /\ load'.txn = load.txn
  <1> DEFINE a == "end"  b == "reconnect"  u == "T2"
  <1>1. /\ a \in Stages /\ b \in Stages /\ u \in Txn
        /\ load' = IF t = "T1" THEN [load EXCEPT !.at = a, !.txn = u] ELSE [load EXCEPT !.at = b]
    BY DEF EndNext, Stages, Txn
  <1> HIDE DEF a, b, u
  <1>2. /\ load' \in Load /\ load'.scenario = load.scenario
        /\ IF t = "T1" THEN load'.at = a /\ load'.txn = u ELSE load'.at = b /\ load'.txn = load.txn
    BY <1>1, LoadIs
  <1> QED BY <1>2 DEF a, b, u

LEMMA AtIs ==
  ASSUME load \in Load, NEW at \in Stages, load' = [load EXCEPT !.at = at]
  PROVE  load' \in Load /\ load'.at = at /\ load'.txn = load.txn /\ load'.scenario = load.scenario
  BY LoadIs DEF Load

LEMMA MoveIs ==
  ASSUME load \in Load, NEW at \in Stages, NEW t \in Txn, load' = [load EXCEPT !.at = at, !.txn = t]
  PROVE  load' \in Load /\ load'.at = at /\ load'.txn = t /\ load'.scenario = load.scenario
  BY LoadIs DEF Load

LEMMA LoadStartIs ==
  ASSUME TypesInv, NEW s \in Loadable, LoadStart(s)
  PROVE  /\ TypesInv' /\ UNCHANGED <<txn, generation, kills, sent, alive, inTx, owner>>
         /\ load.at = "idle" /\ load'.at = "connect" /\ load'.txn = "T1"
  <1>1. s \in Scenario /\ s # NoScenario
    BY StepperAssumption DEF Scenario, Script, NoScenario
  <1>2. /\ UNCHANGED <<txn, generation, kills, sent, alive, inTx, owner>> /\ loads' = loads + 1
        /\ load.at = "idle" /\ load' = [at |-> "connect", txn |-> "T1", scenario |-> s]
    BY DEF LoadStart, dbVars
  <1>3. load' \in Load /\ load'.scenario # NoScenario
    BY <1>1, <1>2 DEF Load, Stages, Txn
  <1>4. TypesInv'
    BY <1>2, <1>3 DEF TypesInv, StepperTypeOK, EngineTypes, BoundTypes, DbTypes, ScriptsFit, BeforeLoad
  <1> QED BY <1>2, <1>4

(* What ensureConnections does: a new incarnation where there is none. *)
LEMMA ConnectIs ==
  ASSUME TypesInv, Connect
  PROVE  /\ txn' \in [Txn -> Runtime] /\ (\A u \in Txn : RuntimeFits(txn'[u], u)) /\ DbTypes'
         /\ inTx' = inTx /\ owner' = owner
         /\ \A u \in Txn : /\ txn'[u].conn = IF txn[u].conn = 0 THEN txn[u].made + 1 ELSE txn[u].conn
                           /\ txn'[u].made = IF txn[u].conn = 0 THEN txn[u].made + 1 ELSE txn[u].made
                           /\ txn'[u].installed = txn[u].installed
                           /\ txn'[u].busy = txn[u].busy
                           /\ Own(txn[u]) => Own(txn'[u])
         /\ \A u \in Txn, n \in Nat : <<u, n>> \in alive'
              <=> <<u, n>> \in alive \/ (txn[u].conn = 0 /\ n = txn[u].made + 1)
  <1> DEFINE y(u) == [txn[u] EXCEPT !.conn = txn[u].made + 1, !.made = txn[u].made + 1]
  <1>1. /\ txn' = [u \in Txn |-> IF u \in Missing THEN y(u) ELSE txn[u]]
        /\ alive' = alive \cup {<<u, txn[u].made + 1>> : u \in Missing}
        /\ inTx' = inTx /\ owner' = owner
    BY DEF Connect, Connected
  <1>2. \A u \in Txn : u \in Missing <=> txn[u].conn = 0
    BY DEF Missing
  <1>3. ASSUME NEW u \in Txn
        PROVE  /\ y(u) \in Runtime /\ RuntimeFits(y(u), u)
               /\ y(u).conn = txn[u].made + 1 /\ y(u).made = txn[u].made + 1
               /\ y(u).installed = txn[u].installed /\ y(u).busy = txn[u].busy
               /\ Own(txn[u]) => Own(y(u))
    <2> DEFINE x == txn[u]  n == x.made + 1
    <2>1. x \in Runtime /\ RuntimeFits(x, u) /\ n \in Nat
      BY DEF TypesInv, StepperTypeOK, EngineTypes, ScriptsFit, Runtime
    <2> HIDE DEF x, n
    <2> DEFINE z == [x EXCEPT !.conn = n, !.made = n]
    <2>2. z \in Runtime /\ z.conn = n /\ z.made = n /\ z.installed = x.installed
          /\ z.busy = x.busy /\ z.results = x.results /\ z.scenario = x.scenario
      BY <2>1 DEF Runtime
    <2>3. y(u) = z
      BY DEF x, n
    <2> HIDE DEF y, z
    <2>4. RuntimeFits(z, u) /\ (Own(x) => Own(z))
      BY <2>1, <2>2 DEF RuntimeFits, Own
    <2> QED BY <2>2, <2>3, <2>4 DEF x, n
  <1> HIDE DEF y
  <1>4. txn \in [Txn -> Runtime] /\ \A u \in Txn : RuntimeFits(txn[u], u)
    BY DEF TypesInv, StepperTypeOK, EngineTypes, ScriptsFit
  <1>5. \A u \in Txn : txn'[u] = IF txn[u].conn = 0 THEN y(u) ELSE txn[u]
    BY <1>1, <1>2
  <1>6. txn' \in [Txn -> Runtime] /\ \A u \in Txn : RuntimeFits(txn'[u], u)
    BY <1>1, <1>3, <1>4, <1>5
  <1>7. DbTypes'
    <2>1. \A u \in Missing : <<u, txn[u].made + 1>> \in Connection
      BY <1>4 DEF Missing, Runtime, Connection
    <2> QED BY <1>1, <2>1 DEF TypesInv, StepperTypeOK, DbTypes
  <1>8. \A u \in Txn : /\ txn'[u].conn = IF txn[u].conn = 0 THEN txn[u].made + 1 ELSE txn[u].conn
                       /\ txn'[u].made = IF txn[u].conn = 0 THEN txn[u].made + 1 ELSE txn[u].made
                       /\ txn'[u].installed = txn[u].installed
                       /\ txn'[u].busy = txn[u].busy
                       /\ Own(txn[u]) => Own(txn'[u])
    BY <1>3, <1>5
  <1>9. \A u \in Txn, n \in Nat : <<u, n>> \in alive'
          <=> <<u, n>> \in alive \/ (txn[u].conn = 0 /\ n = txn[u].made + 1)
    BY <1>1, <1>2 DEF Missing
  <1> QED BY <1>1, <1>6, <1>7, <1>8, <1>9

LEMMA LoadConnectIs ==
  ASSUME TypesInv, LoadConnect
  PROVE  /\ TypesInv' /\ Connect /\ UNCHANGED <<generation, loads, kills, sent>>
         /\ load.at = "connect" /\ load'.at = "end" /\ load'.txn = load.txn
  <1> DEFINE a == "end"
  <1>1. /\ Connect /\ UNCHANGED <<generation, loads, kills, sent>> /\ load.at = "connect"
        /\ load' = [load EXCEPT !.at = a] /\ a \in Stages /\ load \in Load
    BY DEF LoadConnect, boundVars, Stages, TypesInv, StepperTypeOK, EngineTypes
  <1> HIDE DEF a
  <1>2. load' \in Load /\ load'.at = a /\ load'.txn = load.txn /\ load'.scenario = load.scenario
    BY <1>1, AtIs
  <1>3. load.scenario # NoScenario
    BY <1>1, Loaded
  <1>4. TypesInv'
    BY <1>1, <1>2, <1>3, ConnectIs DEF TypesInv, StepperTypeOK, EngineTypes, BoundTypes, ScriptsFit, BeforeLoad
  <1> QED BY <1>1, <1>2, <1>4 DEF a

LEMMA LoadResetIs ==
  ASSUME TypesInv, LoadReset
  PROVE  /\ TypesInv' /\ Connect /\ UNCHANGED <<loads, kills>> /\ generation' = generation + 1
         /\ load.at = "reconnect" /\ load'.at = "reset"
         /\ \E s \in LoadRequests : sent' = Append(sent, s) /\ s.kind = "reset"
  <1> DEFINE a == "reset"  r == [conn |-> Admin, kind |-> a]
  <1>1. /\ Connect /\ UNCHANGED <<loads, kills>> /\ generation' = generation + 1
        /\ load.at = "reconnect" /\ load' = [load EXCEPT !.at = a] /\ sent' = Append(sent, r)
        /\ a \in Stages /\ a \in LoadKinds /\ load \in Load /\ sent \in Seq(Request) /\ generation \in Nat
    BY DEF LoadReset, LoadRequest, NextGeneration, boundVars, Stages, LoadKinds, TypesInv, StepperTypeOK,
           EngineTypes
  <1> HIDE DEF a
  <1>2. load' \in Load /\ load'.at = a /\ load'.txn = load.txn /\ load'.scenario = load.scenario
    BY <1>1, AtIs
  <1>3. load.scenario # NoScenario
    BY <1>1, Loaded
  <1>4. r \in LoadRequests /\ r.kind = a
    BY <1>1 DEF LoadRequests
  <1> HIDE DEF r
  <1>5. sent' \in Seq(Request)
    BY <1>1, <1>4 DEF Request
  <1>6. TypesInv'
    BY <1>1, <1>2, <1>3, <1>5, ConnectIs
    DEF TypesInv, StepperTypeOK, EngineTypes, BoundTypes, ScriptsFit, BeforeLoad
  <1> QED BY <1>1, <1>2, <1>4, <1>6 DEF a

LEMMA EndOpenIs ==
  ASSUME TypesInv, EndOpen
  PROVE  /\ TypesInv' /\ UNCHANGED <<txn, generation, loads, kills, alive, inTx, owner>>
         /\ load.at = "end" /\ load.txn \in Txn
         /\ \/ txn[load.txn].conn = 0
            \/ /\ load'.at = "ending" /\ load'.txn = load.txn
               /\ \E s \in LoadRequests :
                    /\ sent' = Append(sent, s)
                    /\ IF txn[load.txn].busy THEN s.kind = "loadKill"
                       ELSE s.kind = "rollback" /\ s.conn = Conn(load.txn)
  <1> DEFINE t == load.txn
  <1>1. /\ load \in Load /\ t \in Txn /\ sent \in Seq(Request) /\ load.scenario # NoScenario
        /\ UNCHANGED <<txn, generation, loads, kills, alive, inTx, owner>> /\ load.at = "end"
    BY Loaded DEF EndOpen, boundVars, dbVars, Load, TypesInv, StepperTypeOK, EngineTypes
  <1>2. CASE txn[t].conn = 0
    <2>1. EndNext(t) /\ sent' = sent
      BY <1>2 DEF EndOpen
    <2>2. load' \in Load /\ load'.scenario = load.scenario
      BY <1>1, <2>1, EndNextIs
    <2>3. TypesInv'
      BY <1>1, <2>1, <2>2 DEF TypesInv, StepperTypeOK, EngineTypes, BoundTypes, DbTypes, ScriptsFit, BeforeLoad
    <2> QED BY <1>1, <1>2, <2>3
  <1>3. CASE txn[t].conn # 0
    <2> DEFINE a == "ending"  k == IF txn[t].busy THEN "loadKill" ELSE "rollback"
               c == IF txn[t].busy THEN Admin ELSE Conn(t)  r == [conn |-> c, kind |-> k]
    <2>1. load' = [load EXCEPT !.at = a] /\ sent' = Append(sent, r)
      BY <1>3 DEF EndOpen, EndRequest, LoadRequest
    <2>2. a \in Stages /\ k \in LoadKinds /\ c \in Connection \cup {Admin}
          /\ (IF txn[t].busy THEN k = "loadKill" ELSE k = "rollback" /\ c = Conn(t))
      BY <1>1, ConnType DEF Stages, LoadKinds, TypesInv, StepperTypeOK, EngineTypes
    <2> HIDE DEF a, k, c
    <2>3. r \in LoadRequests /\ r.kind = k /\ r.conn = c
      BY <2>2 DEF LoadRequests
    <2> HIDE DEF r
    <2>4. sent' \in Seq(Request)
      BY <1>1, <2>1, <2>3 DEF Request
    <2>5. load' \in Load /\ load'.at = a /\ load'.txn = load.txn /\ load'.scenario = load.scenario
      BY <1>1, <2>1, <2>2, AtIs
    <2>6. TypesInv'
      BY <1>1, <2>4, <2>5 DEF TypesInv, StepperTypeOK, EngineTypes, BoundTypes, DbTypes, ScriptsFit, BeforeLoad
    <2> QED BY <1>1, <2>1, <2>2, <2>3, <2>5, <2>6 DEF a
  <1> QED BY <1>2, <1>3

LEMMA LoadRequestAt ==
  ASSUME TypesInv, NEW i \in DOMAIN sent, sent' = RemoveAt(sent, i), sent[i].kind \in LoadKinds
  PROVE  /\ sent[i] \in LoadRequests /\ sent' \in Seq(Request)
         /\ load \in Load /\ load.txn \in Txn /\ load.scenario # NoScenario
  BY RequestKinds, Removed, Loaded DEF TypesInv, StepperTypeOK, EngineTypes, Load

(* The KILL of load() returned; its transaction is ended, or a kill was    *)
(* quicker and load() fails.                                               *)
LEMMA KilledOpenIs ==
  ASSUME TypesInv, KilledOpen
  PROVE  /\ TypesInv' /\ UNCHANGED <<generation, loads, kills, owner>>
         /\ alive' = alive \ {Conn(load.txn)} /\ inTx' = inTx \ {Conn(load.txn)}
         /\ \E i \in DOMAIN sent :
              sent[i] \in LoadRequests /\ sent[i].kind = "loadKill" /\ sent' = RemoveAt(sent, i)
         /\ \A u \in Txn : /\ txn'[u].made = txn[u].made
                           /\ txn'[u].installed = txn[u].installed
                           /\ Own(txn[u]) => Own(txn'[u])
         /\ IF txn[load.txn].conn = 0 THEN txn' = txn /\ load'.at = "idle"
            ELSE /\ EndNext(load.txn)
                 /\ \A u \in Txn : /\ txn'[u].conn = IF u = load.txn THEN 0 ELSE txn[u].conn
                                   /\ txn'[u].busy = IF u = load.txn THEN FALSE ELSE txn[u].busy
  <1> DEFINE t == load.txn  x == txn[t]  z == Killed(x)
  <1>1. PICK i \in DOMAIN sent :
          /\ sent[i].kind = "loadKill" /\ sent' = RemoveAt(sent, i)
          /\ alive' = alive \ {Conn(t)} /\ inTx' = inTx \ {Conn(t)}
          /\ IF x.conn = 0 THEN LoadReturns /\ txn' = txn
             ELSE txn' = [txn EXCEPT ![t] = z] /\ EndNext(t)
          /\ UNCHANGED <<generation, loads, kills, owner>>
    BY DEF KilledOpen, boundVars
  <1>2. sent[i] \in LoadRequests /\ sent' \in Seq(Request)
        /\ load \in Load /\ t \in Txn /\ load.scenario # NoScenario
    BY <1>1, LoadRequestAt DEF LoadKinds
  <1>3. txn \in [Txn -> Runtime] /\ (\A u \in Txn : RuntimeFits(txn[u], u))
        /\ x \in Runtime /\ RuntimeFits(x, t)
    BY <1>2 DEF TypesInv, StepperTypeOK, EngineTypes, ScriptsFit
  <1> HIDE DEF x
  <1>4. /\ z \in Runtime /\ RuntimeFits(z, t) /\ z.conn = 0 /\ z.made = x.made
        /\ z.installed = x.installed /\ z.busy = FALSE /\ (Own(x) => Own(z))
    BY <1>2, <1>3, KilledIs
  <1> HIDE DEF z, t
  <1>5. txn' \in [Txn -> Runtime] /\ (\A u \in Txn : RuntimeFits(txn'[u], u))
    <2>1. CASE txn' = [txn EXCEPT ![t] = z]
      BY <1>2, <1>4, <2>1, OneTxn
    <2> QED BY <1>1, <1>3, <2>1
  <1>6. load' \in Load /\ load'.scenario # NoScenario
    BY <1>1, <1>2, ReturnsIs, EndNextIs
  <1>7. TypesInv'
    BY <1>1, <1>2, <1>5, <1>6
    DEF TypesInv, StepperTypeOK, EngineTypes, BoundTypes, DbTypes, ScriptsFit, BeforeLoad
  <1>8. \A u \in Txn : txn'[u] = IF u = t /\ x.conn # 0 THEN z ELSE txn[u]
    BY <1>1, <1>2, <1>3
  <1>9. \A u \in Txn : /\ txn'[u].made = txn[u].made
                       /\ txn'[u].installed = txn[u].installed
                       /\ Own(txn[u]) => Own(txn'[u])
    BY <1>4, <1>8 DEF x
  <1>10. IF txn[load.txn].conn = 0 THEN txn' = txn /\ load'.at = "idle"
         ELSE /\ EndNext(load.txn)
              /\ \A u \in Txn : /\ txn'[u].conn = IF u = load.txn THEN 0 ELSE txn[u].conn
                                /\ txn'[u].busy = IF u = load.txn THEN FALSE ELSE txn[u].busy
    <2>1. CASE x.conn = 0
      BY <1>1, <1>2, <2>1, ReturnsIs DEF x, t
    <2>2. CASE x.conn # 0
      BY <1>1, <1>4, <1>8, <2>2 DEF x, t
    <2> QED BY <2>1, <2>2
  <1> QED BY <1>1, <1>2, <1>7, <1>9, <1>10 DEF t

LEMMA RolledBackIs ==
  ASSUME TypesInv, RolledBack
  PROVE  /\ TypesInv' /\ UNCHANGED <<generation, loads, kills, alive>> /\ EndNext(load.txn)
         /\ \E i \in DOMAIN sent :
              /\ sent[i] \in LoadRequests /\ sent[i].kind = "rollback"
              /\ sent' = RemoveAt(sent, i) /\ inTx' = inTx \ {sent[i].conn}
         /\ \A u \in Txn : /\ txn'[u].conn = txn[u].conn /\ txn'[u].made = txn[u].made
                           /\ txn'[u].installed = txn[u].installed
                           /\ txn'[u].busy = IF u = load.txn THEN FALSE ELSE txn[u].busy
                           /\ Own(txn[u]) => Own(txn'[u])
  <1> DEFINE t == load.txn  x == txn[t]  f == FALSE  z == [x EXCEPT !.busy = f]
  <1>1. PICK i \in DOMAIN sent :
          /\ sent[i].kind = "rollback" /\ sent' = RemoveAt(sent, i) /\ inTx' = inTx \ {sent[i].conn}
          /\ owner' = IF sent[i].conn \in alive THEN Freed(sent[i].conn) ELSE owner
          /\ txn' = [txn EXCEPT ![t] = z] /\ EndNext(t)
          /\ UNCHANGED <<generation, loads, kills, alive>>
    BY DEF RolledBack, boundVars
  <1>2. sent[i] \in LoadRequests /\ sent' \in Seq(Request)
        /\ load \in Load /\ t \in Txn /\ load.scenario # NoScenario
    BY <1>1, LoadRequestAt DEF LoadKinds
  <1>3. txn \in [Txn -> Runtime] /\ x \in Runtime /\ RuntimeFits(x, t) /\ f \in BOOLEAN /\ f = FALSE
    BY <1>2 DEF TypesInv, StepperTypeOK, EngineTypes, ScriptsFit
  <1> HIDE DEF x, f
  <1>4. /\ z \in Runtime /\ z.conn = x.conn /\ z.made = x.made /\ z.results = x.results
        /\ z.installed = x.installed /\ z.busy = f /\ z.scenario = x.scenario
    BY <1>3 DEF Runtime
  <1> HIDE DEF z, t
  <1>5. RuntimeFits(z, t) /\ (Own(x) => Own(z))
    BY <1>3, <1>4 DEF RuntimeFits, Own
  <1>6. txn' \in [Txn -> Runtime] /\ (\A u \in Txn : RuntimeFits(txn'[u], u))
    BY <1>1, <1>2, <1>4, <1>5, OneTxn
  <1>7. load' \in Load /\ load'.scenario # NoScenario
    BY <1>1, <1>2, EndNextIs
  <1>8. DbTypes'
    BY <1>1, FreedType DEF TypesInv, StepperTypeOK, DbTypes
  <1>9. TypesInv'
    BY <1>1, <1>2, <1>6, <1>7, <1>8
    DEF TypesInv, StepperTypeOK, EngineTypes, BoundTypes, ScriptsFit, BeforeLoad
  <1>10. \A u \in Txn : txn'[u] = IF u = t THEN z ELSE txn[u]
    BY <1>1, <1>2, <1>3
  <1>11. \A u \in Txn : /\ txn'[u].conn = txn[u].conn /\ txn'[u].made = txn[u].made
                        /\ txn'[u].installed = txn[u].installed
                        /\ txn'[u].busy = IF u = t THEN FALSE ELSE txn[u].busy
                        /\ Own(txn[u]) => Own(txn'[u])
    BY <1>3, <1>4, <1>5, <1>10 DEF x
  <1> QED BY <1>1, <1>2, <1>9, <1>11 DEF t

LEMMA InstallIs ==
  ASSUME TypesInv, load.scenario # NoScenario, NEW t \in Txn, Install(t),
         NEW i \in DOMAIN sent, SendSet(t, i), UNCHANGED <<generation, boundVars, dbVars>>
  PROVE  /\ TypesInv' /\ load'.at \in {"idle", "set"}
         /\ \A u \in Txn : /\ txn'[u].conn = txn[u].conn /\ txn'[u].made = txn[u].made
                           /\ txn'[u].busy = txn[u].busy
                           /\ u # t => txn'[u].installed = txn[u].installed
                           /\ Own(txn[u]) => Own(txn'[u])
         /\ \/ load'.at = "idle" /\ sent' = RemoveAt(sent, i)
            \/ /\ load'.at = "set"
               /\ \E s \in LoadRequests : sent' = Append(RemoveAt(sent, i), s) /\ s.kind = "set"
  <1> DEFINE x == txn[t]  z == Fresh(x, t)  a == "set"  r == [conn |-> Conn(t), kind |-> a]
  <1>1. /\ load \in Load /\ loads \in Nat /\ txn \in [Txn -> Runtime] /\ x \in Runtime
        /\ sent \in Seq(Request) /\ a \in Stages /\ a \in LoadKinds /\ Conn(t) \in Connection
    BY ConnType DEF TypesInv, StepperTypeOK, EngineTypes, BoundTypes, Stages, LoadKinds
  <1>2. /\ txn' = [txn EXCEPT ![t] = z]
        /\ IF x.conn = 0 THEN LoadReturns ELSE load' = [load EXCEPT !.at = a, !.txn = t]
        /\ sent' = IF x.conn = 0 THEN RemoveAt(sent, i) ELSE Append(RemoveAt(sent, i), r)
    BY DEF Install, SendSet
  <1>3. RemoveAt(sent, i) \in Seq(Request)
    BY <1>1, Removed
  <1>4. UNCHANGED <<generation, loads, kills, alive, inTx, owner>>
    BY DEF boundVars, dbVars
  <1> HIDE DEF x, a
  <1>5. /\ z \in Runtime /\ RuntimeFits(z, t) /\ Own(z)
        /\ z.conn = x.conn /\ z.made = x.made /\ z.busy = x.busy
    BY <1>1, FreshIs
  <1>6. r \in LoadRequests /\ r.kind = a
    BY <1>1 DEF LoadRequests
  <1> HIDE DEF z, r
  <1>7. txn' \in [Txn -> Runtime] /\ (\A u \in Txn : RuntimeFits(txn'[u], u))
    BY <1>2, <1>5, OneTxn
  <1>8. \A u \in Txn : txn'[u] = IF u = t THEN z ELSE txn[u]
    BY <1>1, <1>2
  <1>9. load' \in Load /\ load'.scenario # NoScenario
        /\ load'.at = IF x.conn = 0 THEN "idle" ELSE a
    <2>1. CASE x.conn = 0
      BY <1>1, <1>2, <2>1, ReturnsIs
    <2>2. CASE x.conn # 0
      <3>1. load' = [load EXCEPT !.at = a, !.txn = t]
        BY <1>2, <2>2
      <3>2. load' \in Load /\ load'.at = a /\ load'.scenario = load.scenario
        BY <1>1, <3>1, MoveIs
      <3> QED BY <2>2, <3>2
    <2> QED BY <2>1, <2>2
  <1>10. sent' \in Seq(Request)
    BY <1>2, <1>3, <1>6 DEF Request
  <1>11. TypesInv'
    BY <1>4, <1>7, <1>9, <1>10
    DEF TypesInv, StepperTypeOK, EngineTypes, BoundTypes, DbTypes, ScriptsFit, BeforeLoad
  <1>12. \A u \in Txn : /\ txn'[u].conn = txn[u].conn /\ txn'[u].made = txn[u].made
                        /\ txn'[u].busy = txn[u].busy
                        /\ u # t => txn'[u].installed = txn[u].installed
                        /\ Own(txn[u]) => Own(txn'[u])
    BY <1>5, <1>8 DEF x
  <1>13. \/ load'.at = "idle" /\ sent' = RemoveAt(sent, i)
         \/ /\ load'.at = "set"
            /\ \E s \in LoadRequests : sent' = Append(RemoveAt(sent, i), s) /\ s.kind = "set"
    <2>1. a = "set"
      BY DEF a
    <2> QED BY <1>2, <1>6, <1>9, <2>1
  <1> QED BY <1>9, <1>11, <1>12, <1>13

(* load() goes on after its reset or its SET, or it returns. *)
LEMMA InstallStepIs ==
  ASSUME TypesInv, ResetDone \/ ResetTimeout \/ SetDone
  PROVE  /\ TypesInv' /\ load'.at \in {"idle", "set"}
         /\ UNCHANGED <<generation, loads, kills, alive, inTx, owner>>
         /\ \A u \in Txn : /\ txn'[u].conn = txn[u].conn /\ txn'[u].made = txn[u].made
                           /\ txn'[u].busy = txn[u].busy
                           /\ Own(txn[u]) => Own(txn'[u])
         /\ \E i \in DOMAIN sent :
              /\ sent[i] \in LoadRequests /\ sent[i].kind \in {"reset", "set"}
              /\ load'.at = "set" /\ sent[i].kind = "reset" => \A r \in Row : owner[r] = Nobody
              /\ \/ load'.at = "idle" /\ sent' = RemoveAt(sent, i)
                 \/ /\ load'.at = "set"
                    /\ \E s \in LoadRequests : sent' = Append(RemoveAt(sent, i), s) /\ s.kind = "set"
  <1> USE DEF LoadKinds
  <1>0. UNCHANGED <<generation, loads, kills, alive, inTx, owner>>
    BY DEF ResetDone, ResetTimeout, SetDone, boundVars, dbVars
  <1>1. CASE ResetDone
    <2>1. PICK i \in DOMAIN sent : /\ sent[i].kind = "reset" /\ \A r \in Row : owner[r] = Nobody
                                  /\ Install("T1") /\ SendSet("T1", i)
                                  /\ UNCHANGED <<generation, boundVars, dbVars>>
      BY <1>1 DEF ResetDone
    <2>2. sent[i] \in LoadRequests /\ load.scenario # NoScenario
      BY <2>1, Loaded, RequestKinds DEF TypesInv, StepperTypeOK
    <2>3. "T1" \in Txn
      BY DEF Txn
    <2> QED BY <1>0, <2>1, <2>2, <2>3, InstallIs
  <1>2. ASSUME LoadReturns, UNCHANGED <<txn, generation, boundVars, dbVars>>,
               NEW i \in DOMAIN sent, sent[i].kind \in {"reset", "set"}, sent' = RemoveAt(sent, i)
        PROVE  /\ TypesInv' /\ load'.at = "idle" /\ txn' = txn
               /\ sent[i] \in LoadRequests
    <2>1. sent[i] \in LoadRequests /\ sent' \in Seq(Request)
          /\ load \in Load /\ load.scenario # NoScenario
      BY <1>2, LoadRequestAt
    <2> QED
      BY <1>2, <2>1, ReturnsIs
      DEF TypesInv, StepperTypeOK, EngineTypes, BoundTypes, DbTypes, ScriptsFit, BeforeLoad,
          boundVars, dbVars
  <1>3. CASE ResetTimeout
    <2>1. PICK i \in DOMAIN sent : /\ sent[i].kind = "reset" /\ LoadReturns /\ sent' = RemoveAt(sent, i)
                                  /\ UNCHANGED <<txn, generation, boundVars, dbVars>>
      BY <1>3 DEF ResetTimeout
    <2> QED BY <1>0, <1>2, <2>1
  <1>4. CASE SetDone
    <2>1. PICK i \in DOMAIN sent :
            /\ sent[i].kind = "set" /\ UNCHANGED <<generation, boundVars, dbVars>>
            /\ \/ Install("T2") /\ SendSet("T2", i)
               \/ LoadReturns /\ UNCHANGED txn /\ sent' = RemoveAt(sent, i)
      BY <1>4 DEF SetDone
    <2>2. sent[i] \in LoadRequests /\ load.scenario # NoScenario
      BY <2>1, Loaded, RequestKinds DEF TypesInv, StepperTypeOK
    <2>3. CASE Install("T2") /\ SendSet("T2", i)
      <3>1. "T2" \in Txn
        BY DEF Txn
      <3> QED BY <1>0, <2>1, <2>2, <2>3, <3>1, InstallIs
    <2>4. CASE LoadReturns /\ UNCHANGED txn /\ sent' = RemoveAt(sent, i)
      <3>1. /\ TypesInv' /\ load'.at = "idle" /\ txn' = txn
        BY <1>2, <2>1, <2>4
      <3> QED BY <1>0, <2>1, <2>2, <2>4, <3>1
    <2> QED BY <2>1, <2>3, <2>4
  <1> QED BY <1>1, <1>3, <1>4

LEMMA UndoTypes ==
  ASSUME TypesInv, Undo
  PROVE  /\ TypesInv' /\ UNCHANGED <<txn, generation, load, loads, kills, sent, alive, inTx>>
         /\ \A r \in Row : owner'[r] \in {owner[r], Nobody}
  <1>1. PICK c : owner' = Freed(c)
    BY DEF Undo
  <1>2. UNCHANGED <<txn, generation, load, loads, kills, sent, alive, inTx>>
    BY DEF Undo, engineVars, boundVars
  <1>3. DbTypes'
    BY <1>1, <1>2, FreedType DEF TypesInv, StepperTypeOK, DbTypes
  <1>4. TypesInv'
    BY <1>2, <1>3 DEF TypesInv, StepperTypeOK, EngineTypes, BoundTypes, ScriptsFit, BeforeLoad
  <1> QED BY <1>1, <1>2, <1>4 DEF Freed

LEMMA NextStepperTypes == TypesInv /\ [Next]_vars => TypesInv'
  <1> SUFFICES ASSUME TypesInv, [Next]_vars PROVE TypesInv'
    OBVIOUS
  <1>1. CASE UNCHANGED vars
    BY <1>1
    DEF vars, engineVars, boundVars, dbVars, TypesInv, StepperTypeOK, EngineTypes, BoundTypes, DbTypes,
        ScriptsFit, BeforeLoad
  <1>2. CASE StatementDone \/ StatementFailed
    <2>1. PICK i \in DOMAIN sent, status \in {"DONE", "ERROR"} :
            (Execute(i) \/ Refuse(i) \/ Victim(i)) /\ Settle(i, status)
      BY <1>2 DEF StatementDone, StatementFailed
    <2> QED BY <2>1, StatementTypes
  <1> QED
    BY <1>1, <1>2, StepIs, KillIs, LoadStartIs, LoadConnectIs, EndOpenIs, LoadResetIs, KillDoneIs,
       KilledOpenIs, RolledBackIs, InstallStepIs, UndoTypes
    DEF Next, Respond

(* Whoever uses the stepper, one tab or many clients: the results fit the  *)
(* script that is there, statements are taken from it, and before the      *)
(* first load nothing is sent.                                             *)
THEOREM StepperTypes == Spec => []TypesInv
  BY InitTypes, NextStepperTypes, PTL DEF Spec
-----------------------------------------------------------------------------
(* One browser tab. *)
OneTab == ~Overlap

(* At which await of load() its requests are under way. *)
LoadAt(kind) == IF kind \in {"loadKill", "rollback"} THEN "ending" ELSE kind

(* A request against the engine's transactions x, its generation g, the    *)
(* load l and the connections a: a statement that MySQL can still execute  *)
(* is of this generation and its transaction waits for it; one that would  *)
(* still be written into the results is of the script that is there.       *)
StepFits(s, x, g, l, a) ==
  /\ s.conn[1] = s.txn /\ s.conn[2] <= x[s.txn].made
  /\ s.gen <= g
  /\ s.gen = g => /\ l.at \notin {"reset", "set"}
                  /\ s.installed = x[s.txn].installed
                  /\ l.at \in {"idle", "connect"} => x[s.txn].busy
  /\ s.conn \in a => s.gen = g /\ x[s.txn].busy

RequestFits(s, x, g, l, a) ==
  /\ s.kind = "step" => StepFits(s, x, g, l, a)
  /\ s.kind = "kill" => l.at = "idle" /\ s.target[1] = s.txn
  /\ s.kind \in LoadKinds => l.at = LoadAt(s.kind)
  /\ s.kind = "rollback" => ~x[l.txn].busy /\ s.conn = <<l.txn, x[l.txn].conn>>

(* A transaction has one statement per generation under way, load() one    *)
(* request.                                                                *)
Apart(r, s) ==
  /\ ~(r.kind = "step" /\ s.kind = "step" /\ r.txn = s.txn /\ r.gen = s.gen)
  /\ ~(r.kind \in LoadKinds /\ s.kind \in LoadKinds)

AllFit(q, x, g, l, a) == \A i \in DOMAIN q : RequestFits(q[i], x, g, l, a)
AllApart(q) == \A i, j \in DOMAIN q : i # j => Apart(q[i], q[j])

SentInv == AllApart(sent) /\ AllFit(sent, txn, generation, load, alive)

ConnInv ==
  /\ \A t \in Txn, n \in Nat : <<t, n>> \in alive <=> n = txn[t].conn /\ n # 0
  /\ \A t \in Txn : txn[t].conn <= txn[t].made
  /\ inTx \subseteq alive

(* What load() has ended so far. *)
EndInv ==
  /\ load.at = "connect" => load.txn = "T1"
  /\ load.at \in {"end", "ending"} =>
       /\ txn["T2"].conn # 0 /\ (load.txn = "T1" => txn["T1"].conn # 0)
       /\ load.txn = "T2" => ~txn["T1"].busy /\ Conn("T1") \notin inTx
  /\ load.at \in {"reconnect", "reset", "set"} =>
       inTx = {} /\ \A t \in Txn : ~txn[t].busy
  /\ load.at = "set" => \A r \in Row : owner[r] = Nobody

(* A transaction that is busy waits for a statement of this generation.    *)
Awaited(q, t, g) == \E i \in DOMAIN q : q[i].kind = "step" /\ q[i].txn = t /\ q[i].gen = g
BusyAwaits == \A t \in Txn : txn[t].busy => Awaited(sent, t, generation)

TabInv == TypesInv /\ SentInv /\ ConnInv /\ EndInv /\ BusyAwaits /\ FencedResults
-----------------------------------------------------------------------------
(* What is under way after a request was answered or sent. *)

LEMMA RemovedFrom ==
  ASSUME NEW q \in Seq(Request), NEW i \in DOMAIN q
  PROVE  /\ \A j \in DOMAIN RemoveAt(q, i) : \E k \in DOMAIN q \ {i} : RemoveAt(q, i)[j] = q[k]
         /\ \A k \in DOMAIN q \ {i} : \E j \in DOMAIN RemoveAt(q, i) : RemoveAt(q, i)[j] = q[k]
  <1> DEFINE r == RemoveAt(q, i)
  <1>1. /\ r \in Seq(Request) /\ Len(r) = Len(q) - 1
        /\ \A j \in 1 .. Len(q) - 1 : r[j] = IF j < i THEN q[j] ELSE q[j + 1]
    BY Removed
  <1> HIDE DEF r
  <1>2. DOMAIN r = 1 .. Len(q) - 1 /\ DOMAIN q = 1 .. Len(q) /\ Len(q) \in Nat /\ i \in 1 .. Len(q)
    BY <1>1
  <1>3. ASSUME NEW j \in DOMAIN r PROVE \E k \in DOMAIN q \ {i} : r[j] = q[k]
    <2>1. CASE j < i
      <3>1. j \in DOMAIN q \ {i} /\ r[j] = q[j]
        BY <1>1, <1>2, <2>1
      <3> QED BY <3>1
    <2>2. CASE j >= i
      <3>1. j + 1 \in DOMAIN q \ {i} /\ r[j] = q[j + 1]
        BY <1>1, <1>2, <2>2
      <3> QED BY <3>1
    <2> QED BY <1>2, <2>1, <2>2
  <1>4. ASSUME NEW k \in DOMAIN q \ {i} PROVE \E j \in DOMAIN r : r[j] = q[k]
    <2>1. CASE k < i
      BY <1>1, <1>2, <2>1
    <2>2. CASE k > i
      <3>1. k - 1 \in DOMAIN r /\ r[k - 1] = q[k]
        BY <1>1, <1>2, <2>2
      <3> QED BY <3>1
    <2> QED BY <1>2, <2>1, <2>2
  <1> QED BY <1>3, <1>4 DEF r

LEMMA RemovedApart ==
  ASSUME NEW q \in Seq(Request), NEW i \in DOMAIN q, AllApart(q)
  PROVE  AllApart(RemoveAt(q, i)) /\ \A j \in DOMAIN RemoveAt(q, i) : Apart(RemoveAt(q, i)[j], q[i])
  <1> DEFINE r == RemoveAt(q, i)
             to(j) == IF j < i THEN j ELSE j + 1
  <1>1. /\ r \in Seq(Request) /\ Len(r) = Len(q) - 1
        /\ \A j \in 1 .. Len(q) - 1 : r[j] = IF j < i THEN q[j] ELSE q[j + 1]
    BY Removed
  <1> HIDE DEF r
  <1>2. \A j \in DOMAIN r : to(j) \in DOMAIN q \ {i} /\ r[j] = q[to(j)]
    BY <1>1
  <1>3. \A j, k \in DOMAIN r : j # k => to(j) # to(k)
    BY <1>1
  <1> HIDE DEF to
  <1> QED BY <1>2, <1>3 DEF AllApart, r

LEMMA ApartSym == ASSUME NEW r, NEW s, Apart(r, s) PROVE Apart(s, r)
  BY DEF Apart

LEMMA SentApart ==
  ASSUME NEW q \in Seq(Request), NEW e \in Request, AllApart(q), \A i \in DOMAIN q : Apart(q[i], e)
  PROVE  AllApart(Append(q, e))
  <1> DEFINE r == Append(q, e)
  <1>1. /\ r \in Seq(Request) /\ Len(r) = Len(q) + 1 /\ r[Len(q) + 1] = e
        /\ \A j \in 1 .. Len(q) : r[j] = q[j]
    BY Sent
  <1> HIDE DEF r
  <1>2. SUFFICES ASSUME NEW j \in DOMAIN r, NEW k \in DOMAIN r, j # k PROVE Apart(r[j], r[k])
    BY DEF AllApart, r
  <1>3. DOMAIN r = 1 .. Len(q) + 1 /\ DOMAIN q = 1 .. Len(q) /\ Len(q) \in Nat
    BY <1>1
  <1>4. CASE j \in DOMAIN q /\ k \in DOMAIN q
    BY <1>1, <1>2, <1>3, <1>4 DEF AllApart
  <1>5. CASE j \in DOMAIN q /\ k = Len(q) + 1
    BY <1>1, <1>3, <1>5
  <1>6. CASE j = Len(q) + 1 /\ k \in DOMAIN q
    BY <1>1, <1>3, <1>6, ApartSym
  <1> QED BY <1>2, <1>3, <1>4, <1>5, <1>6

LEMMA AnsweredFit ==
  ASSUME NEW q \in Seq(Request), NEW i \in DOMAIN q,
         NEW x, NEW g, NEW l, NEW a, NEW y, NEW h, NEW m, NEW b,
         AllApart(q), AllFit(q, x, g, l, a),
         \A s \in Request : RequestFits(s, x, g, l, a) /\ Apart(s, q[i]) => RequestFits(s, y, h, m, b)
  PROVE  AllApart(RemoveAt(q, i)) /\ AllFit(RemoveAt(q, i), y, h, m, b)
  <1> DEFINE r == RemoveAt(q, i)
  <1>1. AllApart(r) /\ \A j \in DOMAIN r : Apart(r[j], q[i])
    BY RemovedApart
  <1>2. \A j \in DOMAIN r : \E k \in DOMAIN q : r[j] = q[k]
    BY RemovedFrom
  <1> HIDE DEF r
  <1>3. \A j \in DOMAIN r : r[j] \in Request /\ RequestFits(r[j], x, g, l, a)
    BY <1>2 DEF AllFit
  <1>4. AllFit(r, y, h, m, b)
    BY <1>1, <1>3 DEF AllFit
  <1> QED BY <1>1, <1>4 DEF r

LEMMA SentFit ==
  ASSUME NEW q \in Seq(Request), NEW e \in Request,
         NEW x, NEW g, NEW l, NEW a, NEW y, NEW h, NEW m, NEW b,
         AllApart(q), AllFit(q, x, g, l, a), \A i \in DOMAIN q : Apart(q[i], e),
         RequestFits(e, y, h, m, b),
         \A s \in Request : RequestFits(s, x, g, l, a) => RequestFits(s, y, h, m, b)
  PROVE  AllApart(Append(q, e)) /\ AllFit(Append(q, e), y, h, m, b)
  <1> DEFINE r == Append(q, e)
  <1>1. AllApart(r)
    BY SentApart
  <1>2. \A j \in DOMAIN r : r[j] = e \/ \E k \in DOMAIN q : r[j] = q[k]
    BY Sent
  <1> HIDE DEF r
  <1>3. \A k \in DOMAIN q : q[k] \in Request /\ RequestFits(q[k], y, h, m, b)
    BY DEF AllFit
  <1>4. AllFit(r, y, h, m, b)
    BY <1>2, <1>3 DEF AllFit
  <1> QED BY <1>1, <1>4 DEF r

LEMMA StillAwaited ==
  ASSUME NEW q \in Seq(Request), NEW t, NEW g, Awaited(q, t, g)
  PROVE  /\ \A e \in Request : Awaited(Append(q, e), t, g)
         /\ \A i \in DOMAIN q : ~(q[i].kind = "step" /\ q[i].txn = t /\ q[i].gen = g)
                                => Awaited(RemoveAt(q, i), t, g)
  <1>1. PICK k \in DOMAIN q : q[k].kind = "step" /\ q[k].txn = t /\ q[k].gen = g
    BY DEF Awaited
  <1>2. ASSUME NEW e \in Request PROVE Awaited(Append(q, e), t, g)
    <2>1. k \in DOMAIN Append(q, e) /\ Append(q, e)[k] = q[k]
      BY Sent
    <2> QED BY <1>1, <2>1 DEF Awaited
  <1>3. ASSUME NEW i \in DOMAIN q, ~(q[i].kind = "step" /\ q[i].txn = t /\ q[i].gen = g)
        PROVE  Awaited(RemoveAt(q, i), t, g)
    <2>1. k \in DOMAIN q \ {i}
      BY <1>1, <1>3
    <2>2. PICK j \in DOMAIN RemoveAt(q, i) : RemoveAt(q, i)[j] = q[k]
      BY <2>1, RemovedFrom
    <2> QED BY <1>1, <2>2 DEF Awaited
  <1> QED BY <1>2, <1>3
-----------------------------------------------------------------------------
(* The steps of one tab. *)

LEMMA InvTypes ==
  ASSUME TabInv
  PROVE  /\ sent \in Seq(Request) /\ generation \in Nat /\ load \in Load
         /\ \A t \in Txn : /\ txn[t].conn \in Nat /\ txn[t].made \in Nat
                           /\ txn[t].installed \in Nat /\ txn[t].busy \in BOOLEAN
         /\ alive \subseteq Connection /\ inTx \subseteq alive
         /\ AllApart(sent) /\ AllFit(sent, txn, generation, load, alive)
  BY DEF TabInv, TypesInv, StepperTypeOK, EngineTypes, DbTypes, Runtime, SentInv, ConnInv

LEMMA FencedIs == FencedResults <=> \A t \in Txn : Own(txn[t])
  BY DEF FencedResults, Own

LEMMA InitTab == Init => TabInv
  <1> SUFFICES ASSUME Init PROVE TabInv
    OBVIOUS
  <1>1. TypesInv
    BY InitTypes
  <1>2. SentInv /\ EndInv
    BY DEF Init, SentInv, AllApart, AllFit, EndInv
  <1>3. ConnInv /\ BusyAwaits /\ FencedResults
    BY DEF Init, Unloaded, ConnInv, BusyAwaits, FencedResults
  <1> QED BY <1>1, <1>2, <1>3 DEF TabInv

(* A statement that MySQL executes belongs to the connection its busy      *)
(* transaction has.                                                        *)
LEMMA ServedIs ==
  ASSUME TabInv, NEW s \in StepRequest, s.conn \in alive,
         RequestFits(s, txn, generation, load, alive)
  PROVE  s.conn = Conn(s.txn) /\ txn[s.txn].busy /\ s.gen = generation
  <1>1. s.kind = "step" /\ s.txn \in Txn /\ s.conn \in Txn \X Nat
    BY DEF StepRequest, Connection
  <1>2. s.conn[1] = s.txn /\ txn[s.txn].busy /\ s.gen = generation
    BY <1>1 DEF RequestFits, StepFits
  <1>3. PICK n \in Nat : s.conn = <<s.txn, n>>
    BY <1>1, <1>2
  <1>4. n = txn[s.txn].conn
    BY <1>1, <1>3 DEF TabInv, ConnInv
  <1> QED BY <1>2, <1>3, <1>4 DEF Conn

LEMMA StatementTab ==
  ASSUME TabInv, NEW i \in DOMAIN sent, NEW status \in {"DONE", "ERROR"},
         Execute(i) \/ Refuse(i) \/ Victim(i), Settle(i, status)
  PROVE  TabInv'
  <1> DEFINE s == sent[i]
  <1>0. TypesInv
    BY DEF TabInv
  <1>1. /\ s \in StepRequest /\ alive' = alive /\ inTx' \subseteq inTx \cup {s.conn}
        /\ s.conn \notin alive => inTx' = inTx /\ owner' = owner
    BY <1>0, DbStep DEF Served
  <1>2. /\ sent' = RemoveAt(sent, i) /\ UNCHANGED <<generation, load, loads, kills>>
        /\ \A u \in Txn : /\ txn'[u].conn = txn[u].conn /\ txn'[u].made = txn[u].made
                          /\ txn'[u].installed = txn[u].installed
                          /\ txn'[u].busy => txn[u].busy
                          /\ txn[u].busy /\ ~txn'[u].busy => u = s.txn /\ s.gen = generation
                          /\ u = s.txn /\ s.gen = generation => ~txn'[u].busy
                          /\ Own(txn[u]) /\ (s.gen = generation
                               => s.installed = txn[s.txn].installed) => Own(txn'[u])
    BY <1>0, <1>1, SettleIs
  <1>3. /\ RequestFits(s, txn, generation, load, alive) /\ s.kind = "step" /\ s.txn \in Txn
        /\ s.gen \in Nat
    BY <1>1, InvTypes DEF AllFit, StepRequest
  <1>4. s.conn \in alive => s.conn = Conn(s.txn) /\ txn[s.txn].busy
    BY <1>1, <1>3, ServedIs
  <1> HIDE DEF s
  <1>5. TypesInv'
    BY <1>0, StatementTypes
  <1>6. SentInv'
    <2>1. ASSUME NEW r \in Request, RequestFits(r, txn, generation, load, alive), Apart(r, s)
          PROVE  RequestFits(r, txn', generation', load', alive')
      <3>1. r.kind = "step" => r.txn \in Txn /\ (r.txn = s.txn => r.gen # s.gen)
        BY <1>3, <2>1, RequestKinds DEF Apart, StepRequest
      <3>2. load.txn \in Txn
        BY InvTypes DEF Load
      <3>3. r.kind = "step" => StepFits(r, txn', generation', load', alive')
        BY <1>1, <1>2, <2>1, <3>1 DEF RequestFits, StepFits
      <3> QED BY <1>1, <1>2, <2>1, <3>2, <3>3 DEF RequestFits
    <2> QED BY <1>2, <2>1, InvTypes, AnsweredFit DEF SentInv, s
  <1>7. ConnInv'
    BY <1>1, <1>2 DEF TabInv, ConnInv
  <1>8. EndInv'
    <2>1. load.at \in {"reconnect", "reset", "set"} => s.conn \notin alive
      BY <1>3, <1>4 DEF TabInv, EndInv
    <2>2. load.at \in {"end", "ending"} /\ load.txn = "T2" => s.conn # Conn("T1") \/ s.conn \notin alive
      <3>1. SUFFICES ASSUME s.conn \in alive, s.conn = Conn("T1"),
                            load.at \in {"end", "ending"}, load.txn = "T2"
                     PROVE  FALSE
        OBVIOUS
      <3>2. s.txn = "T1"
        BY <1>4, <3>1 DEF Conn
      <3> QED BY <1>4, <3>1, <3>2 DEF TabInv, EndInv
    <2>3. Conn("T1")' = Conn("T1") /\ txn'["T2"].conn = txn["T2"].conn /\ txn'["T1"].conn = txn["T1"].conn
          /\ (txn'["T1"].busy => txn["T1"].busy)
      BY <1>2 DEF Conn, Txn
    <2>4. Conn("T1") \notin inTx /\ (s.conn # Conn("T1") \/ s.conn \notin alive) => Conn("T1") \notin inTx'
      BY <1>1
    <2> QED BY <1>1, <1>2, <2>1, <2>2, <2>3, <2>4 DEF TabInv, EndInv
  <1>9. BusyAwaits'
    <2>1. SUFFICES ASSUME NEW t \in Txn, txn'[t].busy PROVE Awaited(sent', t, generation')
      BY DEF BusyAwaits
    <2>2. Awaited(sent, t, generation) /\ ~(s.txn = t /\ s.gen = generation)
      BY <1>2, <2>1 DEF TabInv, BusyAwaits
    <2> QED BY <1>2, <2>2, StillAwaited, InvTypes DEF s
  <1>10. FencedResults'
    <2>1. s.gen = generation => s.installed = txn[s.txn].installed
      BY <1>3 DEF RequestFits, StepFits
    <2>2. \A u \in Txn : Own(txn'[u])
      BY <1>2, <2>1, FencedIs DEF TabInv
    <2> QED BY <2>2 DEF FencedResults, Own
  <1> QED BY <1>5, <1>6, <1>7, <1>8, <1>9, <1>10 DEF TabInv

LEMMA NoKill ==
  ASSUME TabInv, ~Pending("kill"), NEW i \in DOMAIN sent
  PROVE  sent[i].kind # "kill"
  BY DEF Pending

LEMMA StepTab ==
  ASSUME OneTab, TabInv, NEW t \in Txn, Step(t)
  PROVE  TabInv'
  <1>0. TypesInv
    BY DEF TabInv
  <1>1. load.at = "idle"
    BY DEF Step, Allowed, OneTab
  <1>2. /\ TypesInv' /\ UNCHANGED <<generation, load, loads, kills, alive, inTx, owner>>
        /\ ~txn[t].busy
        /\ \A u \in Txn : /\ txn'[u].conn = txn[u].conn /\ txn'[u].made = txn[u].made
                          /\ txn'[u].installed = txn[u].installed
                          /\ u # t => txn'[u] = txn[u]
                          /\ Own(txn[u]) => Own(txn'[u])
        /\ \/ txn[t].conn = 0 /\ sent' = sent /\ ~txn'[t].busy
           \/ /\ txn[t].conn # 0 /\ txn'[t].busy
              /\ \E s \in StepRequest : /\ sent' = Append(sent, s) /\ s.conn = Conn(t) /\ s.txn = t
                                       /\ s.gen = generation /\ s.installed = txn[t].installed
    BY <1>0, StepIs DEF Ready
  <1>3. /\ sent \in Seq(Request) /\ generation \in Nat
        /\ AllApart(sent) /\ AllFit(sent, txn, generation, load, alive)
        /\ \A u \in Txn : txn[u].busy \in BOOLEAN /\ txn[u].conn \in Nat /\ txn[u].made \in Nat
    BY InvTypes
  <1>4. ASSUME NEW r \in Request, RequestFits(r, txn, generation, load, alive)
        PROVE  RequestFits(r, txn', generation', load', alive')
    <2>1. r.kind = "step" => r.txn \in Txn
      BY RequestKinds DEF StepRequest
    <2>2. r.kind = "step" /\ txn[r.txn].busy => txn'[r.txn].busy
      BY <1>2, <2>1
    <2>3. r.kind = "step" => StepFits(r, txn', generation', load', alive')
      BY <1>2, <1>4, <2>1, <2>2 DEF RequestFits, StepFits
    <2>4. r.kind # "rollback"
      BY <1>1, <1>4 DEF RequestFits, LoadAt, LoadKinds
    <2> QED BY <1>2, <1>4, <2>3, <2>4 DEF RequestFits
  <1>5. SentInv' /\ BusyAwaits'
    <2>1. CASE sent' = sent /\ ~txn'[t].busy
      <3>1. SentInv'
        BY <1>3, <1>4, <2>1 DEF SentInv, AllFit
      <3>2. BusyAwaits'
        BY <1>2, <2>1 DEF TabInv, BusyAwaits
      <3> QED BY <3>1, <3>2
    <2>2. CASE txn'[t].busy
      <3>1. PICK s \in StepRequest : /\ sent' = Append(sent, s) /\ s.conn = Conn(t) /\ s.txn = t
                                    /\ s.gen = generation /\ s.installed = txn[t].installed
        BY <1>2, <2>2
      <3>2. s \in Request /\ s.kind = "step"
        BY DEF Request, StepRequest
      <3>3. ASSUME NEW i \in DOMAIN sent PROVE Apart(sent[i], s)
        <4>1. sent[i].kind = "step" => ~(sent[i].txn = t /\ sent[i].gen = generation)
          BY <1>1, <1>2, <1>3 DEF AllFit, RequestFits, StepFits
        <4> QED BY <3>1, <3>2, <4>1 DEF Apart, LoadKinds
      <3>4. RequestFits(s, txn', generation', load', alive')
        <4>1. StepFits(s, txn', generation', load', alive')
          <5>1. s.conn[1] = t /\ s.conn[2] = txn[t].conn /\ txn[t].conn <= txn[t].made
            BY <3>1 DEF Conn, TabInv, ConnInv
          <5> QED BY <1>1, <1>2, <1>3, <2>2, <3>1, <5>1 DEF StepFits
        <4> QED BY <3>2, <4>1 DEF RequestFits, LoadKinds
      <3>5. SentInv'
        BY <1>3, <1>4, <3>1, <3>2, <3>3, <3>4, SentFit DEF SentInv
      <3>6. BusyAwaits'
        <4>1. SUFFICES ASSUME NEW u \in Txn, txn'[u].busy PROVE Awaited(sent', u, generation')
          BY DEF BusyAwaits
        <4>2. CASE u = t
          <5>1. Len(sent) + 1 \in DOMAIN sent' /\ sent'[Len(sent) + 1] = s
            BY <1>3, <3>1, <3>2, Sent
          <5> QED BY <1>2, <3>1, <3>2, <4>2, <5>1 DEF Awaited
        <4>3. CASE u # t
          <5>1. Awaited(sent, u, generation)
            BY <1>2, <4>1, <4>3 DEF TabInv, BusyAwaits
          <5> QED BY <1>2, <1>3, <3>1, <3>2, <5>1, StillAwaited
        <4> QED BY <4>2, <4>3
      <3> QED BY <3>5, <3>6
    <2> QED BY <1>2, <2>1, <2>2
  <1>6. ConnInv' /\ EndInv'
    BY <1>1, <1>2 DEF TabInv, ConnInv, EndInv
  <1>7. FencedResults'
    <2>1. \A u \in Txn : Own(txn'[u])
      BY <1>2, FencedIs DEF TabInv
    <2> QED BY <2>1 DEF FencedResults, Own
  <1> QED BY <1>2, <1>5, <1>6, <1>7 DEF TabInv

LEMMA FencedNext ==
  ASSUME TabInv, \A u \in Txn : Own(txn[u]) => Own(txn'[u])
  PROVE  FencedResults'
  <1>1. \A u \in Txn : Own(txn'[u])
    BY FencedIs DEF TabInv
  <1> QED BY <1>1 DEF FencedResults, Own

LEMMA BusyNext ==
  ASSUME TabInv, NEW i \in DOMAIN sent, sent[i].kind # "step", sent' = RemoveAt(sent, i),
         generation' = generation, \A u \in Txn : txn'[u].busy => txn[u].busy
  PROVE  BusyAwaits'
  <1>1. SUFFICES ASSUME NEW t \in Txn, txn'[t].busy PROVE Awaited(sent', t, generation')
    BY DEF BusyAwaits
  <1>2. Awaited(sent, t, generation)
    BY <1>1 DEF TabInv, BusyAwaits
  <1> QED BY <1>2, StillAwaited, InvTypes

LEMMA KillTab ==
  ASSUME OneTab, TabInv, NEW t \in Txn, Kill(t)
  PROVE  TabInv'
  <1>1. load.at = "idle"
    BY DEF Kill, Allowed, OneTab
  <1>2. TypesInv
    BY DEF TabInv
  <1>3. TypesInv' /\ UNCHANGED <<txn, generation, load, loads, alive, inTx, owner>>
    BY <1>2, KillIs
  <1>4. PICK s \in KillRequest : sent' = Append(sent, s) /\ s.target = Conn(t) /\ s.txn = t
    BY <1>2, KillIs
  <1>5. s \in Request /\ s.kind = "kill"
    BY DEF Request, KillRequest
  <1>6. RequestFits(s, txn', generation', load', alive')
    <2>1. s.target[1] = s.txn
      BY <1>4 DEF Conn
    <2> QED BY <1>1, <1>3, <1>5, <2>1 DEF RequestFits, LoadKinds
  <1>7. SentInv'
    <2>1. \A i \in DOMAIN sent : Apart(sent[i], s)
      BY <1>5 DEF Apart, LoadKinds
    <2>2. \A r \in Request : RequestFits(r, txn, generation, load, alive)
            => RequestFits(r, txn', generation', load', alive')
      BY <1>3
    <2> QED BY <1>4, <1>5, <1>6, <2>1, <2>2, InvTypes, SentFit DEF SentInv
  <1>8. BusyAwaits'
    <2>1. SUFFICES ASSUME NEW u \in Txn, txn[u].busy PROVE Awaited(sent', u, generation)
      BY <1>3 DEF BusyAwaits
    <2>2. Awaited(sent, u, generation)
      BY <2>1 DEF TabInv, BusyAwaits
    <2> QED BY <1>4, <1>5, <2>2, StillAwaited, InvTypes
  <1>9. ConnInv' /\ EndInv' /\ FencedResults'
    BY <1>3 DEF TabInv, ConnInv, EndInv, FencedResults, Conn
  <1> QED BY <1>3, <1>7, <1>8, <1>9 DEF TabInv

LEMMA KillDoneTab ==
  ASSUME TabInv, KillDone
  PROVE  TabInv'
  <1>1. TypesInv
    BY DEF TabInv
  <1>2. TypesInv' /\ UNCHANGED <<generation, load, loads, kills, owner>>
    BY <1>1, KillDoneIs
  <1>3. PICK i \in DOMAIN sent :
          /\ sent[i] \in KillRequest /\ sent' = RemoveAt(sent, i)
          /\ alive' = alive \ {sent[i].target} /\ inTx' = inTx \ {sent[i].target}
          /\ \A u \in Txn : /\ txn'[u].made = txn[u].made
                            /\ txn'[u].installed = txn[u].installed
                            /\ txn'[u].busy = txn[u].busy
                            /\ Own(txn[u]) => Own(txn'[u])
                            /\ txn'[u].conn = IF u = sent[i].txn /\ sent[i].target \in alive
                                              THEN 0 ELSE txn[u].conn
    BY <1>1, KillDoneIs
  <1> DEFINE s == sent[i]
  <1>4. s.kind = "kill" /\ s.target \in Connection /\ s.txn \in Txn
        /\ RequestFits(s, txn, generation, load, alive)
    BY <1>3, InvTypes DEF KillRequest, AllFit
  <1>5. load.at = "idle" /\ s.target[1] = s.txn
    BY <1>4 DEF RequestFits
  <1>6. PICK m \in Nat : s.target = <<s.txn, m>>
    BY <1>4, <1>5 DEF Connection
  <1>7. SentInv'
    <2>1. ASSUME NEW r \in Request, RequestFits(r, txn, generation, load, alive)
          PROVE  RequestFits(r, txn', generation', load', alive')
      <3>1. r.kind = "step" => r.txn \in Txn
        BY RequestKinds DEF StepRequest
      <3>2. r.kind = "step" => StepFits(r, txn', generation', load', alive')
        BY <1>2, <1>3, <2>1, <3>1 DEF RequestFits, StepFits
      <3>3. r.kind \notin LoadKinds
        BY <1>5, <2>1 DEF RequestFits, LoadAt, LoadKinds
      <3> QED BY <1>2, <2>1, <3>2, <3>3 DEF RequestFits, LoadKinds
    <2> QED BY <1>3, <2>1, InvTypes, AnsweredFit DEF SentInv
  <1>8. ConnInv'
    <2>1. /\ \A t \in Txn, n \in Nat : <<t, n>> \in alive <=> n = txn[t].conn /\ n # 0
          /\ \A t \in Txn : txn[t].conn <= txn[t].made /\ txn[t].conn \in Nat /\ txn[t].made \in Nat
          /\ inTx \subseteq alive
      BY InvTypes DEF TabInv, ConnInv
    <2>2. ASSUME NEW t \in Txn, NEW n \in Nat
          PROVE  <<t, n>> \in alive' <=> n = txn'[t].conn /\ n # 0
      <3>1. <<t, n>> = s.target <=> t = s.txn /\ n = m
        BY <1>6
      <3>2. s.target \in alive <=> m = txn[s.txn].conn /\ m # 0
        BY <1>4, <1>6, <2>1
      <3>3. <<t, n>> \in alive' <=> n = txn[t].conn /\ n # 0 /\ ~(t = s.txn /\ n = m)
        BY <1>3, <2>1, <3>1
      <3>4. txn'[t].conn = IF t = s.txn /\ m = txn[s.txn].conn /\ m # 0 THEN 0 ELSE txn[t].conn
        BY <1>3, <3>2
      <3> QED BY <3>3, <3>4
    <2>3. \A t \in Txn : txn'[t].conn <= txn'[t].made
      BY <1>3, <2>1
    <2> QED BY <1>3, <2>1, <2>2, <2>3 DEF ConnInv
  <1>9. EndInv'
    BY <1>2, <1>5 DEF EndInv
  <1>10. BusyAwaits' /\ FencedResults'
    BY <1>2, <1>3, <1>4, BusyNext, FencedNext
  <1> QED BY <1>2, <1>7, <1>8, <1>9, <1>10 DEF TabInv

LEMMA LoadStartTab ==
  ASSUME OneTab, TabInv, NEW sc \in Loadable, LoadStart(sc)
  PROVE  TabInv'
  <1>1. /\ TypesInv' /\ UNCHANGED <<txn, generation, kills, sent, alive, inTx, owner>>
        /\ load.at = "idle" /\ load'.at = "connect" /\ load'.txn = "T1"
    BY LoadStartIs DEF TabInv
  <1>2. \A i \in DOMAIN sent : sent[i].kind # "kill"
    BY NoKill DEF LoadStart, OneTab
  <1>3. SentInv'
    <2>1. ASSUME NEW i \in DOMAIN sent PROVE RequestFits(sent[i], txn, generation, load', alive)
      <3>1. RequestFits(sent[i], txn, generation, load, alive) /\ sent[i].kind # "kill"
        BY <1>2, InvTypes DEF AllFit
      <3>2. sent[i].kind \notin LoadKinds
        BY <1>1, <3>1 DEF RequestFits, LoadAt, LoadKinds
      <3>3. sent[i].kind = "step" => StepFits(sent[i], txn, generation, load', alive)
        BY <1>1, <3>1 DEF RequestFits, StepFits
      <3> QED BY <3>1, <3>2, <3>3 DEF RequestFits, LoadKinds
    <2> QED BY <1>1, <2>1, InvTypes DEF SentInv, AllFit
  <1>4. ConnInv' /\ EndInv' /\ BusyAwaits' /\ FencedResults'
    BY <1>1 DEF TabInv, ConnInv, EndInv, BusyAwaits, FencedResults
  <1> QED BY <1>1, <1>3, <1>4 DEF TabInv

(* A new incarnation answers no statement that was sent before. *)
LEMMA ConnectTab ==
  ASSUME TabInv, Connect
  PROVE  /\ ConnInv' /\ FencedResults' /\ inTx' = inTx /\ owner' = owner
         /\ \A u \in Txn : /\ txn'[u].conn # 0 /\ txn'[u].made >= txn[u].made
                           /\ txn'[u].installed = txn[u].installed
                           /\ txn'[u].busy = txn[u].busy
         /\ \A r \in StepRequest : RequestFits(r, txn, generation, load, alive) /\ r.conn \in alive'
                                   => r.conn \in alive
  <1>1. /\ inTx' = inTx /\ owner' = owner
        /\ \A u \in Txn : /\ txn'[u].conn = IF txn[u].conn = 0 THEN txn[u].made + 1 ELSE txn[u].conn
                          /\ txn'[u].made = IF txn[u].conn = 0 THEN txn[u].made + 1 ELSE txn[u].made
                          /\ txn'[u].installed = txn[u].installed
                          /\ txn'[u].busy = txn[u].busy
                          /\ Own(txn[u]) => Own(txn'[u])
        /\ \A u \in Txn, n \in Nat : <<u, n>> \in alive'
             <=> <<u, n>> \in alive \/ (txn[u].conn = 0 /\ n = txn[u].made + 1)
    BY ConnectIs DEF TabInv
  <1>2. /\ \A t \in Txn, n \in Nat : <<t, n>> \in alive <=> n = txn[t].conn /\ n # 0
        /\ \A t \in Txn : txn[t].conn <= txn[t].made /\ txn[t].conn \in Nat /\ txn[t].made \in Nat
        /\ inTx \subseteq alive /\ alive \subseteq Connection
    BY InvTypes DEF TabInv, ConnInv
  <1>3. ConnInv'
    <2>1. ASSUME NEW t \in Txn, NEW n \in Nat
          PROVE  <<t, n>> \in alive' <=> n = txn'[t].conn /\ n # 0
      <3> DEFINE c == txn[t].conn  m == txn[t].made  d == txn'[t].conn
      <3>1. /\ c \in Nat /\ m \in Nat /\ d = IF c = 0 THEN m + 1 ELSE c
            /\ <<t, n>> \in alive <=> n = c /\ n # 0
            /\ <<t, n>> \in alive' <=> <<t, n>> \in alive \/ (c = 0 /\ n = m + 1)
        BY <1>1, <1>2
      <3> HIDE DEF c, m, d
      <3>2. <<t, n>> \in alive' <=> n = d /\ n # 0
        BY <3>1
      <3> QED BY <3>2 DEF d
    <2>2. \A t \in Txn : txn'[t].conn <= txn'[t].made
      BY <1>1, <1>2
    <2>3. inTx' \subseteq alive'
      BY <1>1, <1>2 DEF Connection
    <2> QED BY <2>1, <2>2, <2>3 DEF ConnInv
  <1>4. ASSUME NEW r \in StepRequest, RequestFits(r, txn, generation, load, alive), r.conn \in alive'
        PROVE  r.conn \in alive
    <2>1. r.conn \in Txn \X Nat /\ r.txn \in Txn /\ r.conn[1] = r.txn /\ r.conn[2] <= txn[r.txn].made
      BY <1>4 DEF StepRequest, Connection, RequestFits, StepFits
    <2>2. PICK n \in Nat : r.conn = <<r.txn, n>> /\ n <= txn[r.txn].made
      BY <2>1
    <2> QED BY <1>1, <1>2, <1>4, <2>1, <2>2
  <1>5. FencedResults'
    BY <1>1, FencedNext
  <1>6. \A u \in Txn : txn'[u].conn # 0 /\ txn'[u].made >= txn[u].made
    BY <1>1, <1>2
  <1> QED BY <1>1, <1>3, <1>4, <1>5, <1>6

LEMMA LoadConnectTab ==
  ASSUME TabInv, LoadConnect
  PROVE  TabInv'
  <1>1. /\ TypesInv' /\ Connect /\ UNCHANGED <<generation, loads, kills, sent>>
        /\ load.at = "connect" /\ load'.at = "end" /\ load'.txn = load.txn
    BY LoadConnectIs DEF TabInv
  <1>2. /\ ConnInv' /\ FencedResults' /\ inTx' = inTx /\ owner' = owner
        /\ \A u \in Txn : /\ txn'[u].conn # 0 /\ txn'[u].made >= txn[u].made
                          /\ txn'[u].installed = txn[u].installed
                          /\ txn'[u].busy = txn[u].busy
        /\ \A r \in StepRequest : RequestFits(r, txn, generation, load, alive) /\ r.conn \in alive'
                                  => r.conn \in alive
    BY <1>1, ConnectTab
  <1>3. TypesInv /\ load.txn = "T1"
    BY <1>1 DEF TabInv, EndInv
  <1>4. SentInv'
    <2>1. ASSUME NEW i \in DOMAIN sent PROVE RequestFits(sent[i], txn', generation, load', alive')
      <3> DEFINE r == sent[i]
      <3>1. RequestFits(r, txn, generation, load, alive) /\ r \in Request
        BY InvTypes DEF AllFit
      <3> HIDE DEF r
      <3>2. r.kind = "step" => r \in StepRequest /\ r.txn \in Txn /\ r.conn[2] \in Nat
        BY <3>1, RequestKinds DEF StepRequest, Connection
      <3>3. r.kind = "step" => StepFits(r, txn', generation, load', alive')
        <4>1. SUFFICES ASSUME r.kind = "step" PROVE StepFits(r, txn', generation, load', alive')
          OBVIOUS
        <4>2. StepFits(r, txn, generation, load, alive) /\ (r.conn \in alive' => r.conn \in alive)
          BY <1>2, <3>1, <3>2, <4>1 DEF RequestFits
        <4>3. r.conn[2] <= txn'[r.txn].made
          <5>1. txn'[r.txn].made >= txn[r.txn].made /\ txn[r.txn].made \in Nat /\ txn'[r.txn].made \in Nat
            BY <1>1, <1>2, <3>2, <4>1, InvTypes DEF TypesInv, StepperTypeOK, EngineTypes, Runtime
          <5> QED BY <3>2, <4>1, <4>2, <5>1 DEF StepFits
        <4> QED BY <1>1, <1>2, <3>2, <4>1, <4>2, <4>3 DEF StepFits
      <3>4. r.kind # "kill" /\ r.kind \notin LoadKinds
        BY <1>1, <3>1 DEF RequestFits, LoadAt, LoadKinds
      <3>5. RequestFits(r, txn', generation, load', alive')
        BY <3>3, <3>4 DEF RequestFits, LoadKinds
      <3> QED BY <3>5 DEF r
    <2> QED BY <1>1, <2>1, InvTypes DEF SentInv, AllFit
  <1>5. EndInv'
    <2>1. "T1" \in Txn /\ "T2" \in Txn
      BY DEF Txn
    <2> QED BY <1>1, <1>2, <1>3, <2>1 DEF EndInv
  <1>6. BusyAwaits'
    BY <1>1, <1>2 DEF TabInv, BusyAwaits
  <1> QED BY <1>1, <1>2, <1>4, <1>5, <1>6 DEF TabInv

LEMMA LoadResetTab ==
  ASSUME TabInv, LoadReset
  PROVE  TabInv'
  <1>1. /\ TypesInv' /\ Connect /\ UNCHANGED <<loads, kills>> /\ generation' = generation + 1
        /\ load.at = "reconnect" /\ load'.at = "reset"
    BY LoadResetIs DEF TabInv
  <1>2. PICK s \in LoadRequests : sent' = Append(sent, s) /\ s.kind = "reset"
    BY LoadResetIs DEF TabInv
  <1>3. /\ ConnInv' /\ FencedResults' /\ inTx' = inTx /\ owner' = owner
        /\ \A u \in Txn : /\ txn'[u].conn # 0 /\ txn'[u].made >= txn[u].made
                          /\ txn'[u].installed = txn[u].installed
                          /\ txn'[u].busy = txn[u].busy
        /\ \A r \in StepRequest : RequestFits(r, txn, generation, load, alive) /\ r.conn \in alive'
                                  => r.conn \in alive
    BY <1>1, ConnectTab
  <1>4. inTx = {} /\ \A t \in Txn : ~txn[t].busy
    BY <1>1 DEF TabInv, EndInv
  <1>5. s \in Request
    BY DEF Request
  <1>6. ASSUME NEW r \in Request, RequestFits(r, txn, generation, load, alive)
        PROVE  r.kind = "step" /\ RequestFits(r, txn', generation', load', alive')
    <2>1. r.kind = "step"
      <3>1. r.kind # "kill" /\ r.kind \notin LoadKinds
        BY <1>1, <1>6 DEF RequestFits, LoadAt, LoadKinds
      <3> QED BY <3>1 DEF Request, StepRequest, KillRequest, LoadRequests
    <2>2. r \in StepRequest /\ r.txn \in Txn /\ r.conn[2] \in Nat /\ r.gen \in Nat
      BY <2>1, RequestKinds DEF StepRequest, Connection
    <2>3. StepFits(r, txn, generation, load, alive)
      BY <1>6, <2>1 DEF RequestFits
    <2>4. r.conn \notin alive /\ r.conn \notin alive'
      BY <1>3, <1>4, <1>6, <2>2, <2>3 DEF StepFits
    <2>5. r.conn[2] <= txn'[r.txn].made
      <3>1. txn'[r.txn].made >= txn[r.txn].made /\ txn[r.txn].made \in Nat /\ txn'[r.txn].made \in Nat
        BY <1>1, <1>3, <2>2, InvTypes DEF TypesInv, StepperTypeOK, EngineTypes, Runtime
      <3> QED BY <2>2, <2>3, <3>1 DEF StepFits
    <2>6. r.gen < generation' /\ r.gen <= generation' /\ r.gen # generation'
      BY <1>1, <2>2, <2>3, InvTypes DEF StepFits
    <2>7. StepFits(r, txn', generation', load', alive')
      BY <2>3, <2>4, <2>5, <2>6 DEF StepFits
    <2> QED BY <2>1, <2>7 DEF RequestFits, LoadKinds
  <1>7. SentInv'
    <2>1. \A i \in DOMAIN sent : sent[i].kind = "step"
      BY <1>6, InvTypes DEF AllFit
    <2>2. \A i \in DOMAIN sent : Apart(sent[i], s)
      BY <1>2, <2>1 DEF Apart, LoadKinds
    <2>3. RequestFits(s, txn', generation', load', alive')
      BY <1>1, <1>2 DEF RequestFits, LoadAt
    <2> QED BY <1>2, <1>5, <1>6, <2>2, <2>3, InvTypes, SentFit DEF SentInv
  <1>8. EndInv' /\ BusyAwaits'
    BY <1>1, <1>3, <1>4 DEF EndInv, BusyAwaits
  <1> QED BY <1>1, <1>3, <1>7, <1>8 DEF TabInv

LEMMA EndOpenTab ==
  ASSUME TabInv, EndOpen
  PROVE  TabInv'
  <1> DEFINE t == load.txn
  <1>1. /\ TypesInv' /\ UNCHANGED <<txn, generation, loads, kills, alive, inTx, owner>>
        /\ load.at = "end" /\ t \in Txn
    BY EndOpenIs DEF TabInv
  <1>2. txn[t].conn # 0
    BY <1>1 DEF TabInv, EndInv, Txn
  <1>3. load'.at = "ending" /\ load'.txn = t
    BY <1>2, EndOpenIs DEF TabInv
  <1>4. PICK s \in LoadRequests : /\ sent' = Append(sent, s)
                                  /\ IF txn[t].busy THEN s.kind = "loadKill"
                                     ELSE s.kind = "rollback" /\ s.conn = Conn(t)
    BY <1>2, EndOpenIs DEF TabInv
  <1>5. s \in Request /\ s.kind \in {"loadKill", "rollback"}
    BY <1>4 DEF Request
  <1>6. ASSUME NEW r \in Request, RequestFits(r, txn, generation, load, alive)
        PROVE  r.kind = "step" /\ RequestFits(r, txn', generation', load', alive')
    <2>1. r.kind = "step"
      <3>1. r.kind # "kill" /\ r.kind \notin LoadKinds
        BY <1>1, <1>6 DEF RequestFits, LoadAt, LoadKinds
      <3> QED BY <3>1 DEF Request, StepRequest, KillRequest, LoadRequests
    <2>2. StepFits(r, txn', generation', load', alive')
      BY <1>1, <1>3, <1>6, <2>1 DEF RequestFits, StepFits
    <2> QED BY <2>1, <2>2 DEF RequestFits, LoadKinds
  <1>7. SentInv'
    <2>1. \A i \in DOMAIN sent : sent[i].kind = "step"
      BY <1>6, InvTypes DEF AllFit
    <2>2. \A i \in DOMAIN sent : Apart(sent[i], s)
      BY <1>5, <2>1 DEF Apart, LoadKinds
    <2>3. RequestFits(s, txn', generation', load', alive')
      BY <1>1, <1>3, <1>4, <1>5 DEF RequestFits, LoadAt, Conn
    <2> QED BY <1>4, <1>5, <1>6, <2>2, <2>3, InvTypes, SentFit DEF SentInv
  <1>8. BusyAwaits'
    <2>1. SUFFICES ASSUME NEW u \in Txn, txn[u].busy PROVE Awaited(sent', u, generation)
      BY <1>1 DEF BusyAwaits
    <2>2. Awaited(sent, u, generation)
      BY <2>1 DEF TabInv, BusyAwaits
    <2> QED BY <1>4, <1>5, <2>2, StillAwaited, InvTypes
  <1>9. ConnInv' /\ EndInv' /\ FencedResults'
    BY <1>1, <1>3 DEF TabInv, ConnInv, EndInv, FencedResults, Conn
  <1> QED BY <1>1, <1>7, <1>8, <1>9 DEF TabInv

(* While one transaction is ended, only its own request and statements are *)
(* under way.                                                              *)
LEMMA Ending ==
  ASSUME TabInv, NEW i \in DOMAIN sent, sent[i] \in LoadRequests,
         sent[i].kind \in {"loadKill", "rollback"}
  PROVE  /\ load.at = "ending" /\ load.txn \in Txn /\ txn["T2"].conn # 0
         /\ load.txn = "T1" => txn["T1"].conn # 0
         /\ load.txn = "T2" => ~txn["T1"].busy /\ Conn("T1") \notin inTx
         /\ sent[i].kind = "rollback" => ~txn[load.txn].busy /\ sent[i].conn = Conn(load.txn)
         /\ \A r \in Request : RequestFits(r, txn, generation, load, alive) /\ Apart(r, sent[i])
                               => r \in StepRequest /\ r.kind = "step"
  <1>1. RequestFits(sent[i], txn, generation, load, alive)
    BY InvTypes DEF AllFit
  <1>2. load.at = "ending" /\ load.txn \in Txn
    BY <1>1, InvTypes DEF RequestFits, LoadAt, LoadKinds, Load
  <1>3. sent[i].kind = "rollback" => ~txn[load.txn].busy /\ sent[i].conn = Conn(load.txn)
    BY <1>1 DEF RequestFits, Conn
  <1>4. ASSUME NEW r \in Request, RequestFits(r, txn, generation, load, alive), Apart(r, sent[i])
        PROVE  r \in StepRequest /\ r.kind = "step"
    <2>1. r.kind # "kill" /\ r.kind \notin LoadKinds
      BY <1>2, <1>4 DEF RequestFits, Apart, LoadKinds
    <2> QED BY <2>1 DEF Request, StepRequest, KillRequest, LoadRequests
  <1> QED BY <1>2, <1>3, <1>4 DEF TabInv, EndInv

(* The other transactions are as they were, and what is left of this one's *)
(* statements counts no more.                                              *)
LEMMA KilledOpenTab ==
  ASSUME TabInv, KilledOpen
  PROVE  TabInv'
  <1> DEFINE t == load.txn
  <1>1. /\ TypesInv' /\ UNCHANGED <<generation, loads, kills, owner>>
        /\ alive' = alive \ {Conn(t)} /\ inTx' = inTx \ {Conn(t)}
        /\ \A u \in Txn : /\ txn'[u].made = txn[u].made
                          /\ txn'[u].installed = txn[u].installed
                          /\ Own(txn[u]) => Own(txn'[u])
    BY KilledOpenIs DEF TabInv
  <1>2. PICK i \in DOMAIN sent :
          sent[i] \in LoadRequests /\ sent[i].kind = "loadKill" /\ sent' = RemoveAt(sent, i)
    BY KilledOpenIs DEF TabInv
  <1>3. /\ load.at = "ending" /\ t \in Txn /\ txn["T2"].conn # 0
        /\ t = "T1" => txn["T1"].conn # 0
        /\ t = "T2" => ~txn["T1"].busy /\ Conn("T1") \notin inTx
        /\ \A r \in Request : RequestFits(r, txn, generation, load, alive) /\ Apart(r, sent[i])
                              => r \in StepRequest /\ r.kind = "step"
    BY <1>2, Ending
  <1>4. txn[t].conn # 0
    BY <1>3 DEF Txn
  <1>5. /\ EndNext(t)
        /\ \A u \in Txn : /\ txn'[u].conn = IF u = t THEN 0 ELSE txn[u].conn
                          /\ txn'[u].busy = IF u = t THEN FALSE ELSE txn[u].busy
    BY <1>4, KilledOpenIs DEF TabInv
  <1>6. IF t = "T1" THEN load'.at = "end" /\ load'.txn = "T2" ELSE load'.at = "reconnect"
    BY <1>3, <1>5, EndNextIs, InvTypes
  <1>7. SentInv'
    <2>1. ASSUME NEW r \in Request, RequestFits(r, txn, generation, load, alive), Apart(r, sent[i])
          PROVE  RequestFits(r, txn', generation', load', alive')
      <3>1. r \in StepRequest /\ r.kind = "step" /\ r.txn \in Txn
        BY <1>3, <2>1 DEF StepRequest
      <3>2. r.conn \in alive' => r.txn # t /\ txn[r.txn].busy
        BY <1>1, <2>1, <3>1, ServedIs
      <3>3. StepFits(r, txn', generation', load', alive')
        BY <1>1, <1>5, <1>6, <2>1, <3>1, <3>2 DEF RequestFits, StepFits
      <3> QED BY <3>1, <3>3 DEF RequestFits, LoadKinds
    <2> QED BY <1>2, <2>1, InvTypes, AnsweredFit DEF SentInv
  <1>8. ConnInv'
    <2>1. /\ \A u \in Txn, n \in Nat : <<u, n>> \in alive <=> n = txn[u].conn /\ n # 0
          /\ \A u \in Txn : txn[u].conn <= txn[u].made /\ txn[u].conn \in Nat /\ txn[u].made \in Nat
          /\ inTx \subseteq alive
      BY InvTypes DEF TabInv, ConnInv
    <2>2. ASSUME NEW u \in Txn, NEW n \in Nat
          PROVE  <<u, n>> \in alive' <=> n = txn'[u].conn /\ n # 0
      <3>1. <<u, n>> = Conn(t) <=> u = t /\ n = txn[t].conn
        BY DEF Conn
      <3>2. <<u, n>> \in alive' <=> n = txn[u].conn /\ n # 0 /\ u # t
        BY <1>1, <2>1, <3>1
      <3> QED BY <1>5, <3>2
    <2>3. ASSUME NEW u \in Txn PROVE txn'[u].conn <= txn'[u].made
      <3> DEFINE c == txn'[u].conn  d == txn[u].conn  m == txn[u].made
      <3>1. (c = 0 \/ c = d) /\ d <= m /\ m \in Nat /\ d \in Nat /\ txn'[u].made = m
        BY <1>1, <1>5, <2>1
      <3> HIDE DEF c, d, m
      <3>2. c <= m
        BY <3>1
      <3> QED BY <3>1, <3>2 DEF c
    <2> QED BY <1>1, <2>1, <2>2, <2>3 DEF ConnInv
  <1>9. EndInv'
    <2>1. CASE t = "T1"
      <3>1. txn'["T2"].conn # 0 /\ ~txn'["T1"].busy /\ txn'["T1"].conn = 0
        BY <1>3, <1>5, <2>1 DEF Txn
      <3>2. <<"T1", 0>> \notin alive'
        BY <1>8, <2>1 DEF ConnInv, Txn
      <3>3. Conn("T1")' \notin inTx'
        BY <1>8, <3>1, <3>2 DEF Conn, ConnInv
      <3> QED BY <1>6, <2>1, <3>1, <3>3 DEF EndInv
    <2>2. CASE t = "T2"
      <3>1. \A u \in Txn : ~txn'[u].busy
        BY <1>3, <1>5, <2>2 DEF Txn
      <3>2. ASSUME NEW c \in inTx' PROVE FALSE
        <4>1. c \in alive /\ c \in inTx /\ c # Conn("T2") /\ c # Conn("T1")
          BY <1>1, <1>3, <2>2, <3>2, InvTypes
        <4>2. PICK u \in Txn, n \in Nat : c = <<u, n>>
          BY <4>1, InvTypes DEF Connection
        <4>3. n = txn[u].conn /\ u \in {"T1", "T2"}
          BY <4>1, <4>2 DEF TabInv, ConnInv, Txn
        <4> QED BY <4>1, <4>2, <4>3 DEF Conn
      <3> QED BY <1>6, <2>2, <3>1, <3>2 DEF EndInv
    <2> QED BY <1>3, <2>1, <2>2 DEF Txn
  <1>10. BusyAwaits' /\ FencedResults'
    BY <1>1, <1>2, <1>5, BusyNext, FencedNext
  <1> QED BY <1>1, <1>7, <1>8, <1>9, <1>10 DEF TabInv

LEMMA RolledBackTab ==
  ASSUME TabInv, RolledBack
  PROVE  TabInv'
  <1> DEFINE t == load.txn
  <1>1. /\ TypesInv' /\ UNCHANGED <<generation, loads, kills, alive>> /\ EndNext(t)
        /\ \A u \in Txn : /\ txn'[u].conn = txn[u].conn /\ txn'[u].made = txn[u].made
                          /\ txn'[u].installed = txn[u].installed
                          /\ txn'[u].busy = IF u = t THEN FALSE ELSE txn[u].busy
                          /\ Own(txn[u]) => Own(txn'[u])
    BY RolledBackIs DEF TabInv
  <1>2. PICK i \in DOMAIN sent : /\ sent[i] \in LoadRequests /\ sent[i].kind = "rollback"
                                 /\ sent' = RemoveAt(sent, i) /\ inTx' = inTx \ {sent[i].conn}
    BY RolledBackIs DEF TabInv
  <1>3. /\ load.at = "ending" /\ t \in Txn /\ txn["T2"].conn # 0
        /\ t = "T2" => ~txn["T1"].busy /\ Conn("T1") \notin inTx
        /\ ~txn[t].busy /\ sent[i].conn = Conn(t)
        /\ \A r \in Request : RequestFits(r, txn, generation, load, alive) /\ Apart(r, sent[i])
                              => r \in StepRequest /\ r.kind = "step"
    BY <1>2, Ending
  <1>4. \A u \in Txn : txn'[u].busy = txn[u].busy /\ Conn(u)' = Conn(u)
    BY <1>1, <1>3, InvTypes DEF Conn
  <1>5. IF t = "T1" THEN load'.at = "end" /\ load'.txn = "T2" ELSE load'.at = "reconnect"
    BY <1>1, <1>3, EndNextIs, InvTypes
  <1>6. SentInv'
    <2>1. ASSUME NEW r \in Request, RequestFits(r, txn, generation, load, alive), Apart(r, sent[i])
          PROVE  RequestFits(r, txn', generation', load', alive')
      <3>1. r \in StepRequest /\ r.kind = "step" /\ r.txn \in Txn
        BY <1>3, <2>1 DEF StepRequest
      <3>2. StepFits(r, txn', generation', load', alive')
        BY <1>1, <1>4, <1>5, <2>1, <3>1 DEF RequestFits, StepFits
      <3> QED BY <3>1, <3>2 DEF RequestFits, LoadKinds
    <2> QED BY <1>2, <2>1, InvTypes, AnsweredFit DEF SentInv
  <1>7. ConnInv'
    BY <1>1, <1>2 DEF TabInv, ConnInv
  <1>8. EndInv'
    <2>1. CASE t = "T1"
      <3>1. txn'["T2"].conn # 0 /\ ~txn'["T1"].busy
        BY <1>1, <1>3, <1>4, <2>1 DEF Txn
      <3>2. Conn("T1")' \notin inTx'
        BY <1>2, <1>3, <1>4, <2>1
      <3> QED BY <1>5, <2>1, <3>1, <3>2 DEF EndInv
    <2>2. CASE t = "T2"
      <3>1. \A u \in Txn : ~txn'[u].busy
        BY <1>3, <1>4, <2>2 DEF Txn
      <3>2. ASSUME NEW c \in inTx' PROVE FALSE
        <4>1. c \in alive /\ c \in inTx /\ c # Conn("T2") /\ c # Conn("T1")
          BY <1>2, <1>3, <2>2, <3>2, InvTypes
        <4>2. PICK u \in Txn, n \in Nat : c = <<u, n>>
          BY <4>1, InvTypes DEF Connection
        <4>3. n = txn[u].conn /\ u \in {"T1", "T2"}
          BY <4>1, <4>2 DEF TabInv, ConnInv, Txn
        <4> QED BY <4>1, <4>2, <4>3 DEF Conn
      <3> QED BY <1>5, <2>2, <3>1, <3>2 DEF EndInv
    <2> QED BY <1>3, <2>1, <2>2 DEF Txn
  <1>9. BusyAwaits' /\ FencedResults'
    BY <1>1, <1>2, <1>4, BusyNext, FencedNext
  <1> QED BY <1>1, <1>6, <1>7, <1>8, <1>9 DEF TabInv

(* Before the new scripts are put in place, what is still under way of the *)
(* old ones is of an older generation, on connections that are gone.       *)
LEMMA InstallTab ==
  ASSUME TabInv, ResetDone \/ ResetTimeout \/ SetDone
  PROVE  TabInv'
  <1>1. /\ TypesInv' /\ load'.at \in {"idle", "set"}
        /\ UNCHANGED <<generation, loads, kills, alive, inTx, owner>>
        /\ \A u \in Txn : /\ txn'[u].conn = txn[u].conn /\ txn'[u].made = txn[u].made
                          /\ txn'[u].busy = txn[u].busy
                          /\ Own(txn[u]) => Own(txn'[u])
    BY InstallStepIs DEF TabInv
  <1>2. PICK i \in DOMAIN sent :
          /\ sent[i] \in LoadRequests /\ sent[i].kind \in {"reset", "set"}
          /\ load'.at = "set" /\ sent[i].kind = "reset" => \A r \in Row : owner[r] = Nobody
          /\ \/ load'.at = "idle" /\ sent' = RemoveAt(sent, i)
             \/ /\ load'.at = "set"
                /\ \E s \in LoadRequests : sent' = Append(RemoveAt(sent, i), s) /\ s.kind = "set"
    BY InstallStepIs DEF TabInv
  <1>3. load.at = sent[i].kind
    BY <1>2, InvTypes DEF AllFit, RequestFits, LoadAt, LoadKinds
  <1>4. inTx = {} /\ (\A t \in Txn : ~txn[t].busy)
        /\ (load'.at = "set" => \A r \in Row : owner[r] = Nobody)
    BY <1>2, <1>3 DEF TabInv, EndInv
  <1>5. ASSUME NEW r \in Request, RequestFits(r, txn, generation, load, alive), Apart(r, sent[i])
        PROVE  r.kind = "step" /\ RequestFits(r, txn', generation', load', alive')
    <2>1. r.kind # "kill" /\ r.kind \notin LoadKinds
      BY <1>2, <1>3, <1>5 DEF RequestFits, Apart, LoadKinds
    <2>2. r \in StepRequest /\ r.kind = "step" /\ r.txn \in Txn
      BY <2>1 DEF Request, StepRequest, KillRequest, LoadRequests
    <2>3. StepFits(r, txn', generation', load', alive')
      BY <1>1, <1>2, <1>3, <1>4, <1>5, <2>2 DEF RequestFits, StepFits
    <2> QED BY <2>2, <2>3 DEF RequestFits, LoadKinds
  <1>6. SentInv'
    <2> DEFINE q == RemoveAt(sent, i)
    <2>1. AllApart(q) /\ AllFit(q, txn', generation', load', alive') /\ q \in Seq(Request)
      BY <1>5, InvTypes, AnsweredFit, Removed
    <2>2. ASSUME NEW j \in DOMAIN q PROVE q[j].kind = "step"
      <3>1. Apart(q[j], sent[i])
        BY InvTypes, RemovedApart
      <3>2. q[j] \in Request /\ RequestFits(q[j], txn, generation, load, alive)
        BY InvTypes, RemovedFrom DEF AllFit
      <3> QED BY <1>5, <3>1, <3>2
    <2> HIDE DEF q
    <2>3. CASE sent' = q
      BY <2>1, <2>3 DEF SentInv
    <2>4. CASE load'.at = "set" /\ \E s \in LoadRequests : sent' = Append(q, s) /\ s.kind = "set"
      <3>1. PICK s \in LoadRequests : sent' = Append(q, s) /\ s.kind = "set"
        BY <2>4
      <3>2. s \in Request
        BY DEF Request
      <3>3. RequestFits(s, txn', generation', load', alive')
        BY <2>4, <3>1 DEF RequestFits, LoadAt
      <3>4. \A j \in DOMAIN q : Apart(q[j], s)
        BY <2>2, <3>1 DEF Apart, LoadKinds
      <3> QED BY <2>1, <3>1, <3>2, <3>3, <3>4, SentFit DEF SentInv
    <2> QED BY <1>2, <2>3, <2>4 DEF q
  <1>7. ConnInv' /\ EndInv' /\ BusyAwaits'
    BY <1>1, <1>4 DEF TabInv, ConnInv, EndInv, BusyAwaits
  <1>8. FencedResults'
    BY <1>1, FencedNext
  <1> QED BY <1>1, <1>6, <1>7, <1>8 DEF TabInv

LEMMA UndoTab ==
  ASSUME TabInv, Undo
  PROVE  TabInv'
  <1>1. /\ TypesInv' /\ UNCHANGED <<txn, generation, load, loads, kills, sent, alive, inTx>>
        /\ \A r \in Row : owner'[r] \in {owner[r], Nobody}
    BY UndoTypes DEF TabInv
  <1> QED
    BY <1>1 DEF TabInv, SentInv, ConnInv, EndInv, BusyAwaits, FencedResults, Conn

LEMMA NextTab ==
  ASSUME OneTab
  PROVE  TabInv /\ [Next]_vars => TabInv'
  <1> SUFFICES ASSUME TabInv, [Next]_vars PROVE TabInv'
    OBVIOUS
  <1>1. CASE UNCHANGED vars
    <2>1. TypesInv'
      BY <1>1, NextStepperTypes DEF TabInv
    <2> QED
      BY <1>1, <2>1
      DEF vars, engineVars, boundVars, dbVars, TabInv, SentInv, ConnInv, EndInv, BusyAwaits,
          FencedResults, Conn
  <1>2. CASE StatementDone \/ StatementFailed
    <2>1. PICK i \in DOMAIN sent, status \in {"DONE", "ERROR"} :
            (Execute(i) \/ Refuse(i) \/ Victim(i)) /\ Settle(i, status)
      BY <1>2 DEF StatementDone, StatementFailed
    <2> QED BY <2>1, StatementTab
  <1> QED
    BY <1>1, <1>2, StepTab, KillTab, LoadStartTab, LoadConnectTab, EndOpenTab, LoadResetTab, KillDoneTab,
       KilledOpenTab, RolledBackTab, InstallTab, UndoTab
    DEF Next, Respond

LEMMA InvClean == TabInv => CleanSlate
  <1> SUFFICES ASSUME TabInv, load.at = "set" PROVE CleanSlate
    BY DEF CleanSlate
  <1>1. ASSUME NEW i \in DOMAIN sent, sent[i].kind = "step" PROVE sent[i].gen < generation
    <2>1. StepFits(sent[i], txn, generation, load, alive) /\ sent[i].gen \in Nat
      BY <1>1, InvTypes, RequestKinds DEF AllFit, RequestFits, StepRequest
    <2> QED BY <2>1, InvTypes DEF StepFits
  <1> QED BY <1>1 DEF CleanSlate, TabInv, EndInv

LEMMA TabAlways ==
  ASSUME OneTab
  PROVE  Spec => []TabInv
  BY InitTab, NextTab, PTL DEF Spec

(* engine.ts:41, "a step that settles after a newer load must not write    *)
(* into the new scenario": with one tab, what a script's results show was  *)
(* done by that script's statements, whatever is killed and however late a *)
(* statement of an older script is answered.                               *)
THEOREM StepperFenced ==
  ASSUME OneTab
  PROVE  Spec => []FencedResults
  <1>1. TabInv => FencedResults
    BY DEF TabInv
  <1> QED BY <1>1, TabAlways, PTL

(* load(): with one tab, the new scripts are put in place over no open     *)
(* transaction, no row lock, no busy transaction, and no statement that    *)
(* would still be written into their results.                              *)
THEOREM StepperCleanSlate ==
  ASSUME OneTab
  PROVE  Spec => []CleanSlate
  BY InvClean, TabAlways, PTL

(* step(): with one tab, a busy transaction has a statement of the         *)
(* generation under way, whose answer frees it: never one that the fence   *)
(* would drop, after which no step of it could be taken again.             *)
THEOREM StepperBusyAwaits ==
  ASSUME OneTab
  PROVE  Spec => []BusyAwaits
  <1>1. TabInv => BusyAwaits
    BY DEF TabInv
  <1> QED BY <1>1, TabAlways, PTL
-----------------------------------------------------------------------------
(* The Stepper tab: what it will show when it has heard all that is under  *)
(* way, in turn.                                                           *)

Status == {"PENDING", "WAITING", "DONE", "ERROR", "KILLED"}
Scripts == [results : [Steps -> Status], busy : BOOLEAN, killed : BOOLEAN, cursor : 0 .. 2,
            generation : Nat, loaded : BOOLEAN, loading : BOOLEAN]
Views == [results : [Steps -> Status], busy : BOOLEAN, killed : BOOLEAN, cursor : 0 .. 2]
Statements == [step : Steps, generation : Nat, asked : BOOLEAN]
Requests == {"step", "kill", "load"}
Updates == [kind : {"update"}, step : Steps, status : Status, stale : BOOLEAN]
Kills == [kind : {"killed"}, stale : BOOLEAN]
StepAnswers == [kind : {"answer"}, step : Steps, status : Status, stale : BOOLEAN]
ViewAnswers == [kind : {"view"}, view : Views, stale : BOOLEAN]
Errors == [kind : {"error"}, of : Requests, stale : BOOLEAN]
Letters == Updates \cup Kills \cup StepAnswers \cup ViewAnswers \cup Errors
Mirrors == [loaded : BOOLEAN, view : Views, busy : BOOLEAN, astray : BOOLEAN]

PageTypes ==
  /\ script \in Scripts /\ running \subseteq Statements /\ asks \in Seq(Requests)
  /\ post \in Seq(Letters) /\ mirror \in Mirrors

(* A statement under way for the script that is there: its result waits.   *)
RunningWait ==
  /\ \A s \in running : /\ s.generation <= script.generation
                        /\ Current(s) => s.step <= script.cursor /\ script.results[s.step] = "WAITING"
  /\ \A s, t \in running : s.generation = t.generation /\ s.step = t.step => s = t

(* What the tab shows: the result of each step, busy and killed.           *)
BusyFlag == 0
KilledFlag == 3
Shown == 0 .. 3
Tells(m, a) ==
  \/ m.kind = "view"
  \/ m.kind \in {"answer", "update"} /\ (a = m.step \/ a = BusyFlag)
  \/ m.kind = "killed" /\ a \in {BusyFlag, KilledFlag}
SameIn(v, w, a) ==
  /\ a \in Steps => v.results[a] = w.results[a]
  /\ a = BusyFlag => (v.busy <=> w.busy)
  /\ a = KilledFlag => (v.killed <=> w.killed)
Right(m, a, w) ==
  /\ m.kind = "view" => SameIn(m.view, w, a)
  /\ m.kind = "killed" => (a = BusyFlag => ~w.busy) /\ (a = KilledFlag => w.killed)
  /\ m.kind \in {"answer", "update"} /\ a \in Steps => m.status = w.results[a]
  /\ m.kind = "answer" /\ a = BusyFlag => (m.status = "WAITING" <=> w.busy)
  /\ m.kind = "update" /\ a = BusyFlag => ~w.busy
Telling(a) == {m \in Letters : Tells(m, a)}
Agreeing(a, w) == {m \in Letters : Right(m, a, w)}

(* The last message of p that tells is a right one, or none tells and what *)
(* is shown is right.                                                      *)
Ends(p, telling, right, shown) ==
  \/ \E i \in DOMAIN p : /\ p[i] \in telling /\ p[i] \in right
                         /\ \A j \in DOMAIN p : j > i => p[j] \notin telling
  \/ shown /\ \A j \in DOMAIN p : p[j] \notin telling

(* The tab will not know that what it shows is right.                      *)
Clean(m) == m.kind = "view" /\ ~m.stale
EndsAstray(p, astray) ==
  \/ \E i \in DOMAIN p : p[i].stale /\ \A j \in DOMAIN p : j > i => ~Clean(p[j])
  \/ astray /\ \A j \in DOMAIN p : ~Clean(p[j])
EndsLoaded(p, loaded) == loaded \/ \E i \in DOMAIN p : p[i].kind = "view"

(* What is shown, with all that is on its way, is what the engine has; or  *)
(* the answer to a statement's request, which will tell, is to be sent.    *)
Follows(p, t, asked, w) ==
  \/ EndsAstray(p, t.astray) \/ ~EndsLoaded(p, t.loaded)
  \/ \A a \in Shown : a \in asked \/ Ends(p, Telling(a), Agreeing(a, w), SameIn(t.view, w, a))
StillAsked == {a \in Shown : \E s \in running : s.asked /\ Current(s) /\ (a = s.step \/ a = BusyFlag)}
MirrorFollows == script.loading \/ Follows(post, mirror, StillAsked, script)

StepperPageInv == PageTypes /\ RunningWait /\ MirrorFollows
-----------------------------------------------------------------------------
(* Messages.                                                               *)
LEMMA LetterKinds ==
  ASSUME NEW m \in Letters
  PROVE  /\ m.kind \in {"update", "killed", "answer", "view", "error"} /\ m.stale \in BOOLEAN
         /\ m.kind = "view" => m \in ViewAnswers /\ m.view \in Views
         /\ m.kind \in {"answer", "update"} => m.step \in Steps /\ m.status \in Status
         /\ [m EXCEPT !.stale = TRUE] \in Letters /\ [m EXCEPT !.stale = TRUE].stale
         /\ [m EXCEPT !.stale = TRUE].kind = m.kind
  <1>1. CASE m \in Updates
    BY <1>1 DEF Letters, Updates
  <1>2. CASE m \in Kills
    BY <1>2 DEF Letters, Kills
  <1>3. CASE m \in StepAnswers
    BY <1>3 DEF Letters, StepAnswers
  <1>4. CASE m \in ViewAnswers
    BY <1>4 DEF Letters, ViewAnswers
  <1>5. CASE m \in Errors
    BY <1>5 DEF Letters, Errors
  <1> QED
    BY <1>1, <1>2, <1>3, <1>4, <1>5 DEF Letters

LEMMA ViewTells == \A m \in Letters, a \in Shown : m.kind = "view" => m \in Telling(a)
  BY DEF Telling, Tells

LEMMA SameShown ==
  ASSUME NEW v, NEW w, NEW x, NEW a \in Shown, SameIn(v, w, a)
  PROVE  Agreeing(a, v) = Agreeing(a, w) /\ (SameIn(x, v, a) <=> SameIn(x, w, a))
  <1>1. a \in Steps \/ a = BusyFlag \/ a = KilledFlag
    BY DEF Shown, Steps, BusyFlag, KilledFlag
  <1>2. SameIn(x, v, a) <=> SameIn(x, w, a)
    BY DEF SameIn
  <1>3. ASSUME NEW m \in Letters PROVE Right(m, a, v) <=> Right(m, a, w)
    <2>1. SameIn(m.view, v, a) <=> SameIn(m.view, w, a)
      BY DEF SameIn
    <2> QED
      BY <2>1 DEF Right, SameIn
  <1> QED
    BY <1>2, <1>3 DEF Agreeing
-----------------------------------------------------------------------------
(* What is sent last comes last.                                           *)
LEMMA Appended1 ==
  ASSUME NEW p \in Seq(Letters), NEW m \in Letters
  PROVE  /\ Append(p, m) \in Seq(Letters) /\ DOMAIN Append(p, m) = DOMAIN p \cup {Len(p) + 1}
         /\ Append(p, m)[Len(p) + 1] = m /\ Len(p) + 1 \notin DOMAIN p
         /\ \A i \in DOMAIN p : /\ Append(p, m)[i] = p[i] /\ p[i] \in Letters /\ i \in Nat
                                /\ Len(p) + 1 > i /\ ~(i > Len(p) + 1)
         /\ ~(Len(p) + 1 > Len(p) + 1)
         /\ \E i \in DOMAIN Append(p, m) : TRUE
  OBVIOUS

LEMMA EndsTold ==
  ASSUME NEW p \in Seq(Letters), NEW m \in Letters, NEW telling, NEW right, NEW shown,
         m \in telling, m \in right
  PROVE  Ends(Append(p, m), telling, right, shown)
  <1> DEFINE q == Append(p, m)  n == Len(p) + 1
  <1>1. n \in DOMAIN q /\ q[n] = m /\ \A j \in DOMAIN q : ~(j > n)
    BY Appended1
  <1> HIDE DEF q, n
  <1> QED
    BY <1>1 DEF Ends, q

LEMMA EndsSilent ==
  ASSUME NEW p \in Seq(Letters), NEW m \in Letters, NEW telling, NEW right, NEW shown,
         m \notin telling, Ends(p, telling, right, shown)
  PROVE  Ends(Append(p, m), telling, right, shown)
  <1> DEFINE q == Append(p, m)  n == Len(p) + 1
  <1>1. /\ DOMAIN q = DOMAIN p \cup {n} /\ q[n] = m /\ \A i \in DOMAIN p : q[i] = p[i]
    BY Appended1
  <1> HIDE DEF q, n
  <1>2. CASE \E i \in DOMAIN p : /\ p[i] \in telling /\ p[i] \in right
                                /\ \A j \in DOMAIN p : j > i => p[j] \notin telling
    <2>1. PICK i \in DOMAIN p : /\ p[i] \in telling /\ p[i] \in right
                               /\ \A j \in DOMAIN p : j > i => p[j] \notin telling
      BY <1>2
    <2>2. i \in DOMAIN q /\ q[i] \in telling /\ q[i] \in right
          /\ \A j \in DOMAIN q : j > i => q[j] \notin telling
      BY <1>1, <2>1
    <2> QED
      BY <2>2 DEF Ends, q
  <1>3. CASE shown /\ \A j \in DOMAIN p : p[j] \notin telling
    <2>1. \A j \in DOMAIN q : q[j] \notin telling
      BY <1>1, <1>3
    <2> QED
      BY <1>3, <2>1 DEF Ends, q
  <1> QED
    BY <1>2, <1>3 DEF Ends

(* Whatever went astray is put right by a whole view only, if not stale.   *)
LEMMA StrayStays ==
  ASSUME NEW p \in Seq(Letters), NEW m \in Letters, NEW astray, ~Clean(m)
  PROVE  /\ EndsAstray(p, astray) => EndsAstray(Append(p, m), astray)
         /\ m.stale => EndsAstray(Append(p, m), astray)
  <1> DEFINE q == Append(p, m)  n == Len(p) + 1
  <1>1. /\ DOMAIN q = DOMAIN p \cup {n} /\ q[n] = m /\ \A i \in DOMAIN p : q[i] = p[i] /\ ~(i > n)
        /\ ~(n > n)
    BY Appended1
  <1> HIDE DEF q, n
  <1>2. ASSUME NEW i \in DOMAIN p, p[i].stale, \A j \in DOMAIN p : j > i => ~Clean(p[j])
        PROVE  EndsAstray(q, astray)
    <2>1. i \in DOMAIN q /\ q[i].stale /\ \A j \in DOMAIN q : j > i => ~Clean(q[j])
      BY <1>1, <1>2
    <2> QED
      BY <2>1 DEF EndsAstray
  <1>3. ASSUME astray, \A j \in DOMAIN p : ~Clean(p[j]) PROVE EndsAstray(q, astray)
    <2>1. \A j \in DOMAIN q : ~Clean(q[j])
      BY <1>1, <1>3
    <2> QED
      BY <1>3, <2>1 DEF EndsAstray
  <1>4. ASSUME m.stale PROVE EndsAstray(q, astray)
    <2>1. n \in DOMAIN q /\ q[n].stale /\ \A j \in DOMAIN q : j > n => ~Clean(q[j])
      BY <1>1, <1>4
    <2> QED
      BY <2>1 DEF EndsAstray
  <1>5. EndsAstray(p, astray) => EndsAstray(q, astray)
    BY <1>2, <1>3 DEF EndsAstray
  <1> QED
    BY <1>4, <1>5 DEF q

LEMMA LoadedBefore ==
  ASSUME NEW p \in Seq(Letters), NEW m \in Letters, NEW loaded, m.kind # "view",
         EndsLoaded(Append(p, m), loaded)
  PROVE  EndsLoaded(p, loaded)
  <1> DEFINE q == Append(p, m)  n == Len(p) + 1
  <1>1. /\ DOMAIN q = DOMAIN p \cup {n} /\ q[n] = m /\ \A i \in DOMAIN p : q[i] = p[i]
    BY Appended1
  <1>2. EndsLoaded(q, loaded)
    OBVIOUS
  <1> HIDE DEF q, n
  <1> QED
    BY <1>1, <1>2 DEF EndsLoaded

(* Another message is sent, not a whole view: what it tells is right, or   *)
(* it is stale, and of what it does not tell nothing changes.              *)
LEMMA AppendFollows ==
  ASSUME NEW p \in Seq(Letters), NEW m \in Letters, m.kind # "view", NEW t,
         NEW asked, NEW later, NEW v, NEW w, Follows(p, t, asked, v),
         m.stale \/ \A a \in Shown : IF m \in Telling(a) THEN m \in Agreeing(a, w)
                                    ELSE SameIn(v, w, a) /\ (a \in asked => a \in later)
  PROVE  Follows(Append(p, m), t, later, w)
  <1> SUFFICES ASSUME ~EndsAstray(Append(p, m), t.astray), EndsLoaded(Append(p, m), t.loaded),
                      NEW a \in Shown, a \notin later
               PROVE  Ends(Append(p, m), Telling(a), Agreeing(a, w), SameIn(t.view, w, a))
    BY DEF Follows
  <1>1. ~Clean(m)
    BY DEF Clean
  <1>2. ~EndsAstray(p, t.astray) /\ ~m.stale
    BY <1>1, StrayStays
  <1>3. EndsLoaded(p, t.loaded)
    BY LoadedBefore
  <1>4. CASE m \in Telling(a)
    BY <1>2, <1>4, EndsTold
  <1>5. CASE m \notin Telling(a)
    <2>1. SameIn(v, w, a) /\ a \notin asked
      BY <1>2, <1>5
    <2>2. Ends(p, Telling(a), Agreeing(a, v), SameIn(t.view, v, a))
      BY <1>2, <1>3, <2>1 DEF Follows
    <2>3. Agreeing(a, v) = Agreeing(a, w) /\ (SameIn(t.view, v, a) <=> SameIn(t.view, w, a))
      BY <2>1, SameShown
    <2>4. Ends(p, Telling(a), Agreeing(a, w), SameIn(t.view, w, a))
      BY <2>2, <2>3 DEF Ends
    <2> QED
      BY <1>5, <2>4, EndsSilent
  <1> QED
    BY <1>4, <1>5

LEMMA SameFollows ==
  ASSUME NEW p, NEW t, NEW u, NEW asked, NEW later, NEW v, NEW w, Follows(p, t, asked, v),
         u.astray = t.astray, u.loaded = t.loaded, u.view = t.view,
         \A a \in Shown : a \in later \/ (SameIn(v, w, a) /\ a \notin asked)
  PROVE  Follows(p, u, later, w)
  <1> SUFFICES ASSUME ~EndsAstray(p, u.astray), EndsLoaded(p, u.loaded), NEW a \in Shown, a \notin later
               PROVE  Ends(p, Telling(a), Agreeing(a, w), SameIn(u.view, w, a))
    BY DEF Follows
  <1>1. SameIn(v, w, a) /\ a \notin asked
    OBVIOUS
  <1>2. Ends(p, Telling(a), Agreeing(a, v), SameIn(t.view, v, a))
    BY <1>1 DEF Follows
  <1>3. Agreeing(a, v) = Agreeing(a, w) /\ (SameIn(t.view, v, a) <=> SameIn(t.view, w, a))
    BY <1>1, SameShown
  <1> QED
    BY <1>2, <1>3 DEF Ends

(* A whole view is sent last.                                              *)
LEMMA ViewFollows ==
  ASSUME NEW p \in Seq(Letters), NEW m \in Letters, m.kind = "view", NEW t, NEW asked, NEW w,
         \A a \in Shown : SameIn(m.view, w, a)
  PROVE  Follows(Append(p, m), t, asked, w)
  <1> SUFFICES ASSUME NEW a \in Shown
               PROVE  Ends(Append(p, m), Telling(a), Agreeing(a, w), SameIn(t.view, w, a))
    BY DEF Follows
  <1>1. m \in Telling(a) /\ m \in Agreeing(a, w)
    BY ViewTells DEF Agreeing, Right
  <1> QED
    BY <1>1, EndsTold

(* A push was missed.                                                      *)
LEMMA AgedFacts ==
  ASSUME NEW p \in Seq(Letters)
  PROVE  /\ Aged(p) \in Seq(Letters) /\ Len(Aged(p)) = Len(p) /\ DOMAIN Aged(p) = DOMAIN p
         /\ \A i \in DOMAIN p : /\ Aged(p)[i].stale /\ ~Clean(Aged(p)[i])
                                /\ Aged(p)[i].kind = p[i].kind
  <1>1. \A i \in DOMAIN p : Aged(p)[i] = [p[i] EXCEPT !.stale = TRUE] /\ p[i] \in Letters
    BY DEF Aged
  <1>2. ASSUME NEW i \in DOMAIN p
        PROVE  Aged(p)[i] \in Letters /\ Aged(p)[i].stale /\ Aged(p)[i].kind = p[i].kind
    <2> DEFINE m == p[i]
    <2>1. m \in Letters /\ Aged(p)[i] = [m EXCEPT !.stale = TRUE]
      BY <1>1
    <2> HIDE DEF m
    <2>2. /\ [m EXCEPT !.stale = TRUE] \in Letters /\ [m EXCEPT !.stale = TRUE].stale
          /\ [m EXCEPT !.stale = TRUE].kind = m.kind
      BY <2>1, LetterKinds
    <2>3. Aged(p)[i] \in Letters /\ Aged(p)[i].stale /\ Aged(p)[i].kind = m.kind
      BY <2>1, <2>2
    <2> QED
      BY <2>3 DEF m
  <1>3. DOMAIN Aged(p) = 1 .. Len(p) /\ Len(p) \in Nat /\ DOMAIN p = 1 .. Len(p)
    BY DEF Aged
  <1>4. Aged(p) = [i \in 1 .. Len(p) |-> Aged(p)[i]]
    BY DEF Aged
  <1>5. Aged(p) \in Seq(Letters) /\ Len(Aged(p)) = Len(p)
    <2> DEFINE f == Aged(p)  n == Len(p)
    <2>1. n \in Nat /\ f = [i \in 1 .. n |-> f[i]] /\ \A i \in 1 .. n : f[i] \in Letters
      BY <1>2, <1>3, <1>4
    <2> HIDE DEF f, n
    <2>2. f \in Seq(Letters) /\ Len(f) = n
      BY <2>1
    <2> QED
      BY <2>2 DEF f, n
  <1> QED
    BY <1>2, <1>3, <1>5 DEF Clean

LEMMA LostFollows ==
  ASSUME NEW p \in Seq(Letters), NEW t, t.astray, NEW asked, NEW w
  PROVE  /\ Follows(Aged(p), t, asked, w)
         /\ \A m \in Letters : m.kind # "view" => Follows(Append(Aged(p), m), t, asked, w)
  <1>1. EndsAstray(Aged(p), t.astray)
    BY AgedFacts DEF EndsAstray
  <1>2. ASSUME NEW m \in Letters, m.kind # "view" PROVE EndsAstray(Append(Aged(p), m), t.astray)
    BY <1>1, <1>2, AgedFacts, StrayStays DEF Clean
  <1> QED
    BY <1>1, <1>2 DEF Follows

(* A message arrives, whether it is its turn or not.                       *)
LEMMA HeardFacts ==
  ASSUME NEW m \in Letters, NEW v \in Views, NEW w
  PROVE  /\ HeardView(v, m) \in Views
         /\ \A a \in Shown : m \in Telling(a) /\ m \in Agreeing(a, w) => SameIn(HeardView(v, m), w, a)
         /\ \A a \in Shown : m \notin Telling(a) => SameIn(HeardView(v, m), v, a)
  <1> DEFINE h == HeardView(v, m)
  <1>1. CASE m.kind \in {"answer", "update"}
    <2> DEFINE k == m.step  status == m.status
               waits == (m.kind = "answer" /\ status = "WAITING")
    <2>1. k \in Steps /\ status \in Status
      BY <1>1, LetterKinds
    <2>2. h = WithResult(v, k, status, waits)
      <3>1. CASE m.kind = "answer"
        <4>1. waits <=> status = "WAITING"
          BY <3>1
        <4>2. h = WithResult(v, k, status, status = "WAITING")
          BY <3>1 DEF HeardView
        <4>3. waits = (status = "WAITING")
          BY <4>1
        <4> QED
          BY <4>2, <4>3
      <3>2. CASE m.kind = "update"
        <4>1. h = WithResult(v, k, status, FALSE)
          BY <3>2 DEF HeardView
        <4>2. waits = FALSE
          BY <3>2
        <4> QED
          BY <4>1, <4>2
      <3> QED
        BY <1>1, <3>1, <3>2
    <2>3. waits \in BOOLEAN
      OBVIOUS
    <2>4. waits <=> m.kind = "answer" /\ m.status = "WAITING"
      OBVIOUS
    <2> HIDE DEF h, k, status, waits
    <2>5. /\ h \in Views /\ h.results = [v.results EXCEPT ![k] = status] /\ h.busy = waits
          /\ h.killed = v.killed
      BY <2>1, <2>2, <2>3 DEF WithResult, Views
    <2>6. v.results \in [Steps -> Status]
      BY DEF Views
    <2>7. \A a \in Shown : m \in Telling(a) <=> a = k \/ a = BusyFlag
      BY <1>1 DEF Telling, Tells, k
    <2>8. /\ \A a \in Steps : h.results[a] = IF a = k THEN status ELSE v.results[a]
          /\ BusyFlag \notin Steps /\ KilledFlag \notin Steps /\ BusyFlag # KilledFlag
      BY <2>5, <2>6 DEF BusyFlag, KilledFlag, Steps
    <2>9. ASSUME NEW a \in Shown, m \in Telling(a), m \in Agreeing(a, w) PROVE SameIn(h, w, a)
      <3>1. Right(m, a, w)
        BY <2>9 DEF Agreeing
      <3>2. CASE a = k
        BY <1>1, <2>1, <2>8, <3>1, <3>2 DEF SameIn, Right, k, status
      <3>3. CASE a = BusyFlag
        BY <1>1, <2>4, <2>5, <2>8, <3>1, <3>3 DEF SameIn, Right
      <3> QED
        BY <2>7, <2>9, <3>2, <3>3
    <2>10. ASSUME NEW a \in Shown, m \notin Telling(a) PROVE SameIn(h, v, a)
      BY <2>5, <2>7, <2>8, <2>10 DEF SameIn
    <2> QED
      BY <2>5, <2>9, <2>10 DEF h
  <1>2. CASE m.kind = "killed"
    <2>1. h = [v EXCEPT !.killed = TRUE, !.busy = FALSE]
      BY <1>2 DEF HeardView
    <2> HIDE DEF h
    <2>2. h \in Views /\ h.results = v.results /\ h.killed /\ ~h.busy
      BY <2>1 DEF Views
    <2>3. \A a \in Shown : m \in Telling(a) <=> a \in {BusyFlag, KilledFlag}
      BY <1>2 DEF Telling, Tells
    <2>4. BusyFlag \notin Steps /\ KilledFlag \notin Steps /\ BusyFlag # KilledFlag
      BY DEF BusyFlag, KilledFlag, Steps
    <2>5. ASSUME NEW a \in Shown, m \in Telling(a), m \in Agreeing(a, w) PROVE SameIn(h, w, a)
      BY <1>2, <2>2, <2>3, <2>4, <2>5 DEF SameIn, Right, Agreeing
    <2>6. ASSUME NEW a \in Shown, m \notin Telling(a) PROVE SameIn(h, v, a)
      BY <2>2, <2>3, <2>6 DEF SameIn
    <2> QED
      BY <2>2, <2>5, <2>6 DEF h
  <1>3. CASE m.kind = "view"
    <2>1. h = m.view /\ m.view \in Views
      BY <1>3, LetterKinds DEF HeardView
    <2> QED
      BY <1>3, <2>1, ViewTells DEF Agreeing, Right
  <1>4. CASE m.kind = "error"
    <2>1. h = v
      BY <1>4 DEF HeardView
    <2> QED
      BY <1>4, <2>1 DEF Telling, Tells, SameIn
  <1> QED
    BY <1>1, <1>2, <1>3, <1>4, LetterKinds

LEMMA LeftOver ==
  ASSUME NEW p \in Seq(Letters), NEW k \in DOMAIN p
  PROVE  LET q == Aged(SubSeq(p, 1, k - 1)) \o SubSeq(p, k + 1, Len(p)) IN
         /\ q \in Seq(Letters) /\ DOMAIN q = 1 .. Len(p) - 1
         /\ \A j \in 1 .. Len(p) - 1 :
              IF j < k THEN q[j].stale /\ ~Clean(q[j]) /\ q[j].kind = p[j].kind
              ELSE q[j] = p[j + 1]
  <1> DEFINE b == SubSeq(p, 1, k - 1)  before == Aged(b)  after == SubSeq(p, k + 1, Len(p))
             q == before \o after
  <1>1. k \in 1 .. Len(p) /\ Len(p) \in Nat
    OBVIOUS
  <1>2. b \in Seq(Letters) /\ Len(b) = k - 1 /\ \A j \in 1 .. k - 1 : b[j] = p[j]
    BY <1>1
  <1>3. after \in Seq(Letters) /\ Len(after) = Len(p) - k /\ \A j \in 1 .. Len(p) - k : after[j] = p[j + k]
    BY <1>1
  <1> HIDE DEF b
  <1>4. /\ before \in Seq(Letters) /\ Len(before) = k - 1
        /\ \A j \in 1 .. k - 1 : /\ before[j].stale /\ ~Clean(before[j])
                                  /\ before[j].kind = b[j].kind
    <2>1. DOMAIN b = 1 .. k - 1
      BY <1>1, <1>2
    <2> QED
      BY <1>2, <2>1, AgedFacts
  <1> HIDE DEF before, after
  <1>5. q \in Seq(Letters) /\ Len(q) = Len(p) - 1
        /\ \A j \in 1 .. Len(p) - 1 : q[j] = IF j < k THEN before[j] ELSE after[j - (k - 1)]
    <2>1. q \in Seq(Letters) /\ Len(q) = Len(before) + Len(after)
          /\ \A j \in 1 .. Len(before) + Len(after) :
                q[j] = IF j <= Len(before) THEN before[j] ELSE after[j - Len(before)]
      BY <1>3, <1>4, ConcatProperties
    <2> HIDE DEF q
    <2>2. Len(before) + Len(after) = Len(p) - 1 /\ Len(before) = k - 1
          /\ \A j \in 1 .. Len(p) - 1 : j <= k - 1 <=> j < k
      BY <1>1, <1>3, <1>4
    <2> QED
      BY <2>1, <2>2
  <1> HIDE DEF q
  <1>6. DOMAIN q = 1 .. Len(p) - 1
    BY <1>5
  <1>7. ASSUME NEW j \in 1 .. Len(p) - 1
        PROVE  IF j < k THEN q[j].stale /\ ~Clean(q[j]) /\ q[j].kind = p[j].kind ELSE q[j] = p[j + 1]
    <2>1. CASE j < k
      <3>1. j \in 1 .. k - 1 /\ q[j] = before[j]
        BY <1>1, <1>5, <2>1
      <3> QED
        BY <1>2, <1>4, <2>1, <3>1
    <2>2. CASE ~(j < k)
      <3>1. j - (k - 1) \in 1 .. Len(p) - k /\ (j - (k - 1)) + k = j + 1
        BY <1>1, <2>2
      <3>2. q[j] = after[j - (k - 1)]
        BY <1>5, <2>2
      <3> QED
        BY <1>3, <2>2, <3>1, <3>2
    <2> QED
      BY <2>1, <2>2
  <1> QED
    BY <1>5, <1>6, <1>7 DEF q, before, after, b

LEMMA HearFollows ==
  ASSUME NEW p \in Seq(Letters), NEW k \in DOMAIN p, NEW t, NEW u, NEW asked, NEW w,
         t.view \in Views, t.astray \in BOOLEAN, t.loaded \in BOOLEAN,
         u.loaded <=> (t.loaded \/ p[k].kind = "view"),
         u.view = IF u.loaded THEN HeardView(t.view, p[k]) ELSE t.view,
         u.astray <=> (p[k].stale \/ (t.astray /\ p[k].kind # "view")),
         Follows(p, t, asked, w)
  PROVE  Follows(Aged(SubSeq(p, 1, k - 1)) \o SubSeq(p, k + 1, Len(p)), u, asked, w)
  <1> DEFINE q == Aged(SubSeq(p, 1, k - 1)) \o SubSeq(p, k + 1, Len(p))
             m == p[k]
  <1>1. /\ DOMAIN q = 1 .. Len(p) - 1
        /\ \A j \in 1 .. Len(p) - 1 :
              IF j < k THEN q[j].stale /\ ~Clean(q[j]) /\ q[j].kind = p[j].kind
              ELSE q[j] = p[j + 1]
    BY LeftOver
  <1>2. k \in 1 .. Len(p) /\ DOMAIN p = 1 .. Len(p) /\ Len(p) \in Nat /\ m \in Letters
        /\ m.kind \in {"update", "killed", "answer", "view", "error"} /\ m.stale \in BOOLEAN
    <2>1. k \in 1 .. Len(p) /\ DOMAIN p = 1 .. Len(p) /\ Len(p) \in Nat /\ m \in Letters
      OBVIOUS
    <2> HIDE DEF m
    <2> QED
      BY <2>1, LetterKinds
  <1>3. u.astray <=> (m.stale \/ (t.astray /\ m.kind # "view"))
    OBVIOUS
  <1>4. u.loaded <=> (t.loaded \/ m.kind = "view")
    OBVIOUS
  <1>5. u.view = IF u.loaded THEN HeardView(t.view, m) ELSE t.view
    OBVIOUS
  <1> HIDE DEF q, m
  <1>6. \A j \in DOMAIN p : j > k => j - 1 \in DOMAIN q /\ q[j - 1] = p[j]
    <2> TAKE j \in DOMAIN p
    <2> HAVE j > k
    <2>1. j - 1 \in 1 .. Len(p) - 1 /\ ~(j - 1 < k) /\ (j - 1) + 1 = j
      BY <1>2
    <2> QED
      BY <1>1, <2>1
  <1>7. \A j \in DOMAIN q : IF j < k THEN q[j].stale /\ ~Clean(q[j]) /\ j \in DOMAIN p /\ q[j].kind = p[j].kind
                            ELSE j + 1 \in DOMAIN p /\ j + 1 > k /\ q[j] = p[j + 1]
    BY <1>1, <1>2
  <1>8. \A i, j \in DOMAIN p : i \in Int /\ j \in Int
    BY <1>2
  <1>9. ASSUME EndsAstray(p, t.astray) PROVE EndsAstray(q, u.astray)
    <2>1. ASSUME NEW i \in DOMAIN p, p[i].stale, \A j \in DOMAIN p : j > i => ~Clean(p[j])
          PROVE  EndsAstray(q, u.astray)
      <3>1. CASE i < k
        <4>1. i \in DOMAIN q /\ q[i].stale
          BY <1>1, <1>2, <3>1
        <4>2. \A j \in DOMAIN q : j > i => ~Clean(q[j])
          <5> TAKE j \in DOMAIN q
          <5> HAVE j > i
          <5>1. j >= k => j + 1 > i /\ j + 1 \in DOMAIN p /\ q[j] = p[j + 1]
            BY <1>1, <1>2, <1>7
          <5> QED
            BY <1>1, <1>7, <2>1, <5>1, <1>2
        <4> QED
          BY <4>1, <4>2 DEF EndsAstray
      <3>2. CASE i = k
        <4>1. u.astray
          BY <1>3, <2>1, <3>2 DEF m
        <4>2. \A j \in DOMAIN q : ~Clean(q[j])
          BY <1>7, <2>1, <3>2
        <4> QED
          BY <4>1, <4>2 DEF EndsAstray
      <3>3. CASE i > k
        <4>1. i - 1 \in DOMAIN q /\ q[i - 1].stale
          BY <1>6, <2>1, <3>3
        <4>2. \A j \in DOMAIN q : j > i - 1 => ~Clean(q[j])
          <5> TAKE j \in DOMAIN q
          <5> HAVE j > i - 1
          <5>1. ~(j < k) /\ j + 1 > i
            BY <1>1, <1>2, <3>3
          <5> QED
            BY <1>7, <2>1, <5>1
        <4> QED
          BY <4>1, <4>2 DEF EndsAstray
      <3> QED
        BY <1>2, <1>8, <3>1, <3>2, <3>3
    <2>2. ASSUME t.astray, \A j \in DOMAIN p : ~Clean(p[j]) PROVE EndsAstray(q, u.astray)
      <3>1. ~Clean(m)
        BY <2>2 DEF m
      <3>2. u.astray
        BY <1>3, <2>2, <3>1 DEF Clean
      <3>3. \A j \in DOMAIN q : ~Clean(q[j])
        BY <1>7, <2>2
      <3> QED
        BY <3>2, <3>3 DEF EndsAstray
    <2> QED
      BY <1>9, <2>1, <2>2 DEF EndsAstray
  <1>10. ASSUME EndsLoaded(q, u.loaded) PROVE EndsLoaded(p, t.loaded)
    <2>1. ASSUME NEW j \in DOMAIN q, q[j].kind = "view" PROVE \E i \in DOMAIN p : p[i].kind = "view"
      BY <1>7, <2>1
    <2>2. CASE u.loaded
      BY <1>2, <1>4, <2>2 DEF EndsLoaded, m
    <2> QED
      BY <1>10, <2>1, <2>2 DEF EndsLoaded
  <1> SUFFICES ASSUME ~EndsAstray(q, u.astray), EndsLoaded(q, u.loaded), NEW a \in Shown, a \notin asked
               PROVE  Ends(q, Telling(a), Agreeing(a, w), SameIn(u.view, w, a))
    BY DEF Follows, q
  <1> DEFINE tell == Telling(a)  right == Agreeing(a, w)
  <1>11. Ends(p, tell, right, SameIn(t.view, w, a))
    BY <1>9, <1>10 DEF Follows
  <1>12. \A x \in Letters : x.kind = "view" => x \in tell
    BY ViewTells
  <1>13. (m \in tell /\ m \in right => SameIn(HeardView(t.view, m), w, a))
         /\ (m \notin tell /\ SameIn(t.view, w, a) => SameIn(HeardView(t.view, m), w, a))
    <2>1. m \notin tell => SameIn(HeardView(t.view, m), t.view, a)
      BY <1>2, HeardFacts
    <2>2. m \in tell /\ m \in right => SameIn(HeardView(t.view, m), w, a)
      BY <1>2, HeardFacts
    <2>3. SameIn(HeardView(t.view, m), t.view, a) /\ SameIn(t.view, w, a) => SameIn(HeardView(t.view, m), w, a)
      BY DEF SameIn
    <2> QED
      BY <2>1, <2>2, <2>3
  <1> HIDE DEF tell, right
  <1>14. ASSUME NEW i \in DOMAIN p, i > k, p[i] \in tell, p[i] \in right,
                \A j \in DOMAIN p : j > i => p[j] \notin tell
         PROVE  Ends(q, tell, right, SameIn(u.view, w, a))
    <2>1. i - 1 \in DOMAIN q /\ q[i - 1] = p[i]
      BY <1>6, <1>14
    <2>2. \A j \in DOMAIN q : j > i - 1 => q[j] \notin tell
      <3> TAKE j \in DOMAIN q
      <3> HAVE j > i - 1
      <3>1. ~(j < k) /\ j + 1 > i
        BY <1>1, <1>2, <1>14
      <3> QED
        BY <1>7, <1>14, <3>1
    <2> QED
      BY <1>14, <2>1, <2>2 DEF Ends
  <1>15. CASE \E j \in DOMAIN p : j > k /\ p[j].kind = "view"
    <2>1. PICK v \in DOMAIN p : v > k /\ p[v] \in tell
      BY <1>12, <1>15
    <2>2. PICK i \in DOMAIN p : p[i] \in tell /\ p[i] \in right /\ \A j \in DOMAIN p : j > i => p[j] \notin tell
      BY <1>11, <2>1 DEF Ends
    <2>3. ~(v > i)
      BY <2>1, <2>2
    <2>4. i > k
      BY <1>2, <1>8, <2>1, <2>3
    <2> QED
      BY <1>14, <2>2, <2>4 DEF tell, right
  <1>16. CASE \A j \in DOMAIN p : j > k => p[j].kind # "view"
    <2>1. \A j \in DOMAIN q : ~Clean(q[j])
      BY <1>7, <1>16 DEF Clean
    <2>2. k = 1
      <3>1. ASSUME k > 1 PROVE FALSE
        <4>1. 1 \in DOMAIN q /\ q[1].stale
          BY <1>1, <1>2, <3>1
        <4> QED
          BY <2>1, <4>1 DEF EndsAstray
      <3> QED
        BY <1>2, <3>1
    <2>3. \A j \in DOMAIN q : j + 1 \in DOMAIN p /\ j + 1 > k /\ q[j] = p[j + 1]
      BY <1>1, <1>7, <2>2
    <2>4. u.loaded
      BY <1>16, <2>3 DEF EndsLoaded
    <2>5. u.view = HeardView(t.view, m)
      BY <1>5, <2>4
    <2>6. CASE \E i \in DOMAIN p : /\ p[i] \in tell /\ p[i] \in right
                                  /\ \A j \in DOMAIN p : j > i => p[j] \notin tell
      <3>1. PICK i \in DOMAIN p : /\ p[i] \in tell /\ p[i] \in right
                                 /\ \A j \in DOMAIN p : j > i => p[j] \notin tell
        BY <2>6
      <3>2. CASE i > k
        BY <1>14, <3>1, <3>2 DEF tell, right
      <3>3. CASE i = k
        <4>1. SameIn(u.view, w, a)
          BY <1>13, <2>5, <3>1, <3>3 DEF m
        <4>2. \A j \in DOMAIN q : q[j] \notin tell
          BY <2>3, <3>1, <3>3
        <4> QED
          BY <4>1, <4>2 DEF Ends, tell, right
      <3> QED
        BY <1>2, <2>2, <3>2, <3>3
    <2>7. CASE SameIn(t.view, w, a) /\ \A j \in DOMAIN p : p[j] \notin tell
      <3>1. SameIn(u.view, w, a)
        BY <1>13, <2>5, <2>7 DEF m
      <3>2. \A j \in DOMAIN q : q[j] \notin tell
        BY <2>3, <2>7
      <3> QED
        BY <3>1, <3>2 DEF Ends, tell, right
    <2> QED
      BY <1>11, <2>6, <2>7 DEF Ends
  <1> QED
    BY <1>15, <1>16
-----------------------------------------------------------------------------
(* The steps.                                                              *)
LEMMA LettersSent ==
  /\ \A k \in Steps, st \in Status : UpdateOf(k, st) \in Letters /\ UpdateOf(k, st).kind = "update"
       /\ UpdateOf(k, st).step = k /\ UpdateOf(k, st).status = st /\ ~UpdateOf(k, st).stale
  /\ KilledUpdate \in Letters /\ KilledUpdate.kind = "killed"
  /\ \A k \in Steps, st \in Status, x \in BOOLEAN :
       /\ StepAnswer(k, st, x) \in Letters /\ StepAnswer(k, st, x).kind = "answer"
       /\ StepAnswer(k, st, x).step = k /\ StepAnswer(k, st, x).status = st
       /\ StepAnswer(k, st, x).stale = x
  /\ \A r \in Requests, x \in BOOLEAN :
       /\ ErrorAnswer(r, x) \in Letters /\ ErrorAnswer(r, x).kind = "error" /\ ErrorAnswer(r, x).stale = x
  <1>1. ASSUME NEW k \in Steps, NEW st \in Status
        PROVE  /\ UpdateOf(k, st) \in Letters /\ UpdateOf(k, st).kind = "update"
               /\ UpdateOf(k, st).step = k /\ UpdateOf(k, st).status = st /\ ~UpdateOf(k, st).stale
    BY DEF UpdateOf, Letters, Updates
  <1>2. KilledUpdate \in Letters /\ KilledUpdate.kind = "killed"
    BY DEF KilledUpdate, Letters, Kills
  <1>3. ASSUME NEW k \in Steps, NEW st \in Status, NEW x \in BOOLEAN
        PROVE  /\ StepAnswer(k, st, x) \in Letters /\ StepAnswer(k, st, x).kind = "answer"
               /\ StepAnswer(k, st, x).step = k /\ StepAnswer(k, st, x).status = st
               /\ StepAnswer(k, st, x).stale = x
    BY DEF StepAnswer, Letters, StepAnswers
  <1>4. ASSUME NEW r \in Requests, NEW x \in BOOLEAN
        PROVE  /\ ErrorAnswer(r, x) \in Letters /\ ErrorAnswer(r, x).kind = "error"
               /\ ErrorAnswer(r, x).stale = x
    BY DEF ErrorAnswer, Letters, Errors
  <1> QED
    BY <1>1, <1>2, <1>3, <1>4

LEMMA ViewSent ==
  ASSUME NEW x \in Scripts
  PROVE  /\ ViewAnswer(x) \in Letters /\ ViewAnswer(x).kind = "view"
         /\ \A a \in Shown : SameIn(ViewAnswer(x).view, x, a)
  <1>1. ViewOf(x) \in Views /\ ViewOf(x).results = x.results /\ ViewOf(x).busy = x.busy
        /\ ViewOf(x).killed = x.killed
    BY DEF ViewOf, Views, Scripts
  <1> DEFINE v == ViewOf(x)
  <1>2. ViewAnswer(x) = [kind |-> "view", view |-> v, stale |-> FALSE]
    BY DEF ViewAnswer
  <1>3. v \in Views /\ \A a \in Shown : SameIn(v, x, a)
    BY <1>1 DEF SameIn
  <1> HIDE DEF v
  <1>4. ViewAnswer(x) \in ViewAnswers /\ ViewAnswer(x).kind = "view" /\ ViewAnswer(x).view = v
    BY <1>2, <1>3 DEF ViewAnswers
  <1> QED
    BY <1>3, <1>4 DEF Letters

LEMMA InitStepperPage == StepperInit => StepperPageInv
  <1> SUFFICES ASSUME StepperInit PROVE StepperPageInv
    OBVIOUS
  <1>1. AllPending \in [Steps -> Status]
    BY DEF AllPending, Status
  <1>2. script \in Scripts
    BY <1>1 DEF StepperInit, Scripts
  <1>3. Unstarted \in Views /\ Unstarted.results = AllPending /\ ~Unstarted.busy /\ ~Unstarted.killed
    BY <1>1 DEF Unstarted, Views
  <1>4. mirror \in Mirrors /\ ~mirror.loaded
    BY <1>3 DEF StepperInit, Mirrors
  <1>5. PageTypes
    BY <1>2, <1>4 DEF StepperInit, PageTypes
  <1>6. RunningWait
    BY DEF StepperInit, RunningWait
  <1>7. ~EndsLoaded(post, mirror.loaded)
    BY <1>4 DEF EndsLoaded, StepperInit
  <1> QED
    BY <1>5, <1>6, <1>7 DEF StepperPageInv, MirrorFollows, Follows

LEMMA UnsentStep ==
  ASSUME StepperPageInv, UNCHANGED <<script, running, post>>, asks' \in Seq(Requests), mirror' \in Mirrors,
         mirror'.view = mirror.view, mirror'.loaded = mirror.loaded, mirror'.astray = mirror.astray
  PROVE  StepperPageInv'
  <1>1. PageTypes'
    BY DEF StepperPageInv, PageTypes
  <1>2. RunningWait'
    BY DEF StepperPageInv, RunningWait, Current
  <1>3. StillAsked' = StillAsked
    BY DEF StillAsked, Current
  <1>4. ASSUME Follows(post, mirror, StillAsked, script) PROVE Follows(post, mirror', StillAsked, script)
    <2>1. \A a \in Shown : a \in StillAsked \/ (SameIn(script, script, a) /\ a \notin StillAsked)
      BY DEF SameIn
    <2> QED
      BY <1>4, <2>1, SameFollows
  <1>5. MirrorFollows'
    BY <1>3, <1>4 DEF StepperPageInv, MirrorFollows
  <1> QED
    BY <1>1, <1>2, <1>5 DEF StepperPageInv

LEMMA PressStepper == StepperPageInv /\ (PressStep \/ PressKill \/ PressLoad) => StepperPageInv'
  <1> SUFFICES ASSUME StepperPageInv, PressStep \/ PressKill \/ PressLoad PROVE StepperPageInv'
    OBVIOUS
  <1>1. \E r \in Requests : AskFor(r)
    BY DEF PressStep, PressKill, PressLoad, Requests
  <1>2. UNCHANGED <<script, running, post>> /\ asks' \in Seq(Requests)
    BY <1>1 DEF AskFor, StepperPageInv, PageTypes
  <1>3. mirror \in Mirrors /\ (mirror' = mirror \/ mirror' = [mirror EXCEPT !.busy = TRUE])
    BY DEF PressStep, PressKill, PressLoad, StepperPageInv, PageTypes
  <1>4. /\ mirror' \in Mirrors /\ mirror'.view = mirror.view /\ mirror'.loaded = mirror.loaded
        /\ mirror'.astray = mirror.astray
    BY <1>3 DEF Mirrors
  <1> QED
    BY <1>2, <1>4, UnsentStep

LEMMA TakenFacts ==
  ASSUME StepperPageInv, RequestTaken
  PROVE  NextRequest \in Requests /\ asks' \in Seq(Requests) /\ ~script.loading
  BY DEF RequestTaken, NextRequest, StepperPageInv, PageTypes

LEMMA RefuseStepper == StepperPageInv /\ RefuseRequest => StepperPageInv'
  <1> SUFFICES ASSUME StepperPageInv, RefuseRequest PROVE StepperPageInv'
    OBVIOUS
  <1> DEFINE m == ErrorAnswer(NextRequest, FALSE)
  <1>1. NextRequest \in Requests /\ asks' \in Seq(Requests) /\ ~script.loading
    BY TakenFacts DEF RefuseRequest
  <1>2. post' = Append(post, m) /\ UNCHANGED <<script, running, mirror>> /\ post \in Seq(Letters)
    BY DEF RefuseRequest, SendTab, StepperPageInv, PageTypes
  <1>3. m \in Letters /\ m.kind = "error"
    BY <1>1, LettersSent
  <1> HIDE DEF m
  <1>4. StillAsked' = StillAsked
    BY <1>2 DEF StillAsked, Current
  <1>5. \A a \in Shown : m \notin Telling(a) /\ SameIn(script, script, a)
    BY <1>3 DEF Telling, Tells, SameIn
  <1>6. Follows(post, mirror, StillAsked, script)
    BY <1>1 DEF StepperPageInv, MirrorFollows
  <1>7. Follows(post', mirror, StillAsked, script)
    BY <1>2, <1>3, <1>5, <1>6, AppendFollows
  <1>8. PageTypes'
    BY <1>1, <1>2, <1>3 DEF StepperPageInv, PageTypes
  <1>9. RunningWait'
    BY <1>2 DEF StepperPageInv, RunningWait, Current
  <1> QED
    BY <1>2, <1>4, <1>7, <1>8, <1>9 DEF StepperPageInv, MirrorFollows

LEMMA ScriptLength == \A r \in [Steps -> Status] : Len(r) = 2
  <1> SUFFICES ASSUME NEW r \in [1 .. 2 -> Status] PROVE Len(r) = 2
    BY DEF Steps
  <1> QED
    BY LenProperties, SeqDef

LEMMA ScriptFields ==
  ASSUME StepperPageInv
  PROVE  /\ script \in Scripts /\ script.results \in [Steps -> Status] /\ script.busy \in BOOLEAN
         /\ script.killed \in BOOLEAN /\ script.cursor \in 0 .. 2 /\ script.generation \in Nat
         /\ script.loaded \in BOOLEAN /\ script.loading \in BOOLEAN
         /\ Len(script.results) = 2
  BY ScriptLength DEF StepperPageInv, PageTypes, Scripts

LEMMA TakeStepStepper == StepperPageInv /\ TakeStep => StepperPageInv'
  <1> SUFFICES ASSUME StepperPageInv, TakeStep PROVE StepperPageInv'
    OBVIOUS
  <1> DEFINE k == script.cursor + 1
             b == TRUE
             st == "WAITING"
             s == [step |-> k, generation |-> script.generation, asked |-> TRUE]
  <1>1. /\ script' = [script EXCEPT !.cursor = k, !.busy = b, !.results[k] = st]
        /\ running' = running \cup {s} /\ UNCHANGED <<post, mirror>>
        /\ NextRequest = "step" /\ ~Refusable /\ RequestTaken
    BY DEF TakeStep
  <1>2. /\ script \in Scripts /\ script.results \in [Steps -> Status] /\ script.cursor \in 0 .. 2
        /\ script.generation \in Nat /\ Len(script.results) = 2
    BY ScriptFields
  <1>3. k \in Steps /\ k \in 0 .. 2 /\ st \in Status /\ b \in BOOLEAN
    BY <1>1, <1>2 DEF Refusable, Steps, Status
  <1>4. asks' \in Seq(Requests) /\ ~script.loading
    BY <1>1, TakenFacts
  <1>5. s \in Statements /\ s.step = k /\ s.generation = script.generation /\ s.asked
    BY <1>2, <1>3 DEF Statements
  <1>6. st = "WAITING" /\ b = TRUE /\ k = script.cursor + 1
    OBVIOUS
  <1> HIDE DEF k, b, st, s
  <1>7. /\ script' \in Scripts /\ script'.results = [script.results EXCEPT ![k] = st]
        /\ script'.busy = b /\ script'.cursor = k /\ script'.killed = script.killed
        /\ script'.generation = script.generation /\ script'.loading = script.loading
    BY <1>1, <1>2, <1>3 DEF Scripts
  <1>8. \A j \in Steps : script'.results[j] = IF j = k THEN st ELSE script.results[j]
    BY <1>2, <1>3, <1>7
  <1>9. PageTypes'
    BY <1>1, <1>4, <1>5, <1>7 DEF StepperPageInv, PageTypes
  <1>10. running \subseteq Statements /\ \A r \in running : r.step \in Steps /\ r.generation \in Nat
    BY DEF StepperPageInv, PageTypes, Statements
  <1>11. \A r \in running : r.generation = script.generation => r.step < k
    BY <1>2, <1>6, <1>10 DEF StepperPageInv, RunningWait, Current, Steps
  <1>12. RunningWait'
    <2>1. ASSUME NEW r \in running'
          PROVE  /\ r.generation <= script'.generation
                 /\ r.generation = script'.generation => r.step <= script'.cursor /\ script'.results[r.step] = "WAITING"
      <3>1. CASE r = s
        BY <1>2, <1>3, <1>5, <1>6, <1>7, <1>8, <3>1 DEF Steps
      <3>2. CASE r \in running
        <4>1. r.generation <= script.generation /\ r.step \in Steps
              /\ (r.generation = script.generation => script.results[r.step] = "WAITING")
          BY <1>10, <3>2 DEF StepperPageInv, RunningWait, Current
        <4>2. r.generation = script.generation => r.step <= k
          BY <1>3, <1>10, <1>11, <3>2 DEF Steps
        <4> QED
          BY <1>6, <1>7, <1>8, <4>1, <4>2
      <3> QED
        BY <1>1, <3>1, <3>2
    <2>2. ASSUME NEW r \in running', NEW t \in running', r.generation = t.generation, r.step = t.step PROVE r = t
      <3>1. \A x \in running : ~(x.generation = s.generation /\ x.step = s.step)
        BY <1>3, <1>5, <1>10, <1>11 DEF Steps
      <3> QED
        BY <1>1, <2>2, <3>1 DEF StepperPageInv, RunningWait
    <2> QED
      BY <2>1, <2>2 DEF RunningWait, Current
  <1>13. MirrorFollows'
    <2>1. Follows(post, mirror, StillAsked, script)
      BY <1>4 DEF StepperPageInv, MirrorFollows
    <2>2. \A a \in Shown : a \in StillAsked => a \in StillAsked'
      BY <1>1, <1>7 DEF StillAsked, Current
    <2>3. \A a \in Shown : a = k \/ a = BusyFlag => a \in StillAsked'
      <3>1. s \in running' /\ s.asked /\ s.generation = script'.generation /\ s.step = k
        BY <1>1, <1>5, <1>7
      <3> QED
        BY <3>1 DEF StillAsked, Current
    <2>4. \A a \in Shown : a # k /\ a # BusyFlag => SameIn(script, script', a)
      BY <1>7, <1>8 DEF SameIn
    <2>5. \A a \in Shown : a \in StillAsked' \/ (SameIn(script, script', a) /\ a \notin StillAsked)
      BY <2>2, <2>3, <2>4
    <2>6. Follows(post, mirror, StillAsked', script')
      BY <2>1, <2>5, SameFollows
    <2> QED
      BY <1>1, <2>6 DEF MirrorFollows
  <1> QED
    BY <1>9, <1>12, <1>13 DEF StepperPageInv

LEMMA AnswerWaitingStepper ==
  ASSUME StepperPageInv, NEW s \in running, AnswerWaiting(s)
  PROVE  StepperPageInv'
  <1> DEFINE st == script.results[s.step]
             x == ~(Current(s) /\ script.busy)
             m == StepAnswer(s.step, st, x)
             r == [s EXCEPT !.asked = FALSE]
  <1>1. /\ running' = (running \ {s}) \cup {r} /\ post' = Append(post, m)
        /\ UNCHANGED <<script, asks, mirror>> /\ s.asked
    BY DEF AnswerWaiting, SendTab
  <1>2. s \in Statements /\ s.step \in Steps /\ s.generation \in Nat /\ running \subseteq Statements
    BY DEF StepperPageInv, PageTypes, Statements
  <1>3. script \in Scripts /\ script.results \in [Steps -> Status] /\ script.busy \in BOOLEAN
    BY ScriptFields
  <1>4. r \in Statements /\ r.step = s.step /\ r.generation = s.generation /\ ~r.asked
    BY <1>2 DEF Statements
  <1>5. /\ m \in Letters /\ m.kind = "answer" /\ m.step = s.step /\ m.status = st /\ m.stale = x
    <2>1. st \in Status /\ x \in BOOLEAN
      BY <1>2, <1>3
    <2> HIDE DEF x, st
    <2> QED
      BY <1>2, <2>1, LettersSent
  <1> HIDE DEF m, r
  <1>6. PageTypes'
    BY <1>1, <1>2, <1>4, <1>5 DEF StepperPageInv, PageTypes
  <1>7. RunningWait'
    <2>1. \A q \in running' : \E t \in running : t.step = q.step /\ t.generation = q.generation
      BY <1>1, <1>4
    <2>2. ASSUME NEW q \in running', NEW t \in running', q.generation = t.generation, q.step = t.step PROVE q = t
      <3>1. \A y \in running : y # s => ~(y.generation = s.generation /\ y.step = s.step)
        BY DEF StepperPageInv, RunningWait
      <3> QED
        BY <1>1, <1>4, <2>2, <3>1 DEF StepperPageInv, RunningWait
    <2> QED
      BY <1>1, <2>1, <2>2 DEF StepperPageInv, RunningWait, Current
  <1>8. MirrorFollows'
    <2>1. CASE script.loading
      BY <1>1, <2>1 DEF MirrorFollows
    <2>2. CASE ~script.loading
      <3>1. Follows(post, mirror, StillAsked, script) /\ post \in Seq(Letters)
        BY <2>2 DEF StepperPageInv, MirrorFollows, PageTypes
      <3>2. ASSUME Current(s), script.busy, NEW a \in Shown
            PROVE  IF m \in Telling(a) THEN m \in Agreeing(a, script)
                   ELSE SameIn(script, script, a) /\ (a \in StillAsked => a \in StillAsked')
        <4>1. st = "WAITING"
          BY <3>2 DEF StepperPageInv, RunningWait
        <4>2. m \in Telling(a) <=> a = s.step \/ a = BusyFlag
          BY <1>5 DEF Telling, Tells
        <4>3. CASE m \in Telling(a)
          <5>1. Right(m, a, script)
            BY <1>2, <1>5, <3>2, <4>1, <4>2, <4>3 DEF Right, BusyFlag, Steps
          <5> QED
            BY <1>5, <4>3, <5>1 DEF Agreeing
        <4>4. CASE m \notin Telling(a)
          <5>1. ASSUME a \in StillAsked PROVE a \in StillAsked'
            <6>1. PICK q \in running : q.asked /\ Current(q) /\ (a = q.step \/ a = BusyFlag)
              BY <5>1 DEF StillAsked
            <6>2. q \in running'
              BY <1>1, <4>2, <4>4, <6>1
            <6> QED
              BY <1>1, <6>1, <6>2 DEF StillAsked, Current
          <5> QED
            BY <4>4, <5>1 DEF SameIn
        <4> QED
          BY <4>3, <4>4
      <3>3. m.stale \/ (Current(s) /\ script.busy)
        BY <1>5
      <3>4. Follows(Append(post, m), mirror, StillAsked', script)
        BY <1>5, <3>1, <3>2, <3>3, AppendFollows
      <3> QED
        BY <1>1, <3>4 DEF MirrorFollows
    <2> QED
      BY <2>1, <2>2
  <1> QED
    BY <1>6, <1>7, <1>8 DEF StepperPageInv

LEMMA Joined ==
  ASSUME NEW p \in Seq(Letters), NEW m \in Letters
  PROVE  p \o <<m>> = Append(p, m) /\ p \o <<>> = p
  OBVIOUS

(* What is told of a statement that settled.                               *)
LEMMA ToldFacts ==
  ASSUME StepperPageInv, NEW s \in running, NEW status \in Status, Told(s, status)
  PROVE  LET u == UpdateOf(s.step, status)  m == StepAnswer(s.step, status, ~Current(s)) IN
         /\ u \in Letters /\ m \in Letters /\ post' \in Seq(Letters) /\ mirror' \in Mirrors
         /\ IF Current(s)
            THEN \/ mirror' = mirror /\ post' = IF s.asked THEN Append(Append(post, u), m) ELSE Append(post, u)
                 \/ mirror'.astray /\ post' = IF s.asked THEN Append(Aged(post), m) ELSE Aged(post)
            ELSE mirror' = mirror /\ post' = IF s.asked THEN Append(post, m) ELSE post
  <1> DEFINE u == UpdateOf(s.step, status)
             x == ~Current(s)
             m == StepAnswer(s.step, status, x)
             pushes == IF Current(s) THEN <<u>> ELSE <<>>
             answers == IF s.asked THEN <<m>> ELSE <<>>
             lost == [mirror EXCEPT !.astray = TRUE]
  <1>1. s.step \in Steps /\ post \in Seq(Letters) /\ mirror \in Mirrors
    BY DEF StepperPageInv, PageTypes, Statements
  <1>2. u \in Letters /\ m \in Letters
    <2>1. x \in BOOLEAN
      BY DEF Current
    <2> HIDE DEF x
    <2> QED
      BY <1>1, <2>1, LettersSent
  <1>3. \/ post' = post \o pushes \o answers /\ mirror' = mirror
        \/ pushes # <<>> /\ mirror' = lost /\ post' = Aged(post) \o answers
    BY DEF Told, Pushed
  <1>4. Aged(post) \in Seq(Letters)
    BY <1>1, AgedFacts
  <1>5. lost \in Mirrors /\ lost.astray
    BY <1>1 DEF Mirrors
  <1> HIDE DEF u, m, lost
  <1>6. CASE Current(s)
    <2>1. pushes = <<u>>
      BY <1>6
    <2>2. Append(post, u) \in Seq(Letters) /\ Append(Append(post, u), m) \in Seq(Letters)
          /\ Append(Aged(post), m) \in Seq(Letters)
      BY <1>1, <1>2, <1>4
    <2>3. post \o pushes = Append(post, u)
      BY <1>1, <1>2, <2>1, Joined
    <2>4. CASE s.asked
      <3>1. answers = <<m>>
        BY <2>4
      <3>2. post \o pushes \o answers = Append(Append(post, u), m)
        BY <1>2, <2>2, <2>3, <3>1, Joined
      <3>3. Aged(post) \o answers = Append(Aged(post), m)
        BY <1>2, <1>4, <3>1, Joined
      <3> HIDE DEF pushes, answers
      <3> QED
        BY <1>1, <1>2, <1>3, <1>5, <1>6, <2>2, <2>4, <3>2, <3>3 DEF u, m, x
    <2>5. CASE ~s.asked
      <3>1. answers = <<>>
        BY <2>5
      <3>2. post \o pushes \o answers = Append(post, u)
        BY <1>2, <2>2, <2>3, <3>1, Joined
      <3>3. Aged(post) \o answers = Aged(post)
        BY <1>2, <1>4, <3>1, Joined
      <3> HIDE DEF pushes, answers
      <3> QED
        BY <1>1, <1>2, <1>3, <1>4, <1>5, <1>6, <2>2, <2>5, <3>2, <3>3 DEF u, m, x
    <2> QED
      BY <2>4, <2>5
  <1>7. CASE ~Current(s)
    <2>1. pushes = <<>>
      BY <1>7
    <2>2. post \o pushes = post
      BY <1>1, <1>2, <2>1, Joined
    <2>3. Append(post, m) \in Seq(Letters)
      BY <1>1, <1>2
    <2>4. post \o pushes \o answers = IF s.asked THEN Append(post, m) ELSE post
      BY <1>1, <1>2, <2>2, Joined
    <2>5. mirror' = mirror /\ post' = IF s.asked THEN Append(post, m) ELSE post
      BY <1>3, <2>1, <2>4
    <2> HIDE DEF pushes, answers
    <2> QED
      BY <1>1, <1>2, <1>7, <2>3, <2>5 DEF u, m, x
  <1> QED
    BY <1>6, <1>7

LEMMA SettleStepper ==
  ASSUME StepperPageInv, NEW s \in running, NEW status \in {"DONE", "ERROR"}, SettleStep(s, status)
  PROVE  StepperPageInv'
  <1> DEFINE k == s.step
             b == FALSE
             u == UpdateOf(s.step, status)
             m == StepAnswer(s.step, status, ~Current(s))
  <1>1. /\ running' = running \ {s} /\ Told(s, status) /\ asks' = asks
        /\ script' = IF Current(s) THEN [script EXCEPT !.results[k] = status, !.busy = b] ELSE script
    BY DEF SettleStep
  <1>2. s \in Statements /\ k \in Steps /\ s.generation \in Nat /\ running \subseteq Statements
        /\ status \in Status /\ b = FALSE /\ k = s.step /\ status # "WAITING"
    BY DEF StepperPageInv, PageTypes, Statements, Status
  <1>3. script \in Scripts /\ script.results \in [Steps -> Status] /\ script.busy \in BOOLEAN
    BY ScriptFields
  <1>4. /\ post' \in Seq(Letters) /\ mirror' \in Mirrors
        /\ IF Current(s)
           THEN \/ mirror' = mirror /\ post' = IF s.asked THEN Append(Append(post, u), m) ELSE Append(post, u)
                \/ mirror'.astray /\ post' = IF s.asked THEN Append(Aged(post), m) ELSE Aged(post)
           ELSE mirror' = mirror /\ post' = IF s.asked THEN Append(post, m) ELSE post
    BY <1>1, <1>2, ToldFacts
  <1>5. /\ u \in Letters /\ u.kind = "update" /\ u.step = k /\ u.status = status
        /\ m \in Letters /\ m.kind = "answer" /\ m.step = k /\ m.status = status
        /\ (m.stale <=> ~Current(s))
    <2> DEFINE x == ~Current(s)
    <2>1. x \in BOOLEAN
      BY DEF Current
    <2>2. x <=> ~Current(s)
      OBVIOUS
    <2> HIDE DEF x
    <2>3. m = StepAnswer(k, status, x)
      BY DEF x
    <2> HIDE DEF m
    <2> QED
      BY <1>2, <2>1, <2>2, <2>3, LettersSent
  <1> HIDE DEF u, m, b, k
  <1>6. CASE Current(s)
    <2>1. script' = [script EXCEPT !.results[k] = status, !.busy = b]
      BY <1>1, <1>6
    <2>2. b \in BOOLEAN
      BY <1>2
    <2>3. /\ script' \in Scripts /\ script'.results = [script.results EXCEPT ![k] = status]
          /\ script'.busy = b /\ script'.cursor = script.cursor /\ script'.killed = script.killed
          /\ script'.generation = script.generation /\ script'.loading = script.loading
      BY <1>2, <1>3, <2>1, <2>2 DEF Scripts
    <2>4. \A j \in Steps : script'.results[j] = IF j = k THEN status ELSE script.results[j]
      BY <1>2, <1>3, <2>3
    <2>5. PageTypes'
      BY <1>1, <1>4, <2>3 DEF StepperPageInv, PageTypes
    <2>6. RunningWait'
      <3>1. ASSUME NEW r \in running', r.generation = script.generation
            PROVE  r.step <= script.cursor /\ r.step \in Steps /\ r.step # k /\ script.results[r.step] = "WAITING"
        BY <1>1, <1>2, <1>6, <3>1 DEF StepperPageInv, RunningWait, Current, Statements
      <3> QED
        BY <1>1, <2>3, <2>4, <3>1 DEF StepperPageInv, RunningWait, Current
    <2>7. MirrorFollows'
      <3>1. CASE script.loading
        BY <2>3, <3>1 DEF MirrorFollows
      <3>2. CASE ~script.loading
        <4>1. Follows(post, mirror, StillAsked, script) /\ post \in Seq(Letters)
          BY <3>2 DEF StepperPageInv, MirrorFollows, PageTypes
        <4>2. \A a \in Shown : /\ u \in Telling(a) <=> a = k \/ a = BusyFlag
                               /\ m \in Telling(a) <=> a = k \/ a = BusyFlag
          BY <1>5 DEF Telling, Tells
        <4>3. ASSUME NEW a \in Shown, a = k \/ a = BusyFlag
              PROVE  u \in Agreeing(a, script') /\ m \in Agreeing(a, script')
          <5>1. Right(u, a, script') /\ Right(m, a, script')
            BY <1>2, <1>5, <2>3, <2>4, <4>3 DEF Right, BusyFlag, Steps
          <5> QED
            BY <1>5, <5>1 DEF Agreeing
        <4>4. ASSUME NEW a \in Shown, a # k, a # BusyFlag
              PROVE  SameIn(script, script', a) /\ (a \in StillAsked => a \in StillAsked')
          <5>1. SameIn(script, script', a)
            BY <2>3, <2>4, <4>4 DEF SameIn
          <5>2. ASSUME a \in StillAsked PROVE a \in StillAsked'
            <6>1. PICK q \in running : q.asked /\ Current(q) /\ (a = q.step \/ a = BusyFlag)
              BY <5>2 DEF StillAsked
            <6>2. q \in running'
              BY <1>1, <1>2, <4>4, <6>1
            <6> QED
              BY <2>3, <6>1, <6>2 DEF StillAsked, Current
          <5> QED
            BY <5>1, <5>2
        <4>5. Follows(Append(post, u), mirror, StillAsked', script')
          <5>1. \A a \in Shown : IF u \in Telling(a) THEN u \in Agreeing(a, script')
                                ELSE SameIn(script, script', a) /\ (a \in StillAsked => a \in StillAsked')
            <6> TAKE a \in Shown
            <6>1. CASE a = k \/ a = BusyFlag
              BY <4>2, <4>3, <6>1
            <6>2. CASE a # k /\ a # BusyFlag
              <7>1. u \notin Telling(a)
                BY <4>2, <6>2
              <7>2. SameIn(script, script', a) /\ (a \in StillAsked => a \in StillAsked')
                BY <4>4, <6>2
              <7> QED
                BY <7>1, <7>2
            <6> QED
              BY <6>1, <6>2
          <5>2. u \in Letters /\ u.kind # "view"
            BY <1>5
          <5> QED
            BY <4>1, <5>1, <5>2, AppendFollows
        <4>6. Append(post, u) \in Seq(Letters)
          BY <1>5, <4>1
        <4>7. Follows(Append(Append(post, u), m), mirror, StillAsked', script')
          <5>1. \A a \in Shown : IF m \in Telling(a) THEN m \in Agreeing(a, script')
                                ELSE SameIn(script', script', a) /\ (a \in StillAsked' => a \in StillAsked')
            <6> TAKE a \in Shown
            <6>1. CASE a = k \/ a = BusyFlag
              BY <4>2, <4>3, <6>1
            <6>2. CASE a # k /\ a # BusyFlag
              <7>1. m \notin Telling(a)
                BY <4>2, <6>2
              <7>2. SameIn(script', script', a)
                BY DEF SameIn
              <7> QED
                BY <7>1, <7>2
            <6> QED
              BY <6>1, <6>2
          <5>2. m \in Letters /\ m.kind # "view"
            BY <1>5
          <5> QED
            BY <4>5, <4>6, <5>1, <5>2, AppendFollows
        <4>8. CASE mirror'.astray /\ post' = IF s.asked THEN Append(Aged(post), m) ELSE Aged(post)
          <5>1. m \in Letters /\ m.kind # "view"
            BY <1>5
          <5>2. Follows(post', mirror', StillAsked', script')
            BY <4>1, <4>8, <5>1, LostFollows
          <5> QED
            BY <5>2 DEF MirrorFollows
        <4>9. CASE mirror' = mirror /\ post' = IF s.asked THEN Append(Append(post, u), m) ELSE Append(post, u)
          BY <4>5, <4>7, <4>9 DEF MirrorFollows
        <4> QED
          BY <1>4, <1>6, <4>8, <4>9
      <3> QED
        BY <3>1, <3>2
    <2> QED
      BY <2>5, <2>6, <2>7 DEF StepperPageInv
  <1>7. CASE ~Current(s)
    <2>1. script' = script /\ mirror' = mirror /\ post' = IF s.asked THEN Append(post, m) ELSE post
      BY <1>1, <1>4, <1>7
    <2>2. PageTypes'
      BY <1>1, <1>4, <2>1 DEF StepperPageInv, PageTypes
    <2>3. RunningWait'
      BY <1>1, <2>1 DEF StepperPageInv, RunningWait, Current
    <2>4. StillAsked' = StillAsked
      BY <1>1, <1>7, <2>1 DEF StillAsked, Current
    <2>5. MirrorFollows'
      <3>1. ASSUME Follows(post, mirror, StillAsked, script) PROVE Follows(post', mirror, StillAsked, script)
        <4>1. m \in Letters /\ m.kind # "view" /\ m.stale /\ post \in Seq(Letters)
          BY <1>5, <1>7 DEF StepperPageInv, PageTypes
        <4>2. Follows(Append(post, m), mirror, StillAsked, script)
          BY <3>1, <4>1, AppendFollows
        <4> QED
          BY <2>1, <3>1, <4>2
      <3> QED
        BY <2>1, <2>4, <3>1 DEF StepperPageInv, MirrorFollows
    <2> QED
      BY <2>2, <2>3, <2>5 DEF StepperPageInv
  <1> QED
    BY <1>6, <1>7

LEMMA TakeKillStepper == StepperPageInv /\ TakeKill => StepperPageInv'
  <1> SUFFICES ASSUME StepperPageInv, TakeKill PROVE StepperPageInv'
    OBVIOUS
  <1> DEFINE r == [k \in Steps |-> IF k > script.cursor THEN "KILLED" ELSE script.results[k]]
             b == TRUE
             u == KilledUpdate
             m == ViewAnswer(script')
             lost == [mirror EXCEPT !.astray = TRUE]
  <1>1. /\ script' = [script EXCEPT !.killed = b, !.results = r]
        /\ running' = running /\ RequestTaken
        /\ \/ post' = post \o <<u>> \o <<m>> /\ mirror' = mirror
           \/ mirror' = lost /\ post' = Aged(post) \o <<m>>
    BY DEF TakeKill, Pushed
  <1>2. script \in Scripts /\ script.results \in [Steps -> Status]
    BY ScriptFields
  <1>3. r \in [Steps -> Status] /\ b \in BOOLEAN /\ \A k \in Steps : k <= script.cursor => r[k] = script.results[k]
    BY <1>2, ScriptFields DEF Steps, Status
  <1>4. asks' \in Seq(Requests) /\ ~script.loading
    BY <1>1, TakenFacts
  <1> HIDE DEF r, b
  <1>5. /\ script' \in Scripts /\ script'.results = r /\ script'.cursor = script.cursor
        /\ script'.generation = script.generation
    BY <1>1, <1>2, <1>3 DEF Scripts
  <1>6. u \in Letters /\ m \in Letters /\ m.kind = "view" /\ \A a \in Shown : SameIn(m.view, script', a)
    BY <1>5, LettersSent, ViewSent
  <1>7. post \in Seq(Letters) /\ mirror \in Mirrors /\ Aged(post) \in Seq(Letters) /\ lost \in Mirrors
    <2>1. post \in Seq(Letters) /\ mirror \in Mirrors
      BY DEF StepperPageInv, PageTypes
    <2> QED
      BY <2>1, AgedFacts DEF Mirrors
  <1> HIDE DEF u, m, lost
  <1>8. PICK q \in Seq(Letters) : post' = Append(q, m)
    <2>1. CASE post' = post \o <<u>> \o <<m>>
      <3>1. post \o <<u>> = Append(post, u) /\ Append(post, u) \in Seq(Letters)
        BY <1>6, <1>7, Joined
      <3>2. Append(post, u) \o <<m>> = Append(Append(post, u), m)
        BY <1>6, <3>1, Joined
      <3> QED
        BY <2>1, <3>1, <3>2
    <2>2. CASE post' = Aged(post) \o <<m>>
      BY <1>6, <1>7, <2>2, Joined
    <2> QED
      BY <1>1, <2>1, <2>2
  <1>9. post' \in Seq(Letters) /\ mirror' \in Mirrors
    BY <1>1, <1>6, <1>7, <1>8
  <1>10. PageTypes'
    BY <1>1, <1>4, <1>5, <1>9 DEF StepperPageInv, PageTypes
  <1>11. RunningWait'
    <2>1. \A s \in running : s.step \in Steps
      BY DEF StepperPageInv, PageTypes, Statements
    <2> QED
      BY <1>1, <1>3, <1>5, <2>1 DEF StepperPageInv, RunningWait, Current
  <1>12. Follows(post', mirror', StillAsked', script')
    BY <1>6, <1>8, ViewFollows
  <1> QED
    BY <1>10, <1>11, <1>12 DEF StepperPageInv, MirrorFollows

LEMMA TakeLoadStepper == StepperPageInv /\ TakeLoad => StepperPageInv'
  <1> SUFFICES ASSUME StepperPageInv, TakeLoad PROVE StepperPageInv'
    OBVIOUS
  <1> DEFINE b == FALSE  l == TRUE
  <1>1. script' = [script EXCEPT !.loading = l, !.busy = b] /\ UNCHANGED <<running, post, mirror>> /\ RequestTaken
    BY DEF TakeLoad
  <1>2. script \in Scripts /\ b \in BOOLEAN /\ l \in BOOLEAN /\ l
    BY ScriptFields
  <1>3. asks' \in Seq(Requests)
    BY <1>1, TakenFacts
  <1> HIDE DEF b, l
  <1>4. /\ script' \in Scripts /\ script'.loading /\ script'.results = script.results
        /\ script'.cursor = script.cursor /\ script'.generation = script.generation
    BY <1>1, <1>2 DEF Scripts
  <1>5. PageTypes'
    BY <1>1, <1>3, <1>4 DEF StepperPageInv, PageTypes
  <1>6. RunningWait'
    BY <1>1, <1>4 DEF StepperPageInv, RunningWait, Current
  <1> QED
    BY <1>4, <1>5, <1>6 DEF StepperPageInv, MirrorFollows

LEMMA PutInPlaceStepper == StepperPageInv /\ PutInPlace => StepperPageInv'
  <1> SUFFICES ASSUME StepperPageInv, PutInPlace PROVE StepperPageInv'
    OBVIOUS
  <1> DEFINE g == script.generation + 1
             m == ViewAnswer(script')
  <1>1. /\ script' = [results |-> AllPending, busy |-> FALSE, killed |-> FALSE, cursor |-> 0,
                      generation |-> g, loaded |-> TRUE, loading |-> FALSE]
        /\ post' = Append(post, m) /\ UNCHANGED <<running, asks, mirror>>
    BY DEF PutInPlace, SendTab
  <1>2. g \in Nat /\ g = script.generation + 1 /\ script.generation \in Nat
    BY ScriptFields
  <1>3. AllPending \in [Steps -> Status]
    BY DEF AllPending, Status
  <1> HIDE DEF g
  <1>4. script' \in Scripts /\ script'.generation = g
    BY <1>1, <1>2, <1>3 DEF Scripts
  <1>5. m \in Letters /\ m.kind = "view" /\ \A a \in Shown : SameIn(m.view, script', a)
    BY <1>4, ViewSent
  <1> HIDE DEF m
  <1>6. PageTypes'
    BY <1>1, <1>4, <1>5 DEF StepperPageInv, PageTypes
  <1>7. RunningWait'
    <2>1. \A s \in running : s.generation \in Nat
      BY DEF StepperPageInv, PageTypes, Statements
    <2> QED
      BY <1>1, <1>2, <1>4, <2>1 DEF StepperPageInv, RunningWait, Current
  <1>8. Follows(post', mirror', StillAsked', script')
    BY <1>1, <1>5, ViewFollows DEF StepperPageInv, PageTypes
  <1> QED
    BY <1>6, <1>7, <1>8 DEF StepperPageInv, MirrorFollows

LEMMA LoadFailsStepper == StepperPageInv /\ LoadFails => StepperPageInv'
  <1> SUFFICES ASSUME StepperPageInv, LoadFails PROVE StepperPageInv'
    OBVIOUS
  <1> DEFINE m == ErrorAnswer("load", TRUE)  l == FALSE
  <1>1. PICK moved \in 0 .. 1 :
          script' = [script EXCEPT !.loading = l, !.generation = script.generation + moved]
    BY DEF LoadFails
  <1> DEFINE g == script.generation + moved
  <1>2. script' = [script EXCEPT !.loading = l, !.generation = g]
    BY <1>1
  <1>3. post' = Append(post, m) /\ UNCHANGED <<running, asks, mirror>>
    BY DEF LoadFails, SendTab
  <1>4. m \in Letters /\ m.kind = "error" /\ m.stale
    BY LettersSent DEF Requests
  <1>5. script \in Scripts /\ script.generation \in Nat /\ l \in BOOLEAN
    BY ScriptFields
  <1>6. g \in Nat /\ g >= script.generation
    BY <1>5
  <1> HIDE DEF l, m, g
  <1>7. /\ script' \in Scripts /\ script'.results = script.results /\ script'.cursor = script.cursor
        /\ script'.generation = g
    BY <1>2, <1>6, <1>5 DEF Scripts
  <1>8. PageTypes'
    BY <1>3, <1>4, <1>7 DEF StepperPageInv, PageTypes
  <1>9. RunningWait'
    <2>1. \A s \in running : s.generation \in Nat
      BY DEF StepperPageInv, PageTypes, Statements
    <2>2. \A s \in running : s.generation = g => s.generation = script.generation
      BY <1>6, <1>5, <2>1 DEF StepperPageInv, RunningWait
    <2>3. \A s \in running : s.generation <= g
      BY <1>6, <1>5, <2>1 DEF StepperPageInv, RunningWait
    <2> QED
      BY <1>3, <1>7, <2>2, <2>3 DEF StepperPageInv, RunningWait, Current
  <1>10. EndsAstray(post', mirror'.astray)
    <2>1. post \in Seq(Letters)
      BY DEF StepperPageInv, PageTypes
    <2> DEFINE n == Len(post) + 1
    <2>2. n \in DOMAIN post' /\ post'[n] = m /\ \A j \in DOMAIN post' : ~(j > n)
      BY <1>3, <1>4, <2>1, Appended1
    <2> HIDE DEF n
    <2> QED
      BY <1>4, <2>2 DEF EndsAstray
  <1> QED
    BY <1>8, <1>9, <1>10 DEF StepperPageInv, MirrorFollows, Follows

LEMMA HearStepper == ASSUME StepperPageInv, NEW k \in DOMAIN post, Hear(k) PROVE StepperPageInv'
  <1> DEFINE m == post[k]
  <1>1. /\ mirror' = Heard(m) /\ UNCHANGED <<script, running, asks>>
        /\ post' = Aged(SubSeq(post, 1, k - 1)) \o SubSeq(post, k + 1, Len(post))
    BY DEF Hear
  <1>2. post \in Seq(Letters) /\ mirror \in Mirrors /\ m \in Letters
    BY DEF StepperPageInv, PageTypes
  <1>3. /\ mirror.view \in Views /\ mirror.astray \in BOOLEAN /\ mirror.loaded \in BOOLEAN
        /\ mirror.busy \in BOOLEAN /\ m.stale \in BOOLEAN
    BY <1>2, LetterKinds DEF Mirrors
  <1>4. /\ mirror' \in Mirrors
        /\ mirror'.loaded <=> (mirror.loaded \/ m.kind = "view")
        /\ mirror'.view = IF mirror'.loaded THEN HeardView(mirror.view, m) ELSE mirror.view
        /\ mirror'.astray <=> (m.stale \/ (mirror.astray /\ m.kind # "view"))
    <2> DEFINE l == mirror.loaded \/ m.kind = "view"
               v == IF l THEN HeardView(mirror.view, m) ELSE mirror.view
               b == mirror.busy /\ m.kind # "view" /\ (m.kind = "error" => m.of = "step")
               x == m.stale \/ (mirror.astray /\ m.kind # "view")
    <2>1. mirror' = [loaded |-> l, view |-> v, busy |-> b, astray |-> x]
      BY <1>1 DEF Heard
    <2>2. HeardView(mirror.view, m) \in Views
      BY <1>2, <1>3, HeardFacts
    <2>3. l \in BOOLEAN /\ v \in Views /\ b \in BOOLEAN /\ x \in BOOLEAN
      BY <1>3, <2>2
    <2>4. l <=> (mirror.loaded \/ m.kind = "view")
      OBVIOUS
    <2>5. v = IF l THEN HeardView(mirror.view, m) ELSE mirror.view
      OBVIOUS
    <2>6. x <=> (m.stale \/ (mirror.astray /\ m.kind # "view"))
      OBVIOUS
    <2> HIDE DEF l, v, b, x
    <2>7. /\ mirror' \in Mirrors /\ mirror'.loaded = l /\ mirror'.view = v /\ mirror'.astray = x
      BY <2>1, <2>3 DEF Mirrors
    <2> QED
      BY <2>4, <2>5, <2>6, <2>7
  <1>5. post' \in Seq(Letters)
    BY <1>1, <1>2, LeftOver
  <1>6. PageTypes'
    BY <1>1, <1>4, <1>5 DEF StepperPageInv, PageTypes
  <1>7. RunningWait'
    BY <1>1 DEF StepperPageInv, RunningWait, Current
  <1>8. StillAsked' = StillAsked
    BY <1>1 DEF StillAsked, Current
  <1>9. ASSUME Follows(post, mirror, StillAsked, script) PROVE Follows(post', mirror', StillAsked, script)
    BY <1>1, <1>2, <1>3, <1>4, <1>9, HearFollows
  <1>10. MirrorFollows'
    BY <1>1, <1>8, <1>9 DEF StepperPageInv, MirrorFollows
  <1> QED
    BY <1>6, <1>7, <1>10 DEF StepperPageInv

LEMMA NextStepperPage == StepperPageInv /\ [StepperNext]_stepperVars => StepperPageInv'
  <1> SUFFICES ASSUME StepperPageInv, [StepperNext]_stepperVars PROVE StepperPageInv'
    OBVIOUS
  <1>1. CASE UNCHANGED stepperVars
    <2>1. UNCHANGED <<script, running, post, asks, mirror>> /\ asks \in Seq(Requests) /\ mirror \in Mirrors
      BY <1>1 DEF stepperVars, StepperPageInv, PageTypes
    <2> QED
      BY <2>1, UnsentStep
  <1>2. CASE \E s \in running : AnswerWaiting(s) \/ \E status \in {"DONE", "ERROR"} : SettleStep(s, status)
    BY <1>2, AnswerWaitingStepper, SettleStepper
  <1>3. CASE \E k \in DOMAIN post : Hear(k)
    BY <1>3, HearStepper
  <1> QED
    BY <1>1, <1>2, <1>3, PressStepper, RefuseStepper, TakeStepStepper, TakeKillStepper,
       TakeLoadStepper, PutInPlaceStepper, LoadFailsStepper DEF StepperNext

(* A settled tab: nothing is under way and no answer is to come.           *)
LEMMA SettledShows == StepperPageInv => QuietMeansSame
  <1> SUFFICES ASSUME StepperPageInv, mirror.loaded, ~mirror.astray, Settled
               PROVE  /\ mirror.view.results = script.results
                      /\ mirror.view.busy = script.busy /\ mirror.view.killed = script.killed
    BY DEF QuietMeansSame
  <1>1. post = <<>> /\ ~script.loading /\ StillAsked = {}
    BY DEF Settled, StillAsked
  <1>2. ~EndsAstray(post, mirror.astray) /\ EndsLoaded(post, mirror.loaded)
    BY <1>1 DEF EndsAstray, EndsLoaded
  <1>3. \A a \in Shown : SameIn(mirror.view, script, a)
    <2>1. Follows(post, mirror, StillAsked, script)
      BY <1>1 DEF StepperPageInv, MirrorFollows
    <2>2. \A a \in Shown : Ends(post, Telling(a), Agreeing(a, script), SameIn(mirror.view, script, a))
      BY <1>1, <1>2, <2>1 DEF Follows
    <2>3. \A telling, right, shown : Ends(post, telling, right, shown) => shown
      BY <1>1 DEF Ends
    <2> QED
      BY <2>2, <2>3
  <1>4. /\ mirror.view \in Views /\ script \in Scripts
    BY DEF StepperPageInv, PageTypes, Mirrors
  <1>5. /\ mirror.view.results \in [Steps -> Status] /\ script.results \in [Steps -> Status]
        /\ mirror.view.busy \in BOOLEAN /\ script.busy \in BOOLEAN
        /\ mirror.view.killed \in BOOLEAN /\ script.killed \in BOOLEAN
    BY <1>4 DEF Views, Scripts
  <1>6. \A k \in Steps : mirror.view.results[k] = script.results[k]
    BY <1>3 DEF SameIn, Shown, Steps
  <1>7. (mirror.view.busy <=> script.busy) /\ (mirror.view.killed <=> script.killed)
    BY <1>3 DEF SameIn, Shown, BusyFlag, KilledFlag
  <1> QED
    BY <1>5, <1>6, <1>7

(* Once nothing is under way, a tab that heard everything in turn shows    *)
(* what the engine has: the results, whether the transaction waits and     *)
(* whether it was killed (StepperTab.tsx mergeUpdate, stepTxn's answer).   *)
THEOREM QuietTabShows == StepperPageSpec => []QuietMeansSame
  <1>1. StepperInit => StepperPageInv
    BY InitStepperPage
  <1>2. StepperPageInv /\ [StepperNext]_stepperVars => StepperPageInv'
    BY NextStepperPage
  <1>3. StepperPageInv => QuietMeansSame
    BY SettledShows
  <1> QED
    BY <1>1, <1>2, <1>3, PTL DEF StepperPageSpec
=============================================================================
