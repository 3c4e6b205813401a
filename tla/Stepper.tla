------------------------------ MODULE Stepper ------------------------------
(***************************************************************************)
(* The Transaction Stepper (server/src/lab/stepper/engine.ts): two scripts *)
(* of SQL statements, stepped one statement at a time on connections of    *)
(* their own, while scenarios are loaded and transactions are killed.      *)
(***************************************************************************)
EXTENDS Integers, Sequences, SequencesExt

CONSTANTS
  Loadable,   \* scenarios that are loaded
  MaxLoads,   \* bound: loads started
  MaxKills,   \* bound: kills requested
  Overlap     \* may a step, a kill and a load be requested at the same time?

Txn == {"T1", "T2"}
Row == {"A", "B"}      \* the account rows step_a and step_b

LockA == <<"BEGIN", "A", "COMMIT">>
LockBoth(first, second) == <<"BEGIN", first, second, "COMMIT">>

(* What the scenarios' statements do to the account rows: a row's name     *)
(* stands for SELECT ... FOR UPDATE on it, COMMIT for ROLLBACK too.        *)
Script ==
  [PESSIMISTIC_RC   |-> [T1 |-> LockA, T2 |-> LockA],
   CLASSIC_DEADLOCK |-> [T1 |-> LockBoth("A", "B"), T2 |-> LockBoth("B", "A")],
   ORDERED_LOCKING  |-> [T1 |-> LockBoth("A", "B"), T2 |-> LockBoth("A", "B")]]
Scenario == DOMAIN Script
ASSUME StepperAssumption ==
  /\ Loadable \subseteq Scenario
  /\ MaxLoads \in Nat /\ MaxKills \in Nat
  /\ Overlap \in BOOLEAN

NoScenario == "none"
Nobody == <<"none", 0>>

Admin == <<"admin", 0>>

VARIABLES
  txn,         \* TxnRuntime of T1 and T2
  generation,  \* StepperEngine.generation
  load,        \* where load() is, and what it loads
  loads,       \* loads started
  kills,       \* kills requested
  sent,        \* requests to MySQL that are not answered, in order
  alive,       \* connections MySQL serves
  inTx,        \* those with an open transaction
  owner        \* who holds the X lock of each account row

engineVars == <<txn, generation, load>>
boundVars == <<loads, kills>>
dbVars == <<alive, inTx, owner>>
vars == <<engineVars, boundVars, sent, dbVars>>

Conn(t) == <<t, txn[t].conn>>     \* incarnation 0: t.conn is null
Unloaded == [conn |-> 0, made |-> 0, scenario |-> NoScenario, installed |-> 0,
             cursor |-> 0, killed |-> FALSE, busy |-> FALSE, results |-> <<>>]

Init ==
  /\ txn = [t \in Txn |-> Unloaded]
  /\ generation = 0
  /\ load = [at |-> "idle", txn |-> "T1", scenario |-> NoScenario]
  /\ loads = 0 /\ kills = 0
  /\ sent = <<>>
  /\ alive = {} /\ inTx = {} /\ owner = [r \in Row |-> Nobody]
-----------------------------------------------------------------------------
(* MySQL: a connection answers its requests in order. *)
First(i) == \A j \in 1 .. i - 1 : sent[j].conn # sent[i].conn
IsStep(i) == First(i) /\ sent[i].kind = "step"
Pending(kind) == \E i \in DOMAIN sent : sent[i].kind = kind
Served(i) == sent[i].conn \in alive
Freed(c) == [r \in Row |-> IF owner[r] = c THEN Nobody ELSE owner[r]]
Blocked(i) ==
  /\ IsStep(i) /\ Served(i)
  /\ sent[i].sql \in Row
  /\ owner[sent[i].sql] \notin {Nobody, sent[i].conn}

(* A killed connection's transaction is rolled back, sooner or later. *)
Undo ==
  \E c \in {owner[r] : r \in Row} \ (alive \cup {Nobody}) :
    /\ owner' = Freed(c)
    /\ UNCHANGED <<engineVars, boundVars, sent, alive, inTx>>

Execute(i) ==
  LET c == sent[i].conn  sql == sent[i].sql IN
  /\ IsStep(i) /\ Served(i) /\ ~Blocked(i)
  /\ inTx' = CASE sql = "BEGIN" -> inTx \cup {c} [] sql = "COMMIT" -> inTx \ {c} [] OTHER -> inTx
  /\ owner' = IF sql \in {"BEGIN", "COMMIT"} THEN Freed(c)
              ELSE IF c \in inTx THEN [owner EXCEPT ![sql] = c]
              ELSE owner
  /\ UNCHANGED alive

(* 1205 rolls back the statement only; so does a connection that is gone. *)
Refuse(i) ==
  /\ IsStep(i)
  /\ Blocked(i) \/ ~Served(i)
  /\ UNCHANGED dbVars

(* 1213: two transactions wait for each other, one is rolled back. *)
WaitCycle(i) ==
  /\ Blocked(i)
  /\ \E j \in DOMAIN sent :
       /\ Blocked(j)
       /\ owner[sent[i].sql] = sent[j].conn
       /\ owner[sent[j].sql] = sent[i].conn

Victim(i) ==
  /\ WaitCycle(i)
  /\ inTx' = inTx \ {sent[i].conn}
  /\ owner' = Freed(sent[i].conn)
  /\ UNCHANGED alive

(* Faulty: .then instead of .finally, an error leaves the transaction busy. *)
BusyAfterError(status) == status # "DONE"

BusyAfter(status) == FALSE

(* The runtime of a transaction after one of its statements was answered. *)
Answered(x, s, status) ==
  [x EXCEPT !.busy = BusyAfter(status),
            !.results = [k \in DOMAIN @ |->
               IF k = s.index THEN [status |-> status, of |-> s.installed] ELSE @[k]]]

(* runStatement and step's finally: an answer enters the results unless a  *)
(* newer scenario was loaded meanwhile.                                    *)
Settle(i, status) ==
  LET s == sent[i] IN
  /\ sent' = RemoveAt(sent, i)
  /\ IF s.gen = generation
     THEN txn' = [txn EXCEPT ![s.txn] = Answered(@, s, status)]
     ELSE UNCHANGED txn
  /\ UNCHANGED <<generation, load, boundVars>>

(* The event loop takes another request only while load() awaits. *)
Missing == {t \in Txn : txn[t].conn = 0}
Yielded == load.at # "end" /\ (load.at = "reconnect" => Missing # {})

StatementDone ==
  /\ Yielded
  /\ \E i \in DOMAIN sent : Execute(i) /\ Settle(i, "DONE")
StatementFailed ==
  /\ Yielded
  /\ \E i \in DOMAIN sent : (Refuse(i) \/ Victim(i)) /\ Settle(i, "ERROR")
-----------------------------------------------------------------------------
(* One browser tab disables its buttons while a load or a kill is under    *)
(* way; a second tab, or another client of the API, does not.              *)
Allowed ==
  /\ Yielded
  /\ \/ Overlap
     \/ load.at = "idle" /\ ~Pending("kill")

Ready(x) == ~x.killed /\ ~x.busy /\ x.cursor < Len(x.results)

(* The statement at the cursor is taken; its result stands at its place.   *)
Taken(x, busy, status) ==
  [x EXCEPT !.cursor = x.cursor + 1, !.busy = busy,
            !.results = [x.results EXCEPT ![x.cursor + 1] =
                           [status |-> status, of |-> x.installed]]]

(* Without a connection the query throws at once. *)
Step(t) ==
  LET x == txn[t]  k == x.cursor + 1 IN
  /\ Allowed
  /\ Ready(x)
  /\ IF x.conn = 0
     THEN txn' = [txn EXCEPT ![t] = Taken(x, FALSE, "ERROR")] /\ UNCHANGED sent
     ELSE /\ txn' = [txn EXCEPT ![t] = Taken(x, TRUE, "WAITING")]
          /\ sent' = Append(sent, [conn |-> Conn(t), kind |-> "step", txn |-> t, index |-> k,
                                   sql |-> Script[x.scenario][t][k],
                                   gen |-> generation, installed |-> x.installed])
  /\ UNCHANGED <<generation, load, boundVars, dbVars>>

Kill(t) ==
  /\ Allowed
  /\ kills < MaxKills
  /\ ~txn[t].killed /\ txn[t].conn # 0
  /\ kills' = kills + 1
  /\ sent' = Append(sent, [conn |-> Admin, kind |-> "kill", txn |-> t, target |-> Conn(t)])
  /\ UNCHANGED <<engineVars, loads, dbVars>>

(* The KILL fails if the connection is gone already; if not, whatever      *)
(* connection the transaction has by now is forgotten.                     *)
KillDone ==
  \E i \in DOMAIN sent :
    LET t == sent[i].txn  c == sent[i].target  x == txn[t] IN
    /\ sent[i].kind = "kill" /\ First(i)
    /\ Yielded
    /\ sent' = RemoveAt(sent, i)
    /\ alive' = alive \ {c}
    /\ inTx' = inTx \ {c}
    /\ IF c \in alive
       THEN txn' = [txn EXCEPT ![t] = [x EXCEPT !.killed = TRUE, !.conn = 0,
                      !.results = [k \in DOMAIN @ |->
                         IF k > x.cursor THEN [@[k] EXCEPT !.status = "KILLED"] ELSE @[k]]]]
       ELSE UNCHANGED txn
    /\ UNCHANGED <<generation, load, boundVars, owner>>
-----------------------------------------------------------------------------
(* load: GET_LOCK(name, 0) lets one in at a time. *)
LoadStart(scenario) ==
  /\ load.at = "idle"
  /\ loads < MaxLoads
  /\ Overlap \/ ~Pending("kill")
  /\ loads' = loads + 1
  /\ load' = [at |-> "connect", txn |-> "T1", scenario |-> scenario]
  /\ UNCHANGED <<txn, generation, kills, sent, dbVars>>

(* ensureConnections *)
Connected ==
  [t \in Txn |-> IF t \in Missing
                 THEN [txn[t] EXCEPT !.conn = txn[t].made + 1, !.made = @ + 1]
                 ELSE txn[t]]
Connect ==
  /\ txn' = Connected
  /\ alive' = alive \cup {<<t, txn[t].made + 1>> : t \in Missing}
  /\ UNCHANGED <<inTx, owner>>

LoadConnect ==
  /\ load.at = "connect"
  /\ Connect
  /\ load' = [load EXCEPT !.at = "end"]
  /\ UNCHANGED <<generation, boundVars, sent>>

LoadRequest(c, kind) == sent' = Append(sent, [conn |-> c, kind |-> kind])
EndNext(t) ==
  load' = IF t = "T1" THEN [load EXCEPT !.at = "end", !.txn = "T2"]
          ELSE [load EXCEPT !.at = "reconnect"]

EndRequest(t) ==
  IF txn[t].busy THEN LoadRequest(Admin, "loadKill") ELSE LoadRequest(Conn(t), "rollback")

(* endOpenTransactions, one transaction at a time: KILL if a step of it is *)
(* waiting, ROLLBACK if not.                                               *)
EndOpen ==
  LET t == load.txn IN
  /\ load.at = "end"
  /\ IF txn[t].conn = 0
     THEN EndNext(t) /\ UNCHANGED sent
     ELSE /\ load' = [load EXCEPT !.at = "ending"]
          /\ EndRequest(t)
  /\ UNCHANGED <<txn, generation, boundVars, dbVars>>

LoadReturns == load' = [load EXCEPT !.at = "idle", !.txn = "T1"]

(* Faulty: the transaction stays busy. *)
KilledBusy(x) == [x EXCEPT !.conn = 0]

Killed(x) == [x EXCEPT !.conn = 0, !.busy = FALSE]

(* The KILL returned, then conn.end(): null, and load fails, if a kill was *)
(* quicker.                                                                *)
KilledOpen ==
  LET t == load.txn IN
  \E i \in DOMAIN sent :
    /\ sent[i].kind = "loadKill" /\ First(i)
    /\ sent' = RemoveAt(sent, i)
    /\ alive' = alive \ {Conn(t)}
    /\ inTx' = inTx \ {Conn(t)}
    /\ IF txn[t].conn = 0
       THEN LoadReturns /\ UNCHANGED txn
       ELSE /\ txn' = [txn EXCEPT ![t] = Killed(@)]
            /\ EndNext(t)
    /\ UNCHANGED <<generation, boundVars, owner>>

RolledBack ==
  LET t == load.txn IN
  \E i \in DOMAIN sent :
    LET c == sent[i].conn IN
    /\ sent[i].kind = "rollback" /\ First(i)
    /\ sent' = RemoveAt(sent, i)
    /\ inTx' = inTx \ {c}
    /\ owner' = IF c \in alive THEN Freed(c) ELSE owner
    /\ txn' = [txn EXCEPT ![t].busy = FALSE]
    /\ EndNext(t)
    /\ UNCHANGED <<generation, boundVars, alive>>

(* Faulty: the generation stays. *)
SameGeneration == generation

NextGeneration == generation + 1

(* Missing connections are made again; then, without another await, the    *)
(* generation moves on and the reset of the accounts is sent.              *)
LoadReset ==
  /\ load.at = "reconnect"
  /\ Connect
  /\ generation' = NextGeneration
  /\ load' = [load EXCEPT !.at = "reset"]
  /\ LoadRequest(Admin, "reset")
  /\ UNCHANGED boundVars

Fresh(x, t) ==
  [x EXCEPT !.scenario = load.scenario, !.installed = loads,
            !.cursor = 0, !.killed = FALSE,
            !.results = [k \in DOMAIN Script[load.scenario][t] |->
                           [status |-> "PENDING", of |-> loads]]]

(* The script of one transaction is put in place and its isolation level   *)
(* is sent.                                                                *)
Install(t) ==
  /\ txn' = [txn EXCEPT ![t] = Fresh(@, t)]
  /\ IF txn[t].conn = 0 THEN LoadReturns ELSE load' = [load EXCEPT !.at = "set", !.txn = t]

SendSet(t, i) ==
  sent' = IF txn[t].conn = 0 THEN RemoveAt(sent, i)
          ELSE Append(RemoveAt(sent, i), [conn |-> Conn(t), kind |-> "set"])

(* resetStepperAccounts waits for the account rows. *)
ResetDone ==
  \E i \in DOMAIN sent :
    /\ sent[i].kind = "reset" /\ First(i)
    /\ \A r \in Row : owner[r] = Nobody
    /\ Install("T1") /\ SendSet("T1", i)
    /\ UNCHANGED <<generation, boundVars, dbVars>>

ResetTimeout ==
  \E i \in DOMAIN sent :
    /\ sent[i].kind = "reset" /\ First(i)
    /\ \E r \in Row : owner[r] # Nobody
    /\ LoadReturns
    /\ sent' = RemoveAt(sent, i)
    /\ UNCHANGED <<txn, generation, boundVars, dbVars>>

SetDone ==
  \E i \in DOMAIN sent :
    /\ sent[i].kind = "set" /\ First(i)
    /\ IF Served(i) /\ load.txn = "T1"
       THEN Install("T2") /\ SendSet("T2", i)
       ELSE LoadReturns /\ UNCHANGED txn /\ sent' = RemoveAt(sent, i)
    /\ UNCHANGED <<generation, boundVars, dbVars>>
-----------------------------------------------------------------------------
Respond ==
  \/ StatementDone
  \/ StatementFailed
  \/ KillDone
  \/ KilledOpen
  \/ RolledBack
  \/ ResetDone
  \/ ResetTimeout
  \/ SetDone

Next ==
  \/ \E t \in Txn : Step(t) \/ Kill(t)
  \/ \E s \in Loadable : LoadStart(s)
  \/ LoadConnect
  \/ EndOpen
  \/ LoadReset
  \/ Respond
  \/ Undo

Spec == Init /\ [][Next]_vars

(* MySQL answers what it can, the 30 s and 50 s lock waits end, a killed   *)
(* transaction is undone, and load() runs on.                              *)
FairSpec ==
  /\ Spec
  /\ WF_vars(Respond) /\ WF_vars(Undo)
  /\ WF_vars(LoadConnect \/ EndOpen \/ LoadReset)
-----------------------------------------------------------------------------
(* engine.ts:41, "a step that settles after a newer load must not write    *)
(* into the new scenario": what a script's results show was done by that   *)
(* script's statements.                                                    *)
FencedResults ==
  \A t \in Txn : \A k \in DOMAIN txn[t].results :
    txn[t].results[k].of = txn[t].installed

(* load: the scripts are put in place over no open transaction, no lock    *)
(* and no step that still counts.                                          *)
CleanSlate ==
  load.at = "set" =>
    /\ inTx = {}
    /\ \A r \in Row : owner[r] = Nobody
    /\ \A t \in Txn : ~txn[t].busy
    /\ \A i \in DOMAIN sent : sent[i].kind = "step" => sent[i].gen < generation

(* step: a transaction that waits for its statement is heard of again, so  *)
(* that its next step is taken, whatever is killed or loaded meanwhile.    *)
BusySettles == \A t \in Txn : txn[t].busy ~> ~txn[t].busy
=============================================================================
