----------------------------- MODULE Strategies -----------------------------
(***************************************************************************)
(* The lab's strategies on one account, each with the operations of the    *)
(* service around it.  The strategy is fixed: an experiment uses one.      *)
(***************************************************************************)
EXTENDS Isolation, SchemaGuards, RedisLease

CONSTANTS
  Several,     \* the strategies tried with more than one stream
  Briefly      \* bound: strategies that get one session less

ASSUME ChoiceAssumption ==
  /\ Several \subseteq AllTried \ {"CONSTRAINT"}    \* supportsMaxStreamsAbove1
  /\ Briefly \subseteq AllTried

strategyVars == redisVars

(* max_streams is what the experiment set. *)
StrategiesInit ==
  /\ TxInit /\ RedisInit
  /\ maxStreams > 1 => strategy \in Several

SqlStep(c) ==
  \/ strategy = "NAIVE" /\ NaiveStep(c)
  \/ strategy = "TXN_RR" /\ TxnStep(c)
  \/ strategy = "SERIALIZABLE" /\ SerialStep(c)
  \/ strategy = "CONSTRAINT" /\ UniqueStep(c)
  \/ strategy = "TRIGGER" /\ TriggerStep(c)

(* One step of the claim that c runs. *)
ClaimSteps(c) ==
  /\ \/ SqlStep(c) /\ UNCHANGED <<slots, calls>>
     \/ strategy = "REDIS_LEASE" /\ RedisStep(c)
  /\ UNCHANGED strategy

GivesUp(c) ==
  \/ Dies(c) /\ UNCHANGED <<slots, calls>>
  \/ strategy = "REDIS_LEASE" /\ RedisFails(c)

Serve ==
  /\ \/ strategy # "REDIS_LEASE" /\ Operations /\ UNCHANGED <<slots, calls>>
     \/ strategy = "REDIS_LEASE" /\ RedisOperations
  /\ Waits
  /\ UNCHANGED <<strategy, claim, tx>>

StrategiesNext ==
  \/ /\ strategy \in Briefly => Cardinality(Inserted) + Cardinality(Running) < MaxSession - 1
     /\ Starts /\ UNCHANGED <<strategy, tx, slots, calls>>
  \/ \E c \in Conn : ClaimSteps(c)
  \/ \E c \in Conn : GivesUp(c) /\ UNCHANGED strategy
  \/ Serve
  \/ HookStep \/ HookLost

StrategiesSpec == StrategiesInit /\ [][StrategiesNext]_strategyVars
-----------------------------------------------------------------------------
(* serializable.ts, constraint.ts "PREVENTS write skew": under the two     *)
(* strategies that leave the check to locks or to the index the limit      *)
(* holds, and under SERIALIZABLE a device has one open session.            *)
Guarded ==
  /\ strategy \in {"SERIALIZABLE", "CONSTRAINT"} => LimitRespected
  /\ strategy = "SERIALIZABLE" => OneOpenPerDevice

(* bumpVersion in the transaction that changes the sessions: under every   *)
(* strategy with a transaction the clients can tell the state before a     *)
(* change from the state after it.                                         *)
VersionsFollow ==
  [][strategy # "NAIVE" =>
       /\ status' # status => version' > version
       /\ ~(Active' \subseteq Active) => version' > version]_strategyVars
=============================================================================
