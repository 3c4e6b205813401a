--------------------------- MODULE StrategyClaims ---------------------------
(***************************************************************************)
(* What the claim strategies other than PESSIMISTIC and OPTIMISTIC need    *)
(* beside ClaimService: the part of a transaction that the others do not   *)
(* see before its COMMIT, the locks it holds meanwhile, and the rest of    *)
(* the service waiting for them.                                           *)
(*                                                                         *)
(* NOW(3) and commits: heartbeats are visible in the tick of their NOW(3)  *)
(* (Skew = 0) and the limit does not change (no settings transaction), as  *)
(* in the lab and the simulator, which alone offer all the strategies.     *)
(***************************************************************************)
EXTENDS ClaimService

CONSTANT Tried           \* the strategies considered

AllTried == {"NAIVE", "TXN_RR", "SERIALIZABLE", "CONSTRAINT", "TRIGGER", "REDIS_LEASE"}
ASSUME TriedAssumption == Tried \subseteq AllTried

VARIABLES
  strategy,   \* what every claim uses
  tx          \* connection -> what its transaction did so far

txVars == <<vars, strategy, tx>>

(* Where the write phase (grant) is ("taken": the database refused the     *)
(* INSERT and everything is rolled back, the rejection is yet to be        *)
(* written), and what it has done so far.                                  *)
NoTx == [stage |-> "start",
         made |-> 0,           \* the session it inserted
         own |-> {},           \* the device's open sessions it read
         expired |-> {},       \* lapsed sessions it expired
         rows |-> {},          \* session rows it has locked
         reads |-> FALSE,      \* it holds an S lock on the account row
         victim |-> NoDevice]  \* whose slot it took

TxInit == Init /\ strategy \in Tried /\ tx = [c \in Conn |-> NoTx]

At(c, stage) == claim[c].step = "grant" /\ tx[c].stage = stage
Into(c, stage) == tx' = [tx EXCEPT ![c].stage = stage] /\ UNCHANGED claim
Over(c) == tx' = [tx EXCEPT ![c] = NoTx]

OwnOpen(c) == {s \in Open : owner[s] = claim[c].device}
Preempted(c) == {s \in claim[c].toPreempt : status[s] = "PLAYING"}
LockedByOthers(c) == UNION {tx[x].rows : x \in Conn \ {c}}
OthersRead(c) == \E x \in Conn \ {c} : tx[x].reads

(* readAccount; state_version goes no further than the answer. *)
SeeLimit(c) == claim' = [claim EXCEPT ![c].step = "count", ![c].seenMax = maxStreams]

(* ROLLBACK and withRetry: 1213, 1205, or OccConflictError. *)
RollbackRetry(c) == Retry(c) /\ Over(c) /\ UNCHANGED storeVars

(* TAKEOVER of CONSTRAINT and TRIGGER: up to 1000 sessions are preempted,  *)
(* which is all of them; NORMAL chooses none.                              *)
ChooseAll(c) ==
  claim' = [claim EXCEPT ![c] =
    IF claim[c].mode = "TAKEOVER" THEN [@ EXCEPT !.step = "choose", !.excess = 1000]
    ELSE [@ EXCEPT !.step = "grant"]]

(* Faulty: grant leaves state_version alone. *)
CommitGrantNoBump(c, own) == \E s \in Sid :
  /\ s \notin Inserted /\ \A t \in Sid : t < s => t \in Inserted
  /\ status' = [t \in Sid |-> IF t = s THEN "PLAYING"
                              ELSE IF t \in tx[c].expired THEN "EXPIRED"
                              ELSE IF t \in own THEN "ENDED"
                              ELSE IF t \in Preempted(c) THEN "PREEMPTED" ELSE status[t]]
  /\ left' = [t \in Sid |-> IF t = s THEN LeaseTicks
                            ELSE IF status'[t] # "PLAYING" THEN -Skew ELSE left[t]]
  /\ owner' = [owner EXCEPT ![s] = claim[c].device]
  /\ requests' = requests \cup ClaimEvent(claim[c].device, claim[c].id, s)
  /\ Answer(ClaimEvent(claim[c].device, claim[c].id, s))
  /\ UNCHANGED <<beat, accountVars>>

(* The COMMIT of a grant: what it did to other sessions, the new row,      *)
(* version and event become visible at once.                               *)
CommitGrant(c, own) == \E s \in Sid :
  /\ s \notin Inserted /\ \A t \in Sid : t < s => t \in Inserted
  /\ status' = [t \in Sid |-> IF t = s THEN "PLAYING"
                              ELSE IF t \in tx[c].expired THEN "EXPIRED"
                              ELSE IF t \in own THEN "ENDED"
                              ELSE IF t \in Preempted(c) THEN "PREEMPTED" ELSE status[t]]
  /\ left' = [t \in Sid |-> IF t = s THEN LeaseTicks
                            ELSE IF status'[t] # "PLAYING" THEN -Skew ELSE left[t]]
  /\ owner' = [owner EXCEPT ![s] = claim[c].device]
  /\ Bump
  /\ requests' = requests \cup ClaimEvent(claim[c].device, claim[c].id, s)
  /\ Answer(ClaimEvent(claim[c].device, claim[c].id, s))
  /\ UNCHANGED <<beat, maxStreams, lock, newLimit>>

(* A concurrent duplicate has committed its event: 1062, ROLLBACK.         *)
Duplicate(c) == DuplicateRollback(c) /\ Over(c) /\ UNCHANGED lock

(* reject after the refused transaction, in one of its own.                *)
RefusedReject(c) ==
  /\ At(c, "taken")
  /\ IF Prior(c) = {} THEN RejectCommit(c) /\ UNCHANGED lock /\ Over(c) ELSE Duplicate(c)

(* The rest of the service: what needs the account row waits for the S     *)
(* locks, and no locked session row changes.                               *)
Waits ==
  /\ version' # version => \A c \in Conn : ~tx[c].reads
  /\ \A s \in UNION {tx[c].rows : c \in Conn} : status'[s] = status[s] /\ left'[s] <= left[s]

(* These claims send no settings and the service starts them like any      *)
(* other; a process or connection that dies leaves what was committed.     *)
Starts == \/ \E c \in Conn, d \in Device, id \in RequestId \cup {NoRequestId}, mode \in Modes :
               ClaimStart(c, d, id, mode)
          \/ \E d \in Device, id \in RequestId : ClaimReplay(d, id)
Dies(c) == ClaimAbort(c) /\ Over(c)

(* With Skew = 0 a heartbeat starts and commits in the same tick. *)
Heartbeat(s) ==
  /\ s \in Active /\ left' = [left EXCEPT ![s] = LeaseTicks]
  /\ UNCHANGED <<status, owner, beat, accountVars, requests, answers>>

Operations ==
  \/ \E s \in Sid : Heartbeat(s) \/ Pause(s) \/ Release(s)
  \/ EndAll \/ Reap \/ Tick
=============================================================================
