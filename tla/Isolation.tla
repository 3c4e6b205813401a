----------------------------- MODULE Isolation -----------------------------
(***************************************************************************)
(* NAIVE, TXN_RR and SERIALIZABLE: the same statements, each one a         *)
(* transaction of its own, in one transaction that reads a snapshot, and   *)
(* in one whose reads take shared locks.                                   *)
(***************************************************************************)
EXTENDS StrategyClaims

(* NAIVE: every statement of grant commits by itself. *)
NaiveRead(c) == claim[c].step = "read" /\ SeeLimit(c) /\ UNCHANGED <<storeVars, tx>>
NaiveChoose(c) == (CountActive(c) \/ OldestActive(c)) /\ UNCHANGED tx

NaiveReject(c) ==
  /\ Rejects(c)
  /\ IF Prior(c) = {} THEN RejectCommit(c) /\ UNCHANGED <<lock, tx>> ELSE Duplicate(c)

NaivePreempt(c) ==
  /\ At(c, "start")
  /\ Retire(Preempted(c), "PREEMPTED") /\ Into(c, "preempted")
  /\ UNCHANGED <<owner, beat, accountVars, requests, answers>>

NaiveEndOwn(c) ==
  /\ At(c, "preempted")
  /\ Retire(OwnOpen(c), "ENDED") /\ Into(c, "ended")
  /\ UNCHANGED <<owner, beat, accountVars, requests, answers>>

NaiveInsert(c) == \E s \in Sid :
  /\ At(c, "ended")
  /\ s \notin Inserted /\ \A t \in Sid : t < s => t \in Inserted
  /\ status' = [status EXCEPT ![s] = "PLAYING"] /\ left' = [left EXCEPT ![s] = LeaseTicks]
  /\ owner' = [owner EXCEPT ![s] = claim[c].device]
  /\ tx' = [tx EXCEPT ![c].stage = "inserted", ![c].made = s]
  /\ UNCHANGED <<beat, accountVars, requests, answers, claim>>

NaiveBump(c) ==
  /\ At(c, "inserted") /\ Bump /\ Into(c, "bumped")
  /\ UNCHANGED <<rowVars, maxStreams, lock, newLimit, requests, answers>>

(* The event; for a duplicate it fails, and the new session stays. *)
NaiveEvent(c) ==
  /\ At(c, "bumped")
  /\ LET event == ClaimEvent(claim[c].device, claim[c].id, tx[c].made)
         outcome == IF Prior(c) = {} THEN event ELSE Prior(c)
     IN requests' = requests \cup (IF Prior(c) = {} THEN event ELSE {}) /\ Answer(outcome)
  /\ Finish(c) /\ Over(c)
  /\ UNCHANGED <<rowVars, accountVars>>

NaiveStep(c) == \/ NaiveRead(c) \/ NaiveChoose(c) \/ NaiveReject(c) \/ NaivePreempt(c)
                \/ NaiveEndOwn(c) \/ NaiveInsert(c) \/ NaiveBump(c) \/ NaiveEvent(c)
-----------------------------------------------------------------------------
(* TXN_RR: account, count, the choice and the device's own sessions are    *)
(* read from one snapshot.                                                 *)
TxnSnapshot(c) == \E V \in SUBSET Others(c) :
  LET excess == Cardinality(Others(c)) - maxStreams + 1
  IN /\ claim[c].step = "read"
     /\ \A s \in V, t \in Others(c) \ V : s < t
     /\ Cardinality(V) = IF excess > 0 THEN excess ELSE 0
     /\ claim' = [claim EXCEPT ![c] =
          [@ EXCEPT !.step = "grant", !.excess = excess, !.toPreempt = V,
                    !.seenMax = maxStreams]]
     /\ tx' = [tx EXCEPT ![c].own = OwnOpen(c)]
     /\ UNCHANGED storeVars

Refused(c) == claim[c].mode = "NORMAL" /\ claim[c].excess > 0

TxnReject(c) ==
  /\ At(c, "start") /\ Refused(c)
  /\ IF Prior(c) = {} THEN RejectCommit(c) /\ UNCHANGED lock /\ Over(c) ELSE Duplicate(c)

TxnGrant(c) ==
  /\ At(c, "start") /\ ~Refused(c)
  /\ IF Prior(c) = {} THEN CommitGrant(c, tx[c].own \cap Open) /\ Finish(c) /\ Over(c)
     ELSE Duplicate(c)

(* It updated sessions and then waits for the account row, whose owner     *)
(* waits for one of them: 1213.                                            *)
TxnDeadlock(c) ==
  /\ At(c, "start") /\ ~Refused(c) /\ Preempted(c) \cup (tx[c].own \cap Open) # {}
  /\ RollbackRetry(c)

TxnStep(c) == TxnSnapshot(c) \/ TxnReject(c) \/ TxnGrant(c) \/ TxnDeadlock(c)
-----------------------------------------------------------------------------
(* SERIALIZABLE: the reads lock the account row and the scanned range.     *)
SerialRead(c) ==
  /\ claim[c].step = "read" /\ SeeLimit(c)
  /\ tx' = [tx EXCEPT ![c].reads = TRUE]
  /\ UNCHANGED storeVars

SerialCount(c) == CountActive(c) /\ tx' = [tx EXCEPT ![c].rows = Active]
SerialChoose(c) == OldestActive(c) /\ UNCHANGED tx

SerialReject(c) ==
  /\ Rejects(c)
  /\ IF Prior(c) = {} THEN RejectCommit(c) /\ UNCHANGED lock /\ Over(c) ELSE Duplicate(c)

(* The INSERT waits for the gap, the bump for the account row. *)
SerialGrant(c) ==
  /\ At(c, "start") /\ ~OthersRead(c)
  /\ IF Prior(c) = {} THEN CommitGrant(c, OwnOpen(c)) /\ Finish(c) /\ Over(c) ELSE Duplicate(c)

(* Both wait for each other (1213), or one waited too long (1205). *)
SerialDeadlock(c) == At(c, "start") /\ OthersRead(c) /\ RollbackRetry(c)

SerialStep(c) == \/ SerialRead(c) \/ SerialCount(c) \/ SerialChoose(c)
                 \/ SerialReject(c) \/ SerialGrant(c) \/ SerialDeadlock(c)
=============================================================================
