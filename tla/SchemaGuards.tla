---------------------------- MODULE SchemaGuards ----------------------------
(***************************************************************************)
(* CONSTRAINT and TRIGGER: the database itself refuses the INSERT, by the  *)
(* unique index on active_account_id or by a trigger that counts.          *)
(***************************************************************************)
EXTENDS StrategyClaims

(* CONSTRAINT: the account's lapsed rows would hold the key, so they are   *)
(* expired first.                                                          *)
UniqueExpire(c) ==
  /\ claim[c].step = "read" /\ Lapsed \cap LockedByOthers(c) = {}
  /\ tx' = [tx EXCEPT ![c].expired = Lapsed, ![c].rows = Lapsed]
  /\ ChooseAll(c) /\ UNCHANGED storeVars

UniqueChoose(c) == OldestActive(c) /\ UNCHANGED tx

Ends(c) == (OwnOpen(c) \cup Preempted(c)) \ tx[c].expired

(* preempt and endDeviceSessions. *)
UniqueEnds(c) ==
  /\ At(c, "start") /\ Ends(c) \cap LockedByOthers(c) = {}
  /\ tx' = [tx EXCEPT ![c].stage = "ended", ![c].own = OwnOpen(c) \ tx[c].expired, ![c].rows = @ \cup Ends(c)]
  /\ UNCHANGED <<storeVars, claim>>

(* Who holds the key once this claim's own updates are done. *)
Rivals(c) == {s \in Sid : status[s] = "PLAYING"} \ tx[c].rows
AtKey(c) == At(c, "ended") /\ \A x \in Conn \ {c} : tx[x].stage # "inserted"

(* Faulty: the index is missing, as under any other strategy. *)
UniqueInsertNoIndex(c) == At(c, "ended") /\ Into(c, "inserted") /\ UNCHANGED storeVars

(* The INSERT waits for an uncommitted entry of another claim. *)
UniqueInsert(c) == AtKey(c) /\ Rivals(c) = {} /\ Into(c, "inserted") /\ UNCHANGED storeVars

(* 1062 on the index: TAKEOVER tries again, NORMAL rolls back and rejects. *)
UniqueTaken(c) ==
  /\ AtKey(c) /\ Rivals(c) # {}
  /\ IF claim[c].mode = "TAKEOVER" THEN Retry(c) /\ Over(c)
     ELSE tx' = [tx EXCEPT ![c] = [NoTx EXCEPT !.stage = "taken"]] /\ UNCHANGED claim
  /\ UNCHANGED storeVars

UniqueCommit(c) ==
  /\ At(c, "inserted")
  /\ IF Prior(c) = {} THEN CommitGrant(c, tx[c].own) /\ Finish(c) /\ Over(c) ELSE Duplicate(c)

(* Sessions before account: another claim, the reaper, a release or end-all holds the     *)
(* account row and waits for a row of this claim.                          *)
UniqueDeadlock(c) ==
  (At(c, "ended") \/ At(c, "inserted")) /\ tx[c].rows # {} /\ RollbackRetry(c)

UniqueStep(c) == \/ UniqueExpire(c) \/ UniqueChoose(c) \/ UniqueEnds(c)
                 \/ UniqueInsert(c) \/ UniqueTaken(c)
                 \/ UniqueCommit(c) \/ UniqueDeadlock(c) \/ RefusedReject(c)
-----------------------------------------------------------------------------
(* TRIGGER: nothing is counted before the INSERT. *)
TriggerStart(c) == claim[c].step = "read" /\ ChooseAll(c) /\ UNCHANGED <<storeVars, tx>>
TriggerChoose(c) == OldestActive(c) /\ UNCHANGED tx

(* The INSERT's trigger counts what is committed; it waits for rows that   *)
(* another claim updated or inserted.  No gap is locked at READ COMMITTED. *)
Counts(c) ==
  /\ At(c, "start") /\ (Ends(c) \cup Others(c)) \cap LockedByOthers(c) = {}
  /\ \A x \in Conn \ {c} : tx[x].stage # "inserted"
Full(c) == Cardinality(Others(c) \ Preempted(c)) >= maxStreams

TriggerCount(c) ==
  /\ Counts(c) /\ ~Full(c)
  /\ tx' = [tx EXCEPT ![c].stage = "counted", ![c].own = OwnOpen(c), ![c].rows = Ends(c)]
  /\ UNCHANGED <<storeVars, claim>>

(* SIGNAL 45000: ROLLBACK, and the rejection follows. *)
TriggerSignals(c) == Counts(c) /\ Full(c) /\ Into(c, "taken") /\ UNCHANGED storeVars

(* The trigger reads max_streams with a shared lock; the row is inserted. *)
TriggerInsert(c) ==
  /\ At(c, "counted")
  /\ tx' = [tx EXCEPT ![c].stage = "inserted", ![c].reads = TRUE]
  /\ UNCHANGED <<storeVars, claim>>

TriggerCommit(c) ==
  /\ At(c, "inserted") /\ ~OthersRead(c)
  /\ IF Prior(c) = {} THEN CommitGrant(c, tx[c].own \cap Open) /\ Finish(c) /\ Over(c)
     ELSE Duplicate(c)

TriggerDeadlock(c) ==
  At(c, "inserted") /\ (OthersRead(c) \/ tx[c].rows # {}) /\ RollbackRetry(c)

TriggerStep(c) == \/ TriggerStart(c) \/ TriggerChoose(c) \/ TriggerCount(c) \/ TriggerSignals(c)
                  \/ TriggerInsert(c) \/ TriggerCommit(c) \/ TriggerDeadlock(c) \/ RefusedReject(c)
=============================================================================
