---------------------------- MODULE Pessimistic ----------------------------
(***************************************************************************)
(* PESSIMISTIC, the service's default claim strategy: the account row is   *)
(* locked first, so everything from the count to the commit runs under a   *)
(* per-account mutex.                                                      *)
(***************************************************************************)
EXTENDS ClaimService

InTx == {"count", "choose", "grant"}      \* steps that hold the account lock

(* readAccount FOR UPDATE, the first statement. *)
ClaimLock(c) ==
  /\ claim[c].step = "read" /\ lock = Free
  /\ lock' = c
  /\ SeeAccount(c)
  /\ UNCHANGED <<rowVars, maxStreams, version, newLimit, requests, answers>>

(* The wait for the lock ends in a 1205. *)
ClaimLockTimeout(c) ==
  /\ claim[c].step = "read" /\ lock # Free
  /\ Retry(c)
  /\ UNCHANGED storeVars

RejectKeepsLock(c) ==     \* faulty: the rejection does not end its transaction
  Rejects(c) /\ RejectCommit(c) /\ UNCHANGED lock
ClaimReject(c) == Rejects(c) /\ RejectCommit(c) /\ lock' = Free
ClaimGrant(c) == claim[c].step = "grant" /\ GrantCommit(c) /\ lock' = Free

ClaimDuplicate(c) ==
  /\ Rejects(c) \/ claim[c].step = "grant"
  /\ DuplicateRollback(c)
  /\ lock' = Free

Locked(c) == \/ CountActive(c) \/ OldestActive(c)
             \/ ClaimReject(c) \/ ClaimGrant(c) \/ ClaimDuplicate(c)

Next ==
  \/ Around
  \/ \E c \in Conn : ClaimLock(c) \/ ClaimLockTimeout(c) \/ Locked(c)

Spec == Init /\ [][Next]_vars

FairSpec == /\ Spec /\ StoreFairness
            /\ \A c \in Conn : SF_vars(ClaimLock(c)) /\ WF_vars(Locked(c))
-----------------------------------------------------------------------------
(* Why the limit holds: while a connection holds the account lock, nobody  *)
(* else makes a session active or moves the limit, so what it counted and  *)
(* chose stays good until it commits.                                      *)
LockHolder ==
  /\ \A c \in Conn : claim[c].step \in InTx <=> lock = c
  /\ lock = Settings <=> newLimit # 0

ReadStillValid == \A c \in Conn : RoomMade(c)

SettingsStillValid == lock = Settings => Cardinality(Active) <= newLimit

LimitInv == LimitRespected /\ LockHolder /\ ReadStillValid /\ SettingsStillValid
=============================================================================
