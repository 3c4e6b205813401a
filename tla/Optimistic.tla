---------------------------- MODULE Optimistic ----------------------------
(***************************************************************************)
(* OPTIMISTIC: the account and the active set are read without locks; the  *)
(* claim commits only if state_version is still the one it read            *)
(* (compare-and-set), else it rolls back and is retried.                   *)
(***************************************************************************)
EXTENDS ClaimService

(* Read phase: a plain read sees the last committed row, locked or not. *)
ReadAccount(c) ==
  /\ claim[c].step = "read"
  /\ SeeAccount(c)
  /\ UNCHANGED storeVars

(* A rejection is never validated: it changes nothing. *)
ClaimReject(c) == Rejects(c) /\ RejectCommit(c) /\ UNCHANGED lock

(* Faulty: the UPDATE has no state_version in its WHERE clause. *)
NotValidated(c) == claim[c].step = "grant" /\ lock = Free

(* The CAS matches: it takes the row lock, and grant runs under it. *)
Validated(c) == /\ claim[c].step = "grant" /\ lock = Free
                /\ version = claim[c].seenVersion
ClaimGrant(c) == Validated(c) /\ GrantCommit(c) /\ UNCHANGED lock

ClaimDuplicate(c) ==
  /\ Rejects(c) \/ Validated(c)
  /\ DuplicateRollback(c)
  /\ UNCHANGED lock

(* The CAS matches no row (OccConflictError), or waits for the row lock    *)
(* until a 1205: ROLLBACK and retry.                                       *)
ClaimConflict(c) ==
  /\ claim[c].step = "grant"
  /\ lock # Free \/ version # claim[c].seenVersion
  /\ Retry(c)
  /\ UNCHANGED storeVars

ClaimStep(c) ==
  \/ ReadAccount(c) \/ CountActive(c) \/ OldestActive(c)
  \/ ClaimReject(c) \/ ClaimGrant(c) \/ ClaimDuplicate(c) \/ ClaimConflict(c)

Next == Around \/ \E c \in Conn : ClaimStep(c)

Spec == Init /\ [][Next]_vars

FairSpec == Spec /\ StoreFairness /\ \A c \in Conn : WF_vars(ClaimStep(c))
-----------------------------------------------------------------------------
(* Why the limit holds: every step that makes a session active or moves    *)
(* the limit bumps state_version.  So as long as the version a claim read  *)
(* is current, the limit it read is too and the active set only shrank.    *)
VersionsPast == \A c \in Conn : claim[c].seenVersion <= version

ReadStillValid ==
  \A c \in Conn : claim[c].seenVersion = version => RoomMade(c)

SettingsHolds ==
  /\ lock \in {Free, Settings}
  /\ lock = Settings <=> newLimit # 0
  /\ lock = Settings => Cardinality(Active) <= newLimit

LimitInv == LimitRespected /\ VersionsPast /\ ReadStillValid /\ SettingsHolds
=============================================================================
