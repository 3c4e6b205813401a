------------------------- MODULE PessimisticProofs -------------------------
(***************************************************************************)
(* Theorems about PESSIMISTIC for every number of devices, connections,    *)
(* sessions and limits.                                                    *)
(***************************************************************************)
EXTENDS Pessimistic, ClaimServiceProofs

LEMMA NextTypes == Types /\ [Next]_vars => Types'
  <1> SUFFICES ASSUME Types, [Next]_vars PROVE Types'
    OBVIOUS
  <1>0. TypeInv /\ TypeOK /\ StoreTypeOK /\ Named
    BY DEF Types, TypeInv, TypeOK
  <1>1. CASE Around
    BY <1>0, <1>1, AroundType DEF Types
  <1>2. ASSUME NEW c \in Conn, ClaimLock(c)
        PROVE  Types'
    <2>1. StoreTypeOK' /\ lock' # Settings
      BY <1>0, <1>2, StoreAssumption DEF ClaimLock, StoreTypeOK, rowVars, StoreAssumption
    <2>2. claim' \in [Conn -> Claim] /\ Named'
      BY <1>0, <1>2, SeeAccountType, NamedStep DEF ClaimLock
    <2> QED
      BY <2>1, <2>2 DEF Types, TypeInv, TypeOK
  <1>3. ASSUME NEW c \in Conn, ClaimLockTimeout(c)
        PROVE  Types'
    <2>1. StoreTypeOK' /\ (lock' = Settings => newLimit' \in Limits)
      BY <1>0, <1>3 DEF ClaimLockTimeout, StoreTypeOK, storeVars, rowVars, accountVars, TypeInv
    <2>2. claim' \in [Conn -> Claim] /\ Named'
      BY <1>0, <1>3, RetryType, NamedStep DEF ClaimLockTimeout
    <2> QED
      BY <2>1, <2>2 DEF Types, TypeInv, TypeOK
  <1>4. ASSUME NEW c \in Conn, CountActive(c) \/ OldestActive(c)
        PROVE  Types'
    <2>1. TypeOK' /\ Named'
      BY <1>0, <1>4, ChoiceType, NamedStep
    <2> QED
      BY <1>0, <1>4, <2>1 DEF Types, TypeInv, CountActive, OldestActive, storeVars, accountVars
  <1>5. ASSUME NEW c \in Conn, ClaimReject(c) \/ ClaimGrant(c) \/ ClaimDuplicate(c)
        PROVE  Types'
    <2>1. Finish(c) /\ lock' = Free /\ claim[c].step # "idle"
      BY <1>5 DEF ClaimReject, ClaimGrant, ClaimDuplicate, Rejects, RejectCommit,
                  GrantCommit, DuplicateRollback
    <2>2. claim' \in [Conn -> Claim] /\ Named'
      BY <1>0, <2>1, FinishType, NamedStep
    <2>3. StoreTypeOK'
      <3>1. CASE ClaimReject(c)
        BY <1>0, <2>1, <3>1, ClaimFacts, RejectType DEF ClaimReject, RejectCommit
      <3>2. CASE ClaimGrant(c)
        BY <1>0, <2>1, <3>2, ClaimFacts, GrantType DEF ClaimGrant, GrantCommit
      <3>3. CASE ClaimDuplicate(c)
        BY <1>0, <2>1, <3>3
        DEF ClaimDuplicate, DuplicateRollback, Prior, PriorOutcome, StoreTypeOK, rowVars
      <3> QED
        BY <1>5, <3>1, <3>2, <3>3
    <2> QED
      BY <2>1, <2>2, <2>3, StoreAssumption DEF Types, TypeInv, TypeOK, StoreAssumption
  <1>6. CASE UNCHANGED vars
    BY <1>6 DEF vars, storeVars, rowVars, accountVars, Types, TypeInv, TypeOK, StoreTypeOK, Named
  <1> QED
    BY <1>1, <1>2, <1>3, <1>4, <1>5, <1>6 DEF Next, Locked

(* Every variable keeps its type under PESSIMISTIC, for every clock skew.  *)
THEOREM PessimisticTypes == Spec => []TypeOK
  <1>1. Types => TypeOK
    BY DEF Types, TypeInv
  <1> QED
    BY <1>1, InitTypes, NextTypes, PTL DEF Spec
-----------------------------------------------------------------------------
(* The stream limit: LimitInv is inductive.                                *)

LEMMA InitLimit == Init => LimitInv
  <1> SUFFICES ASSUME Init PROVE LimitInv
    OBVIOUS
  <1>1. Active = {}
    BY DEF Init, StoreInit, Active
  <1>2. maxStreams \in Limits /\ Cardinality({}) = 0
    BY FS_EmptySet DEF Init, StoreInit
  <1>3. LimitRespected
    BY <1>1, <1>2, LimitsNat DEF LimitRespected
  <1>4. LockHolder /\ ReadStillValid /\ SettingsStillValid
    BY StoreAssumption
    DEF Init, StoreInit, NoClaim, InTx, LockHolder, ReadStillValid, RoomMade,
        SettingsStillValid, StoreAssumption
  <1> QED
    BY <1>3, <1>4 DEF LimitInv

(* The claims that hold the lock are not touched. *)
HoldersUntouched ==
  \A c \in Conn : \/ claim'[c] = claim[c]
                  \/ claim[c].step \notin InTx /\ claim'[c].step \notin InTx

LEMMA OneClaimTouched ==
  ASSUME Types, NEW c \in Conn, NEW r, claim' = [claim EXCEPT ![c] = r],
         claim[c].step \notin InTx, r.step \notin InTx
  PROVE  HoldersUntouched
  BY DEF HoldersUntouched, Types, TypeInv, TypeOK

(* A step that starts no session and changes neither the limit nor who     *)
(* holds the lock, and of the claims only those that hold nothing.         *)
LEMMA BystanderKeepsLimit ==
  ASSUME Types, LimitInv, Shrinks, UNCHANGED <<maxStreams, lock, newLimit>>,
         HoldersUntouched
  PROVE  LimitInv'
  <1>1. LimitRespected'
    BY ShrinkKeepsLimit DEF Types, TypeInv, TypeOK, StoreTypeOK, LimitInv, LimitRespected
  <1>2. LockHolder'
    BY DEF LimitInv, LockHolder, HoldersUntouched
  <1>3. ASSUME NEW c \in Conn PROVE RoomMade(c)'
    <2> USE DEF HoldersUntouched
    <2>1. CASE claim'[c] = claim[c]
      BY <2>1, RoomKept DEF LimitInv, ReadStillValid
    <2>2. CASE claim'[c].step \notin InTx
      BY <2>2 DEF RoomMade, InTx
    <2> QED
      BY <2>1, <2>2
  <1>4. SettingsStillValid'
    BY ShrinkKeepsLimit DEF Types, TypeInv, LimitInv, SettingsStillValid
  <1> QED
    BY <1>1, <1>2, <1>3, <1>4 DEF LimitInv, ReadStillValid

(* The holder of the lock ends its transaction. *)
LEMMA UnlockKeepsLimit ==
  ASSUME Types, LimitInv, NEW c \in Conn, claim[c].step \in InTx,
         Finish(c), lock' = Free, newLimit' = newLimit, LimitRespected'
  PROVE  LimitInv'
  <1>1. claim \in [Conn -> Claim]
    BY DEF Types, TypeInv, TypeOK
  <1>2. \A d \in Conn : claim'[d].step \notin InTx
    BY <1>1 DEF LimitInv, LockHolder, Finish, NoClaim, InTx
  <1>3. newLimit' = 0
    BY StoreAssumption DEF LimitInv, LockHolder, StoreAssumption
  <1> QED
    BY <1>2, <1>3, StoreAssumption
    DEF LimitInv, LockHolder, ReadStillValid, RoomMade, SettingsStillValid, InTx,
        StoreAssumption

LEMMA StoreKeepsLimit ==
  ASSUME ClockAssumption, Types, LimitInv, StoreNext, UNCHANGED claim
  PROVE  LimitInv'
  <1>0. StoreTypeOK /\ Shrinks
    BY StoreNextShrinks DEF Types, TypeInv, TypeOK
  <1>1. ASSUME NEW m \in Limits, SettingsCount(m)
        PROVE  LimitInv'
    <2>1. /\ lock = Free /\ lock' = Settings /\ newLimit' = m /\ maxStreams' = maxStreams
          /\ Active' = Active /\ owner' = owner /\ Cardinality(Active) <= m
      BY <1>1 DEF SettingsCount, rowVars, Active
    <2>2. \A c \in Conn : claim[c].step \notin InTx
      BY <2>1, StoreAssumption DEF LimitInv, LockHolder, StoreAssumption
    <2>3. ReadStillValid'
      BY <2>2 DEF ReadStillValid, RoomMade, InTx
    <2>4. LockHolder'
      BY <2>1, <2>2, LimitsNat, StoreAssumption DEF LockHolder, StoreAssumption
    <2> QED
      BY <2>1, <2>3, <2>4 DEF LimitInv, LimitRespected, SettingsStillValid
  <1>2. CASE SettingsCommit \/ SettingsAbort
    <2>1. /\ lock = Settings /\ lock' = Free /\ newLimit' = 0 /\ Active' = Active
          /\ maxStreams' \in {maxStreams, newLimit}
      BY <1>2 DEF SettingsCommit, SettingsAbort, rowVars, Active
    <2>2. \A c \in Conn : claim[c].step \notin InTx
      BY <2>1, StoreAssumption DEF LimitInv, LockHolder, StoreAssumption
    <2>3. LimitRespected'
      BY <2>1 DEF LimitInv, LimitRespected, SettingsStillValid
    <2> QED
      BY <2>1, <2>2, <2>3, StoreAssumption
      DEF LimitInv, LockHolder, ReadStillValid, RoomMade, SettingsStillValid, InTx,
          StoreAssumption
  <1>3. CASE UNCHANGED <<maxStreams, lock, newLimit>>
    <2>1. HoldersUntouched
      BY DEF HoldersUntouched
    <2> QED
      BY <1>0, <1>3, <2>1, BystanderKeepsLimit
  <1> QED
    BY <1>1, <1>2, <1>3
    DEF StoreNext, HeartbeatStart, HeartbeatCommit, HeartbeatLost, Pause, Release, EndAll,
        Reap, Tick, accountVars

LEMMA NextLimit ==
  ASSUME ClockAssumption, Types, LimitInv, [Next]_vars
  PROVE  LimitInv'
  <1>0. /\ TypeOK /\ StoreTypeOK
        /\ claim \in [Conn -> Claim]
    BY DEF Types, TypeInv, TypeOK
  <1>1. ASSUME NEW c \in Conn, NEW d \in Device, NEW id \in RequestId \cup {NoRequestId},
               NEW mode \in Modes, ClaimStart(c, d, id, mode)
        PROVE  LimitInv'
    <2> DEFINE r == [NoClaim EXCEPT !.step = "read", !.device = d, !.id = id, !.mode = mode]
    <2>0. r.step = "read"
      BY DEF NoClaim
    <2>1. HoldersUntouched
      BY <1>1, <2>0, OneClaimTouched DEF ClaimStart, InTx
    <2> QED
      BY <1>1, <2>1, SameStoreShrinks, BystanderKeepsLimit
      DEF ClaimStart, storeVars, accountVars
  <1>2. ASSUME NEW d \in Device, NEW id \in RequestId, ClaimReplay(d, id)
        PROVE  LimitInv'
    <2>1. HoldersUntouched
      BY <1>2 DEF HoldersUntouched, ClaimReplay
    <2> QED
      BY <1>2, <2>1, SameStoreShrinks, BystanderKeepsLimit DEF ClaimReplay, accountVars
  <1>3. ASSUME NEW c \in Conn, ClaimAbort(c)
        PROVE  LimitInv'
    <2>1. Finish(c) /\ Shrinks /\ UNCHANGED <<maxStreams, newLimit>>
          /\ lock' = IF lock = c THEN Free ELSE lock
      BY <1>3, SameStoreShrinks DEF ClaimAbort
    <2>2. CASE lock = c
      <3>1. LimitRespected'
        BY <1>0, <2>1, ShrinkKeepsLimit DEF StoreTypeOK, LimitInv, LimitRespected
      <3>2. claim[c].step \in InTx
        BY <2>2 DEF LimitInv, LockHolder
      <3> QED
        BY <2>1, <2>2, <3>1, <3>2, UnlockKeepsLimit
    <2>3. CASE lock # c
      <3>1. claim[c].step \notin InTx
        BY <2>3 DEF LimitInv, LockHolder
      <3>2. HoldersUntouched
        BY <2>1, <3>1, OneClaimTouched DEF Finish, NoClaim, InTx
      <3> QED
        BY <2>1, <2>3, <3>2, BystanderKeepsLimit
    <2> QED
      BY <2>2, <2>3
  <1>4. CASE StoreNext /\ UNCHANGED claim
    BY <1>4, StoreKeepsLimit
  <1>5. ASSUME NEW c \in Conn, ClaimLock(c)
        PROVE  LimitInv'
    <2>1. /\ lock = Free /\ lock' = c /\ SeeAccount(c)
          /\ Active' = Active /\ owner' = owner /\ UNCHANGED <<maxStreams, newLimit>>
      BY <1>5 DEF ClaimLock, rowVars, Active
    <2>2. RoomMade(c)' /\ claim'[c].step = "count"
      BY <2>1, RoomSeen
    <2>3. \A d \in Conn : claim[d].step \notin InTx
      BY <2>1, StoreAssumption DEF LimitInv, LockHolder, StoreAssumption
    <2>4. \A d \in Conn \ {c} : claim'[d].step \notin InTx
      BY <1>0, <2>1, <2>3 DEF SeeAccount
    <2>5. ReadStillValid'
      BY <2>2, <2>4 DEF ReadStillValid, RoomMade, InTx
    <2>6. newLimit' = 0 /\ lock' # Settings
      BY <2>1, StoreAssumption DEF LimitInv, LockHolder, StoreAssumption
    <2> QED
      BY <2>1, <2>2, <2>4, <2>5, <2>6
      DEF LimitInv, LimitRespected, LockHolder, SettingsStillValid, InTx
  <1>6. ASSUME NEW c \in Conn, ClaimLockTimeout(c)
        PROVE  LimitInv'
    <2> DEFINE r == [NoClaim EXCEPT !.step = "read", !.device = claim[c].device,
                       !.id = claim[c].id, !.mode = claim[c].mode,
                       !.attempt = claim[c].attempt + 1]
    <2>0. r.step = "read" /\ NoClaim.step = "idle"
      BY DEF NoClaim
    <2>1. HoldersUntouched
      <3>1. claim' = [claim EXCEPT ![c] = NoClaim] \/ claim' = [claim EXCEPT ![c] = r]
        BY <1>6 DEF ClaimLockTimeout, Retry
      <3> QED
        BY <1>6, <2>0, <3>1, OneClaimTouched DEF ClaimLockTimeout, InTx
    <2> QED
      BY <1>6, <2>1, SameStoreShrinks, BystanderKeepsLimit
      DEF ClaimLockTimeout, storeVars, accountVars
  <1>7. ASSUME NEW c \in Conn, CountActive(c) \/ OldestActive(c)
        PROVE  LimitInv'
    <2>1. RoomMade(c)' /\ claim'[c].step \in InTx /\ claim[c].step \in InTx
      BY <1>7, RoomChosen DEF LimitInv, ReadStillValid, CountActive, OldestActive, InTx
    <2>2. \A d \in Conn \ {c} : claim'[d] = claim[d]
      BY <1>0, <1>7 DEF CountActive, OldestActive
    <2>3. UNCHANGED storeVars /\ Active' = Active /\ Shrinks
      BY <1>7, SameStoreShrinks DEF CountActive, OldestActive, storeVars, rowVars, Active
    <2>4. \A d \in Conn \ {c} : RoomMade(d)'
      BY <2>2, <2>3, RoomKept DEF LimitInv, ReadStillValid, storeVars, accountVars
    <2>5. LockHolder'
      BY <2>1, <2>2, <2>3 DEF LimitInv, LockHolder, storeVars, accountVars
    <2> QED
      BY <2>1, <2>3, <2>4, <2>5
      DEF LimitInv, ReadStillValid, LimitRespected, SettingsStillValid, storeVars, accountVars
  <1>8. ASSUME NEW c \in Conn, ClaimReject(c) \/ ClaimDuplicate(c)
        PROVE  LimitInv'
    <2>1. /\ claim[c].step \in InTx /\ Finish(c) /\ lock' = Free
          /\ UNCHANGED rowVars /\ UNCHANGED <<maxStreams, newLimit>>
      BY <1>8 DEF ClaimReject, ClaimDuplicate, Rejects, RejectCommit, Reject,
                  DuplicateRollback, InTx
    <2>2. LimitRespected'
      BY <1>0, <2>1, SameStoreShrinks, ShrinkKeepsLimit
      DEF StoreTypeOK, LimitInv, LimitRespected
    <2> QED
      BY <2>1, <2>2, UnlockKeepsLimit
  <1>9. ASSUME NEW c \in Conn, ClaimGrant(c)
        PROVE  LimitInv'
    <2>1. /\ claim[c].step = "grant" /\ claim[c].step \in InTx /\ GrantCommit(c)
          /\ Finish(c) /\ lock' = Free /\ newLimit' = newLimit
      BY <1>9 DEF ClaimGrant, GrantCommit, Grant, InTx
    <2>2. LimitRespected'
      BY <2>1, RoomForGrant DEF LimitInv, ReadStillValid
    <2> QED
      BY <2>1, <2>2, UnlockKeepsLimit
  <1>10. CASE UNCHANGED vars
    <2>1. HoldersUntouched
      BY <1>10 DEF HoldersUntouched, vars
    <2> QED
      BY <1>10, <2>1, SameStoreShrinks, BystanderKeepsLimit DEF vars, storeVars, accountVars
  <1> QED
    BY <1>1, <1>2, <1>3, <1>4, <1>5, <1>6, <1>7, <1>8, <1>9, <1>10 DEF Next, Around, Locked

(* Under PESSIMISTIC the limit holds for every number of devices, claims   *)
(* and sessions, and every limit, whatever interleaves with the claims,    *)
(* when a heartbeat commits in the tick of its NOW(3).                     *)
THEOREM PessimisticLimit ==
  ASSUME ClockAssumption
  PROVE  Spec => []LimitInv
  <1>1. Types /\ LimitInv /\ [Next]_vars => Types' /\ LimitInv'
    BY NextTypes, NextLimit
  <1> QED
    BY <1>1, InitTypes, InitLimit, PTL DEF Spec

(* The limit itself. *)
THEOREM PessimisticLimitRespected ==
  ASSUME ClockAssumption
  PROVE  Spec => []LimitRespected
  <1>1. LimitInv => LimitRespected
    BY DEF LimitInv
  <1> QED
    BY <1>1, PessimisticLimit, PTL
-----------------------------------------------------------------------------
LEMMA NextKinds ==
  ASSUME ClockAssumption, Types, [Next]_vars
  PROVE  StepKinds
  <1>1. CASE Around
    BY <1>1, AroundKinds
  <1>2. ASSUME NEW c \in Conn, ClaimGrant(c)
        PROVE  StepKinds
    BY <1>2 DEF ClaimGrant, StepKinds
  <1>3. CASE UNCHANGED rowVars /\ maxStreams' = maxStreams
    BY <1>3, SameStoreShrinks DEF StepKinds
  <1> QED
    BY <1>1, <1>2, <1>3
    DEF Next, Locked, ClaimLock, ClaimLockTimeout, CountActive, OldestActive, ClaimReject,
        Rejects, RejectCommit, Reject, ClaimDuplicate, DuplicateRollback, vars, storeVars,
        accountVars

(* A device never has two open sessions under PESSIMISTIC. *)
THEOREM PessimisticOneOpen ==
  ASSUME ClockAssumption
  PROVE  Spec => []OneOpenPerDevice
  <1>1. Types /\ OneOpenPerDevice /\ [Next]_vars => Types' /\ OneOpenPerDevice'
    BY NextTypes, NextKinds, KindsKeepOneOpen
  <1> QED
    BY <1>1, InitTypes, InitOneOpen, PTL DEF Spec

(* A session that stopped being active is never active again. *)
THEOREM PessimisticNeverRevived ==
  ASSUME ClockAssumption
  PROVE  Spec => NeverRevived
  <1>1. Types /\ [Next]_vars =>
          [\A s \in Inserted : s \notin Active => s \notin Active']_storeVars
    BY NextKinds, KindsNeverRevive
  <1> QED
    BY <1>1, InitTypes, NextTypes, PTL DEF Spec, NeverRevived

(* PESSIMISTIC implements the abstract promise StreamLimit. *)
THEOREM PessimisticKeepsPromise ==
  ASSUME ClockAssumption
  PROVE  Spec => PromiseKept
  <1>1. LimitInv => LimitRespected
    BY DEF LimitInv
  <1>2. Types /\ LimitInv /\ LimitInv' /\ [Next]_vars => [Promise!Next]_(Promise!abstractVars)
    <2> SUFFICES ASSUME Types, LimitInv', [Next]_vars
                 PROVE  [Promise!Next]_(Promise!abstractVars)
      OBVIOUS
    <2>1. LimitRespected'
      BY DEF LimitInv
    <2> QED
      BY <2>1, NextKinds, KindsImplement
  <1>3. Types /\ LimitInv /\ [Next]_vars => Types' /\ LimitInv'
    BY NextTypes, NextLimit
  <1> QED
    BY <1>2, <1>3, InitTypes, InitLimit, InitImplements, PTL DEF Spec, PromiseKept, Promise!Spec
=============================================================================
