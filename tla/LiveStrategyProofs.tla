------------------------- MODULE LiveStrategyProofs -------------------------
(***************************************************************************)
(* Theorems about the service as it runs, PESSIMISTIC and OPTIMISTIC claims *)
(* in every mixture on one account, for every number of devices,           *)
(* connections, sessions and limits.                                       *)
(***************************************************************************)
EXTENDS LiveStrategy, ClaimServiceProofs

-----------------------------------------------------------------------------
(* The steps of the two strategies in the operators of ClaimService, which *)
(* they share: P! and O! only add a name.                                  *)

LEMMA SameStatements ==
  ASSUME NEW c
  PROVE  /\ P!SeeAccount(c) <=> SeeAccount(c)
         /\ O!SeeAccount(c) <=> SeeAccount(c)
         /\ P!Retry(c) <=> Retry(c)
         /\ O!Retry(c) <=> Retry(c)
  BY DEF SeeAccount, P!SeeAccount, O!SeeAccount, Retry, P!Retry, O!Retry,
         NoClaim, P!NoClaim, O!NoClaim

LEMMA SameChoice ==
  ASSUME NEW c
  PROVE  /\ P!CountActive(c) <=> CountActive(c)
         /\ O!CountActive(c) <=> CountActive(c)
         /\ P!OldestActive(c) <=> OldestActive(c)
         /\ O!OldestActive(c) <=> OldestActive(c)
  BY DEF CountActive, P!CountActive, O!CountActive, OldestActive, P!OldestActive,
         O!OldestActive, AtLimit, P!AtLimit, O!AtLimit, Others, P!Others, O!Others,
         ActiveOthers, P!ActiveOthers, O!ActiveOthers, Active, P!Active, O!Active,
         Sid, P!Sid, O!Sid, Cardinality, P!Cardinality, O!Cardinality,
         storeVars, P!storeVars, O!storeVars, rowVars, P!rowVars, O!rowVars,
         accountVars, P!accountVars, O!accountVars

LEMMA SameCommits ==
  ASSUME NEW c
  PROVE  /\ P!GrantCommit(c) <=> GrantCommit(c)
         /\ O!GrantCommit(c) <=> GrantCommit(c)
         /\ P!RejectCommit(c) <=> RejectCommit(c)
         /\ O!RejectCommit(c) <=> RejectCommit(c)
         /\ P!DuplicateRollback(c) <=> DuplicateRollback(c)
         /\ O!DuplicateRollback(c) <=> DuplicateRollback(c)
  BY DEF GrantCommit, P!GrantCommit, O!GrantCommit, RejectCommit, P!RejectCommit,
         O!RejectCommit, DuplicateRollback, P!DuplicateRollback, O!DuplicateRollback,
         Grant, P!Grant, O!Grant, Reject, P!Reject, O!Reject,
         Prior, P!Prior, O!Prior, PriorOutcome, P!PriorOutcome, O!PriorOutcome,
         Inserted, P!Inserted, O!Inserted, Open, P!Open, O!Open, Sid, P!Sid, O!Sid,
         Bump, P!Bump, O!Bump, Answer, P!Answer, O!Answer,
         ClaimEvent, P!ClaimEvent, O!ClaimEvent, Finish, P!Finish, O!Finish,
         NoClaim, P!NoClaim, O!NoClaim, rowVars, P!rowVars, O!rowVars

LEMMA SameRejects ==
  ASSUME NEW c
  PROVE  (P!Rejects(c) <=> Rejects(c)) /\ (O!Rejects(c) <=> Rejects(c))
  BY DEF Rejects, P!Rejects, O!Rejects, AtLimit, P!AtLimit, O!AtLimit,
         Others, P!Others, O!Others, ActiveOthers, P!ActiveOthers, O!ActiveOthers,
         Active, P!Active, O!Active, Sid, P!Sid, O!Sid,
         Cardinality, P!Cardinality, O!Cardinality

InTx == {"count", "choose", "grant"}

(* The kinds of step a claim takes, whichever strategy it uses. *)
TakesLock(c) ==
  /\ uses[c] = "PESSIMISTIC" /\ claim[c].step = "read"
  /\ lock = Free /\ lock' = c /\ SeeAccount(c)
  /\ UNCHANGED <<rowVars, maxStreams, version, newLimit, requests, answers>>

Reads(c) ==
  /\ uses[c] = "OPTIMISTIC" /\ claim[c].step = "read"
  /\ SeeAccount(c) /\ UNCHANGED storeVars

Chooses(c) == CountActive(c) \/ OldestActive(c)

(* withRetry: a 1205 before anything was read, or a version that moved. *)
RunsAgain(c) ==
  /\ \/ uses[c] = "PESSIMISTIC" /\ claim[c].step = "read"
     \/ uses[c] = "OPTIMISTIC" /\ claim[c].step = "grant"
  /\ Retry(c) /\ UNCHANGED storeVars

(* The end of a claim's transaction: who holds the lock frees it. *)
Ends(c) ==
  /\ claim[c].step \in InTx
  /\ \/ uses[c] = "PESSIMISTIC" /\ lock' = Free
     \/ uses[c] = "OPTIMISTIC" /\ lock' = lock

Refuses(c) == Ends(c) /\ (RejectCommit(c) \/ DuplicateRollback(c))

Grants(c) ==
  /\ Ends(c) /\ claim[c].step = "grant" /\ GrantCommit(c)
  /\ uses[c] = "OPTIMISTIC" => lock = Free /\ claim[c].seenVersion = version

ClaimStep(c) ==
  TakesLock(c) \/ Reads(c) \/ Chooses(c) \/ RunsAgain(c) \/ Refuses(c) \/ Grants(c)

LEMMA PessimisticKinds ==
  ASSUME NEW c, PessimisticStep(c)
  PROVE  ClaimStep(c) /\ claim[c].step # "idle" /\ KeepUses
  <1> USE DEF PessimisticStep, Ends, InTx
  <1>1. CASE P!ClaimLock(c)
    <2>1. TakesLock(c)
      BY <1>1, SameStatements DEF P!ClaimLock, TakesLock, P!rowVars, rowVars
    <2> QED
      BY <2>1 DEF ClaimStep, TakesLock
  <1>2. CASE P!ClaimLockTimeout(c)
    <2>1. RunsAgain(c)
      BY <1>2, SameStatements
      DEF P!ClaimLockTimeout, RunsAgain, storeVars, P!storeVars, P!rowVars, P!accountVars,
          rowVars, accountVars
    <2> QED
      BY <1>2, <2>1 DEF ClaimStep, P!ClaimLockTimeout
  <1>3. CASE P!CountActive(c) \/ P!OldestActive(c)
    BY <1>3, SameChoice DEF ClaimStep, Chooses, CountActive, OldestActive
  <1>4. CASE P!ClaimReject(c) \/ P!ClaimDuplicate(c)
    <2>1. claim[c].step \in InTx /\ lock' = Free /\ (RejectCommit(c) \/ DuplicateRollback(c))
      BY <1>4, SameRejects, SameCommits DEF P!ClaimReject, P!ClaimDuplicate, Rejects
    <2> QED
      BY <2>1 DEF ClaimStep, Refuses
  <1>5. CASE P!ClaimGrant(c)
    <2>1. claim[c].step = "grant" /\ lock' = Free /\ GrantCommit(c)
      BY <1>5, SameCommits DEF P!ClaimGrant
    <2> QED
      BY <2>1 DEF ClaimStep, Grants
  <1> QED
    BY <1>1, <1>2, <1>3, <1>4, <1>5 DEF P!Locked

LEMMA OptimisticKinds ==
  ASSUME NEW c, OptimisticStep(c)
  PROVE  ClaimStep(c) /\ claim[c].step # "idle" /\ KeepUses
  <1> USE DEF OptimisticStep, Ends, InTx
  <1>1. CASE O!ReadAccount(c)
    <2>1. Reads(c)
      BY <1>1, SameStatements
      DEF O!ReadAccount, Reads, storeVars, O!storeVars, O!rowVars, O!accountVars,
          rowVars, accountVars
    <2> QED
      BY <2>1 DEF ClaimStep, Reads
  <1>2. CASE O!ClaimConflict(c)
    <2>1. RunsAgain(c)
      BY <1>2, SameStatements
      DEF O!ClaimConflict, RunsAgain, storeVars, O!storeVars, O!rowVars, O!accountVars,
          rowVars, accountVars
    <2> QED
      BY <1>2, <2>1 DEF ClaimStep, O!ClaimConflict
  <1>3. CASE O!CountActive(c) \/ O!OldestActive(c)
    BY <1>3, SameChoice DEF ClaimStep, Chooses, CountActive, OldestActive
  <1>4. CASE O!ClaimReject(c) \/ O!ClaimDuplicate(c)
    <2>1. claim[c].step \in InTx /\ lock' = lock /\ (RejectCommit(c) \/ DuplicateRollback(c))
      BY <1>4, SameRejects, SameCommits DEF O!ClaimReject, O!ClaimDuplicate, O!Validated, Rejects
    <2> QED
      BY <2>1 DEF ClaimStep, Refuses
  <1>5. CASE O!ClaimGrant(c)
    <2>1. /\ claim[c].step = "grant" /\ lock' = lock /\ GrantCommit(c)
          /\ lock = Free /\ claim[c].seenVersion = version
      BY <1>5, SameCommits DEF O!ClaimGrant, O!Validated
    <2> QED
      BY <2>1 DEF ClaimStep, Grants
  <1> QED
    BY <1>1, <1>2, <1>3, <1>4, <1>5 DEF O!ClaimStep

(* Every step of the service is one of these. *)
LEMMA LiveKinds ==
  ASSUME [LiveNext]_liveVars
  PROVE  \/ \E c \in Conn, live \in Strategies : Start(c, live)
         \/ \E c \in Conn : claim[c].step # "idle" /\ ClaimStep(c) /\ KeepUses
         \/ Beside
         \/ UNCHANGED liveVars
  BY PessimisticKinds, OptimisticKinds DEF LiveNext
-----------------------------------------------------------------------------
(* Types. *)

LiveTypes == Types /\ uses \in [Conn -> Strategies \cup {"NONE"}]

(* A connection uses a strategy exactly while it runs a claim. *)
UsesRunning == \A c \in Conn : uses[c] = "NONE" <=> claim[c].step = "idle"

LEMMA ClaimStepTypes ==
  ASSUME Types, NEW c \in Conn, claim[c].step # "idle", ClaimStep(c)
  PROVE  Types'
  <1>0. TypeInv /\ TypeOK /\ StoreTypeOK /\ Named
    BY DEF Types, TypeInv, TypeOK
  <1>1. CASE TakesLock(c)
    <2>1. StoreTypeOK' /\ lock' # Settings
      BY <1>0, <1>1, StoreAssumption DEF TakesLock, StoreTypeOK, rowVars, StoreAssumption
    <2>2. claim' \in [Conn -> Claim] /\ Named'
      BY <1>0, <1>1, SeeAccountType, NamedStep DEF TakesLock
    <2> QED
      BY <2>1, <2>2 DEF Types, TypeInv, TypeOK
  <1>2. CASE Reads(c) \/ RunsAgain(c)
    <2>1. StoreTypeOK' /\ (lock' = Settings => newLimit' \in Limits)
      BY <1>0, <1>2
      DEF Reads, RunsAgain, StoreTypeOK, storeVars, rowVars, accountVars, TypeInv
    <2>2. claim' \in [Conn -> Claim] /\ Named'
      BY <1>0, <1>2, SeeAccountType, RetryType, NamedStep DEF Reads, RunsAgain
    <2> QED
      BY <2>1, <2>2 DEF Types, TypeInv, TypeOK
  <1>3. CASE Chooses(c)
    <2>1. TypeOK' /\ Named'
      BY <1>0, <1>3, ChoiceType, NamedStep DEF Chooses
    <2> QED
      BY <1>0, <1>3, <2>1
      DEF Types, TypeInv, Chooses, CountActive, OldestActive, storeVars, accountVars
  <1>4. CASE Refuses(c) \/ Grants(c)
    <2>1. Finish(c) /\ newLimit' = newLimit /\ lock' \in {lock, Free}
      BY <1>4 DEF Refuses, Grants, Ends, RejectCommit, Reject, GrantCommit, Grant,
                  DuplicateRollback
    <2>2. claim' \in [Conn -> Claim] /\ Named'
      BY <1>0, <2>1, FinishType, NamedStep
    <2>3. lock' \in Conn \cup {Free, Settings}
      BY <1>0, <2>1 DEF StoreTypeOK
    <2>4. StoreTypeOK'
      <3>1. CASE RejectCommit(c)
        BY <1>0, <2>3, <3>1, ClaimFacts, RejectType DEF RejectCommit
      <3>2. CASE GrantCommit(c)
        BY <1>0, <2>3, <3>2, ClaimFacts, GrantType DEF GrantCommit
      <3>3. CASE DuplicateRollback(c)
        BY <1>0, <2>3, <3>3 DEF DuplicateRollback, Prior, PriorOutcome, StoreTypeOK, rowVars
      <3> QED
        BY <1>4, <3>1, <3>2, <3>3 DEF Refuses, Grants
    <2> QED
      BY <1>0, <2>1, <2>2, <2>4, StoreAssumption DEF Types, TypeInv, TypeOK, StoreAssumption
  <1> QED
    BY <1>1, <1>2, <1>3, <1>4 DEF ClaimStep

LEMMA NextTypes ==
  ASSUME LiveTypes, [LiveNext]_liveVars
  PROVE  LiveTypes'
  <1>0. Types /\ TypeInv /\ Named
    BY DEF LiveTypes, Types
  <1>1. ASSUME NEW c \in Conn, NEW live \in Strategies, Start(c, live)
        PROVE  LiveTypes'
    <2>1. Around
      BY <1>1 DEF Start, Around
    <2>2. Types'
      BY <1>0, <2>1, AroundType DEF Types
    <2> QED
      BY <1>1, <2>2 DEF LiveTypes, Start
  <1>2. ASSUME NEW c \in Conn, claim[c].step # "idle", ClaimStep(c), KeepUses
        PROVE  LiveTypes'
    <2>1. Types'
      BY <1>0, <1>2, ClaimStepTypes
    <2> QED
      BY <1>2, <2>1 DEF LiveTypes, KeepUses
  <1>3. CASE Beside
    <2>1. Around
      BY <1>3 DEF Beside, Around
    <2>2. Types'
      BY <1>0, <2>1, AroundType DEF Types
    <2> QED
      BY <1>3, <2>2 DEF LiveTypes, Beside, KeepUses
  <1>4. CASE UNCHANGED liveVars
    BY <1>4 DEF liveVars, vars, storeVars, rowVars, accountVars, LiveTypes, Types, TypeInv,
                TypeOK, StoreTypeOK, Named
  <1> QED
    BY <1>1, <1>2, <1>3, <1>4, LiveKinds

LEMMA InitLiveTypes == LiveInit => LiveTypes
  BY InitTypes DEF LiveInit, LiveTypes

(* Every variable keeps its type whatever strategies meet, for every clock *)
(* skew.                                                                   *)
THEOREM LiveTypesHold == LiveSpec => []TypeOK
  <1>1. LiveTypes => TypeOK
    BY DEF LiveTypes, Types, TypeInv
  <1>2. LiveTypes /\ [LiveNext]_liveVars => LiveTypes'
    BY NextTypes
  <1> QED
    BY <1>1, <1>2, InitLiveTypes, PTL DEF LiveSpec
-----------------------------------------------------------------------------
(* The stream limit: LimitInv is inductive.  A claim that holds the row    *)
(* lock keeps everybody else from starting a session or moving the limit;  *)
(* whoever does either bumps the version, which spoils what an OPTIMISTIC  *)
(* claim has read.                                                         *)

LEMMA InitLimit == LiveInit => LimitInv
  <1> SUFFICES ASSUME LiveInit PROVE LimitInv
    OBVIOUS
  <1> USE DEF LiveInit, Init, StoreInit
  <1>1. Active = {}
    BY DEF Active
  <1>2. maxStreams \in Limits /\ Cardinality({}) = 0
    BY FS_EmptySet
  <1>3. LimitRespected
    BY <1>1, <1>2, LimitsNat DEF LimitRespected
  <1>4. LockHolder /\ ReadStillValid
    BY StoreAssumption
    DEF LockHolder, ReadStillValid, RoomMade, NoClaim, P!InTx, StoreAssumption
  <1>5. /\ \A c \in Conn : claim[c].seenVersion <= version /\ (uses[c] = "NONE" <=> claim[c].step = "idle")
        /\ lock # Settings
    BY StoreAssumption DEF NoClaim, StoreAssumption
  <1> QED
    BY <1>3, <1>4, <1>5 DEF LimitInv

(* What a step may do to a claim and its strategy: leave them alone, or    *)
(* put the claim where it has read nothing yet.                            *)
Untouched(c) == claim'[c] = claim[c] /\ uses'[c] = uses[c]
Forgets(c) ==
  /\ claim'[c].step \in {"idle", "read"} /\ claim'[c].seenVersion = 0
  /\ uses'[c] = "NONE" <=> claim'[c].step = "idle"

LEMMA VersionNat ==
  ASSUME Types
  PROVE  version \in Nat /\ \A c \in Conn : claim[c].seenVersion \in Nat
  BY DEF Types, TypeInv, TypeOK, StoreTypeOK, Claim

(* KeepUses leaves the strategy of an unchanged claim alone. *)
LEMMA KeptUses ==
  ASSUME LiveTypes, LimitInv, KeepUses, NEW c \in Conn, claim'[c] = claim[c]
  PROVE  Untouched(c)
  BY DEF LiveTypes, LimitInv, KeepUses, Untouched

(* The claim of one connection ends, starts or starts again. *)
LEMMA OneForgets ==
  ASSUME LiveTypes, LimitInv, KeepUses, NEW c \in Conn, claim[c].step # "idle",
         NEW r, claim' = [claim EXCEPT ![c] = r],
         r.step \in {"idle", "read"}, r.seenVersion = 0
  PROVE  Forgets(c) /\ \A d \in Conn \ {c} : Untouched(d)
  <1>1. claim'[c] = r /\ \A d \in Conn \ {c} : claim'[d] = claim[d]
    BY DEF LiveTypes, Types, TypeInv, TypeOK
  <1>2. uses[c] # "NONE" /\ uses'[c] = IF claim'[c].step = "idle" THEN "NONE" ELSE uses[c]
    BY DEF LimitInv, KeepUses
  <1> QED
    BY <1>1, <1>2, KeptUses DEF Forgets

LEMMA FinishForgets ==
  ASSUME LiveTypes, LimitInv, KeepUses, NEW c \in Conn, claim[c].step # "idle", Finish(c)
  PROVE  Forgets(c) /\ \A d \in Conn \ {c} : Untouched(d)
  <1>1. NoClaim.step = "idle" /\ NoClaim.seenVersion = 0
    BY DEF NoClaim
  <1> QED
    BY <1>1, OneForgets DEF Finish

LEMMA RetryForgets ==
  ASSUME LiveTypes, LimitInv, KeepUses, NEW c \in Conn, claim[c].step # "idle", Retry(c)
  PROVE  Forgets(c) /\ \A d \in Conn \ {c} : Untouched(d)
  <1> DEFINE r == [NoClaim EXCEPT !.step = "read", !.device = claim[c].device,
                     !.id = claim[c].id, !.mode = claim[c].mode,
                     !.attempt = claim[c].attempt + 1]
  <1>1. /\ r.step = "read" /\ r.seenVersion = 0
        /\ NoClaim.step = "idle" /\ NoClaim.seenVersion = 0
    BY DEF NoClaim
  <1>2. claim' = [claim EXCEPT ![c] = NoClaim] \/ claim' = [claim EXCEPT ![c] = r]
    BY DEF Retry
  <1> QED
    BY <1>1, <1>2, OneForgets

LEMMA StartForgets ==
  ASSUME LiveTypes, NEW c \in Conn, NEW live \in Strategies, Start(c, live)
  PROVE  /\ claim[c].step = "idle" /\ UNCHANGED storeVars
         /\ Forgets(c) /\ \A d \in Conn \ {c} : Untouched(d)
  <1>1. PICK d \in Device, id \in RequestId \cup {NoRequestId}, mode \in Modes :
          ClaimStart(c, d, id, mode)
    BY DEF Start
  <1> DEFINE r == [NoClaim EXCEPT !.step = "read", !.device = d, !.id = id, !.mode = mode]
  <1>2. r.step = "read" /\ r.seenVersion = 0
    BY DEF NoClaim
  <1>3. claim[c].step = "idle" /\ UNCHANGED storeVars /\ claim' = [claim EXCEPT ![c] = r]
    BY <1>1 DEF ClaimStart
  <1>4. claim'[c] = r /\ \A x \in Conn \ {c} : claim'[x] = claim[x]
    BY <1>3 DEF LiveTypes, Types, TypeInv, TypeOK
  <1>5. uses'[c] = live /\ \A x \in Conn \ {c} : uses'[x] = uses[x]
    BY DEF Start, LiveTypes
  <1>6. live # "NONE"
    BY DEF Strategies
  <1> QED
    BY <1>2, <1>3, <1>4, <1>5, <1>6 DEF Forgets, Untouched

(* Who holds the row lock after a step. *)
LEMMA HolderStays ==
  ASSUME LimitInv, UNCHANGED <<lock, newLimit>>,
         \A c \in Conn : Untouched(c) \/ (Forgets(c) /\ lock # c)
  PROVE  LockHolder'
  BY DEF LimitInv, LockHolder, Untouched, Forgets, P!InTx

LEMMA HolderLeaves ==
  ASSUME LimitInv, NEW c \in Conn, lock = c, lock' = Free, newLimit' = newLimit,
         Forgets(c), \A d \in Conn \ {c} : Untouched(d)
  PROVE  LockHolder'
  BY StoreAssumption
  DEF LimitInv, LockHolder, Untouched, Forgets, P!InTx, StoreAssumption

(* No session starts and the limit stays: the version may grow. *)
LEMMA QuietStep ==
  ASSUME LiveTypes, LimitInv, Shrinks, maxStreams' = maxStreams,
         version' \in {version, version + 1},
         \A c \in Conn : Untouched(c) \/ Forgets(c),
         LockHolder', lock' = Settings => lock = Settings /\ newLimit' = newLimit
  PROVE  LimitInv'
  <1>0. Types /\ version \in Nat /\ \A c \in Conn : claim[c].seenVersion \in Nat
    BY VersionNat DEF LiveTypes
  <1>1. LimitRespected'
    BY <1>0, ShrinkKeepsLimit DEF Types, TypeInv, TypeOK, StoreTypeOK, LimitInv, LimitRespected
  <1>2. \A c \in Conn : /\ claim'[c].seenVersion <= version'
                        /\ uses'[c] = "NONE" <=> claim'[c].step = "idle"
    BY <1>0 DEF LimitInv, Untouched, Forgets
  <1>3. ASSUME NEW c \in Conn,
               uses'[c] = "PESSIMISTIC" \/ claim'[c].seenVersion = version'
        PROVE  RoomMade(c)'
    <2>1. CASE Forgets(c)
      BY <2>1 DEF Forgets, RoomMade
    <2>2. CASE Untouched(c)
      <3>1. uses[c] = "PESSIMISTIC" \/ claim[c].seenVersion = version
        BY <1>0, <1>3, <2>2 DEF LimitInv, Untouched
      <3> QED
        BY <1>0, <2>2, <3>1, RoomKept DEF LimitInv, ReadStillValid, Untouched
    <2> QED
      BY <2>1, <2>2
  <1>4. lock' = Settings => Cardinality(Active') <= newLimit'
    BY <1>0, ShrinkKeepsLimit DEF Types, TypeInv, LimitInv
  <1> QED
    BY <1>1, <1>2, <1>3, <1>4 DEF LimitInv, ReadStillValid

(* The version grows and nobody is left in a PESSIMISTIC transaction: what *)
(* the claims have read counts no more.                                    *)
LEMMA BumpingStep ==
  ASSUME LiveTypes, LimitInv, Bump, LimitRespected', lock' = Free, newLimit' = 0,
         \A c \in Conn : Untouched(c) \/ Forgets(c),
         \A c \in Conn : lock = c => Forgets(c)
  PROVE  LimitInv'
  <1>0. version \in Nat /\ \A c \in Conn : claim[c].seenVersion \in Nat
    BY VersionNat DEF LiveTypes
  <1>1. \A c \in Conn : claim'[c].seenVersion < version'
    BY <1>0 DEF LimitInv, Bump, Untouched, Forgets
  <1>2. version' \in Nat /\ \A c \in Conn : claim'[c].seenVersion \in Nat
    BY <1>0 DEF Bump, Untouched, Forgets
  <1>3. \A c \in Conn : ~(uses'[c] = "PESSIMISTIC" /\ claim'[c].step \in P!InTx)
    BY DEF LimitInv, LockHolder, Untouched, Forgets, P!InTx
  <1>4. LockHolder'
    BY <1>3, StoreAssumption DEF LockHolder, StoreAssumption
  <1>5. ReadStillValid'
    BY <1>1, <1>2, <1>3 DEF ReadStillValid, RoomMade, P!InTx
  <1>6. \A c \in Conn : /\ claim'[c].seenVersion <= version'
                        /\ uses'[c] = "NONE" <=> claim'[c].step = "idle"
    BY <1>1, <1>2 DEF LimitInv, Untouched, Forgets
  <1> QED
    BY <1>4, <1>5, <1>6, StoreAssumption DEF LimitInv, StoreAssumption

(* A claim reads or chooses. *)
LEMMA ReadingStep ==
  ASSUME LiveTypes, LimitInv, NEW c \in Conn, claim[c].step # "idle", KeepUses,
         UNCHANGED rowVars, UNCHANGED <<maxStreams, version, newLimit>>,
         \A d \in Conn \ {c} : claim'[d] = claim[d],
         claim'[c].step # "idle", claim'[c].seenVersion <= version,
         uses[c] = "PESSIMISTIC" \/ claim'[c].seenVersion = version => RoomMade(c)',
         LockHolder', lock' = Settings => lock = Settings
  PROVE  LimitInv'
  <1>0. Types /\ Shrinks /\ Active' = Active
    BY SameStoreShrinks DEF LiveTypes, rowVars, Active
  <1>1. \A d \in Conn \ {c} : Untouched(d)
    BY KeptUses
  <1>2. uses'[c] = uses[c] /\ uses[c] # "NONE"
    BY DEF KeepUses, LimitInv
  <1>3. \A d \in Conn \ {c} :
          uses'[d] = "PESSIMISTIC" \/ claim'[d].seenVersion = version' => RoomMade(d)'
    BY <1>0, <1>1, RoomKept DEF LimitInv, ReadStillValid, Untouched
  <1>4. ReadStillValid'
    BY <1>2, <1>3 DEF ReadStillValid
  <1>5. \A d \in Conn : /\ claim'[d].seenVersion <= version'
                        /\ uses'[d] = "NONE" <=> claim'[d].step = "idle"
    BY <1>1, <1>2 DEF LimitInv, Untouched
  <1> QED
    BY <1>0, <1>4, <1>5 DEF LimitInv, LimitRespected

LEMMA StoreKeepsLimit ==
  ASSUME ClockAssumption, LiveTypes, LimitInv, StoreNext, UNCHANGED claim, KeepUses
  PROVE  LimitInv'
  <1>0. /\ Types /\ StoreTypeOK /\ Shrinks
        /\ \A c \in Conn : Untouched(c)
    BY StoreNextShrinks, KeptUses DEF LiveTypes, Types, TypeInv, TypeOK
  <1>1. ASSUME NEW m \in Limits, SettingsCount(m)
        PROVE  LimitInv'
    <2>1. /\ lock = Free /\ lock' = Settings /\ newLimit' = m
          /\ UNCHANGED <<maxStreams, version, owner>> /\ Active' = Active
          /\ Cardinality(Active) <= m
      BY <1>1 DEF SettingsCount, rowVars, Active
    <2>2. LockHolder'
      BY <1>0, <2>1, LimitsNat, StoreAssumption
      DEF LimitInv, LockHolder, Untouched, StoreAssumption
    <2>3. ReadStillValid'
      BY <1>0, <2>1, RoomKept DEF LimitInv, ReadStillValid, Untouched
    <2> QED
      BY <1>0, <2>1, <2>2, <2>3 DEF LimitInv, LimitRespected, Untouched
  <1>2. CASE SettingsCommit
    <2>1. /\ lock = Settings /\ lock' = Free /\ newLimit' = 0 /\ Active' = Active
          /\ maxStreams' = newLimit /\ Bump
      BY <1>2 DEF SettingsCommit, rowVars, Active
    <2>2. LimitRespected'
      BY <2>1 DEF LimitInv, LimitRespected
    <2>3. \A c \in Conn : lock # c
      BY <2>1, StoreAssumption DEF StoreAssumption
    <2> QED
      BY <1>0, <2>1, <2>2, <2>3, BumpingStep
  <1>3. CASE SettingsAbort
    <2>1. /\ lock = Settings /\ lock' = Free /\ newLimit' = 0
          /\ UNCHANGED <<maxStreams, version>>
      BY <1>3 DEF SettingsAbort
    <2>2. LockHolder'
      BY <1>0, <2>1, StoreAssumption DEF LimitInv, LockHolder, Untouched, StoreAssumption
    <2> QED
      BY <1>0, <2>1, <2>2, QuietStep, StoreAssumption DEF StoreAssumption
  <1>4. CASE UNCHANGED <<maxStreams, lock, newLimit>> /\ version' \in {version, version + 1}
    <2>1. LockHolder'
      BY <1>0, <1>4 DEF LimitInv, LockHolder, Untouched
    <2> QED
      BY <1>0, <1>4, <2>1, QuietStep
  <1> QED
    BY <1>1, <1>2, <1>3, <1>4
    DEF StoreNext, HeartbeatStart, HeartbeatCommit, HeartbeatLost, Pause, Release, EndAll,
        Reap, Tick, Bump, accountVars

(* The transaction of a claim ends without a new session. *)
LEMMA EndKeepsLimit ==
  ASSUME LiveTypes, LimitInv, KeepUses, NEW c \in Conn, claim[c].step # "idle", Finish(c),
         UNCHANGED rowVars, UNCHANGED <<maxStreams, version, newLimit>>,
         \/ lock' = lock /\ lock # c
         \/ lock = c /\ lock' = Free
  PROVE  LimitInv'
  <1>1. Forgets(c) /\ \A d \in Conn \ {c} : Untouched(d)
    BY FinishForgets
  <1>2. \A d \in Conn : Untouched(d) \/ Forgets(d)
    BY <1>1
  <1>3. LockHolder'
    BY <1>1, HolderStays, HolderLeaves
  <1> QED
    BY <1>2, <1>3, SameStoreShrinks, QuietStep, StoreAssumption DEF StoreAssumption

(* Which of the two, by the strategy. *)
LEMMA EndsHolder ==
  ASSUME LimitInv, NEW c \in Conn, Ends(c)
  PROVE  \/ lock' = lock /\ lock # c /\ uses[c] = "OPTIMISTIC"
         \/ lock = c /\ lock' = Free /\ uses[c] = "PESSIMISTIC"
  BY DEF Ends, LimitInv, LockHolder, P!InTx, InTx

LEMMA ClaimStepKeepsLimit ==
  ASSUME LiveTypes, LimitInv, NEW c \in Conn, claim[c].step # "idle", ClaimStep(c), KeepUses
  PROVE  LimitInv'
  <1>0. /\ Types /\ claim \in [Conn -> Claim] /\ version \in Nat
        /\ claim[c].seenVersion \in Nat
    BY VersionNat DEF LiveTypes, Types, TypeInv, TypeOK
  <1>1. CASE TakesLock(c) \/ Reads(c)
    <2>1. /\ SeeAccount(c) /\ UNCHANGED rowVars
          /\ UNCHANGED <<maxStreams, version, newLimit>>
      BY <1>1 DEF TakesLock, Reads, storeVars, accountVars
    <2>2. RoomMade(c)' /\ claim'[c].step = "count"
      BY <1>0, <2>1, RoomSeen
    <2>3. claim'[c].seenVersion = version /\ \A d \in Conn \ {c} : claim'[d] = claim[d]
      BY <1>0, <2>1 DEF SeeAccount, Claim
    <2>4. \A d \in Conn \ {c} : Untouched(d)
      BY <2>3, KeptUses
    <2>5. uses'[c] = uses[c]
      BY <2>2 DEF KeepUses
    <2>6. LockHolder'
      <3>1. CASE TakesLock(c)
        BY <2>2, <2>4, <2>5, <3>1, StoreAssumption
        DEF TakesLock, LimitInv, LockHolder, Untouched, P!InTx, StoreAssumption
      <3>2. CASE Reads(c)
        BY <2>4, <2>5, <3>2
        DEF Reads, LimitInv, LockHolder, Untouched, storeVars, accountVars
      <3> QED
        BY <1>1, <3>1, <3>2
    <2>7. lock' = Settings => lock = Settings
      BY <1>1, StoreAssumption DEF TakesLock, Reads, storeVars, accountVars, StoreAssumption
    <2> QED
      BY <1>0, <2>1, <2>2, <2>3, <2>6, <2>7, ReadingStep
  <1>2. CASE Chooses(c)
    <2>1. UNCHANGED storeVars /\ \A d \in Conn \ {c} : claim'[d] = claim[d]
      BY <1>0, <1>2 DEF Chooses, CountActive, OldestActive
    <2>2. /\ claim[c].step \in InTx /\ claim'[c].step \in InTx
          /\ claim'[c].seenVersion = claim[c].seenVersion
      <3>1. CASE CountActive(c)
        BY <1>0, <3>1 DEF CountActive, Claim, InTx
      <3>2. CASE OldestActive(c)
        <4>1. PICK V : claim' = [claim EXCEPT ![c] =
                                  [claim[c] EXCEPT !.step = "grant", !.toPreempt = V]]
          BY <3>2 DEF OldestActive
        <4>2. claim[c].step = "choose"
          BY <3>2 DEF OldestActive
        <4> QED
          BY <1>0, <4>1, <4>2 DEF Claim, InTx
      <3> QED
        BY <1>2, <3>1, <3>2 DEF Chooses
    <2>3. uses[c] = "PESSIMISTIC" \/ claim'[c].seenVersion = version => RoomMade(c)'
      BY <1>0, <1>2, <2>2, RoomChosen DEF LimitInv, ReadStillValid, Chooses
    <2>4. \A d \in Conn \ {c} : Untouched(d)
      BY <2>1, KeptUses
    <2>5. uses'[c] = uses[c]
      BY <2>2 DEF KeepUses, InTx
    <2>6. LockHolder'
      BY <2>1, <2>2, <2>4, <2>5
      DEF LimitInv, LockHolder, Untouched, P!InTx, InTx, storeVars, accountVars
    <2>7. claim'[c].seenVersion <= version
      BY <2>2 DEF LimitInv
    <2>8. claim'[c].step # "idle" /\ UNCHANGED rowVars /\ UNCHANGED <<maxStreams, version, newLimit, lock>>
      BY <2>1, <2>2 DEF InTx, storeVars, accountVars
    <2> QED
      BY <2>1, <2>3, <2>6, <2>7, <2>8, ReadingStep
  <1>3. CASE RunsAgain(c)
    <2>1. Forgets(c) /\ \A d \in Conn \ {c} : Untouched(d)
      BY <1>3, RetryForgets DEF RunsAgain
    <2>2. lock # c
      BY <1>3 DEF RunsAgain, LimitInv, LockHolder, P!InTx
    <2>3. UNCHANGED rowVars /\ UNCHANGED <<maxStreams, version, newLimit, lock>>
      BY <1>3 DEF RunsAgain, storeVars, accountVars
    <2>4. LockHolder'
      BY <2>1, <2>2, <2>3, HolderStays
    <2>5. \A d \in Conn : Untouched(d) \/ Forgets(d)
      BY <2>1
    <2> QED
      BY <1>0, <2>3, <2>4, <2>5, SameStoreShrinks, QuietStep
  <1>4. CASE Refuses(c)
    <2>1. Finish(c) /\ UNCHANGED rowVars /\ UNCHANGED <<maxStreams, version, newLimit>>
      BY <1>4 DEF Refuses, RejectCommit, Reject, DuplicateRollback
    <2>2. \/ lock' = lock /\ lock # c
          \/ lock = c /\ lock' = Free
      BY <1>4, EndsHolder DEF Refuses
    <2> QED
      BY <2>1, <2>2, EndKeepsLimit
  <1>5. CASE Grants(c)
    <2>1. GrantCommit(c) /\ Finish(c) /\ Bump /\ newLimit' = newLimit /\ claim[c].step = "grant"
      BY <1>5 DEF Grants, GrantCommit, Grant
    <2>2. /\ lock \in {c, Free} /\ lock' = Free
          /\ uses[c] = "PESSIMISTIC" \/ claim[c].seenVersion = version
      BY <1>5, EndsHolder DEF Grants
    <2>3. LimitRespected'
      BY <1>0, <2>1, <2>2, RoomForGrant DEF LimitInv, ReadStillValid
    <2>4. Forgets(c) /\ \A d \in Conn \ {c} : Untouched(d)
      BY <2>1, FinishForgets
    <2>5. newLimit' = 0
      BY <2>1, <2>2, StoreAssumption DEF LimitInv, LockHolder, StoreAssumption
    <2>6. \A d \in Conn : lock = d => Forgets(d)
      BY <2>2, <2>4, StoreAssumption DEF StoreAssumption
    <2>7. \A d \in Conn : Untouched(d) \/ Forgets(d)
      BY <2>4
    <2> QED
      BY <2>1, <2>2, <2>3, <2>5, <2>6, <2>7, BumpingStep
  <1> QED
    BY <1>1, <1>2, <1>3, <1>4, <1>5 DEF ClaimStep

LEMMA NextLimit ==
  ASSUME ClockAssumption, LiveTypes, LimitInv, [LiveNext]_liveVars
  PROVE  LimitInv'
  <1>1. ASSUME NEW c \in Conn, NEW live \in Strategies, Start(c, live)
        PROVE  LimitInv'
    <2>1. /\ claim[c].step = "idle" /\ UNCHANGED storeVars
          /\ Forgets(c) /\ \A d \in Conn \ {c} : Untouched(d)
      BY <1>1, StartForgets
    <2>2. lock # c
      BY <2>1 DEF LimitInv, LockHolder, P!InTx
    <2>3. UNCHANGED rowVars /\ UNCHANGED <<maxStreams, version, newLimit, lock>>
      BY <2>1 DEF storeVars, accountVars
    <2>4. LockHolder'
      BY <2>1, <2>2, <2>3, HolderStays
    <2>5. \A d \in Conn : Untouched(d) \/ Forgets(d)
      BY <2>1
    <2> QED
      BY <2>3, <2>4, <2>5, SameStoreShrinks, QuietStep
  <1>2. ASSUME NEW c \in Conn, claim[c].step # "idle", ClaimStep(c), KeepUses
        PROVE  LimitInv'
    BY <1>2, ClaimStepKeepsLimit
  <1>3. CASE Beside
    <2>1. ASSUME NEW d \in Device, NEW id \in RequestId, ClaimReplay(d, id), KeepUses
          PROVE  LimitInv'
      <3>1. UNCHANGED rowVars /\ UNCHANGED <<maxStreams, version, newLimit, lock, claim>>
        BY <2>1 DEF ClaimReplay, accountVars
      <3>2. \A c \in Conn : Untouched(c)
        BY <2>1, <3>1, KeptUses
      <3>3. LockHolder'
        BY <3>1, <3>2 DEF LimitInv, LockHolder, Untouched
      <3> QED
        BY <3>1, <3>2, <3>3, SameStoreShrinks, QuietStep
    <2>2. ASSUME NEW c \in Conn, ClaimAbort(c), KeepUses
          PROVE  LimitInv'
      <3>1. /\ claim[c].step # "idle" /\ Finish(c) /\ UNCHANGED rowVars
            /\ UNCHANGED <<maxStreams, version, newLimit>>
            /\ lock' = IF lock = c THEN Free ELSE lock
        BY <2>2 DEF ClaimAbort
      <3> QED
        BY <2>2, <3>1, EndKeepsLimit
    <2> QED
      BY <1>3, <2>1, <2>2, StoreKeepsLimit DEF Beside
  <1>4. CASE UNCHANGED liveVars
    <2>1. UNCHANGED rowVars /\ UNCHANGED <<maxStreams, version, newLimit, lock, claim, uses>>
      BY <1>4 DEF liveVars, vars, storeVars, accountVars
    <2>2. \A c \in Conn : Untouched(c)
      BY <2>1 DEF Untouched
    <2>3. LockHolder'
      BY <2>1, <2>2 DEF LimitInv, LockHolder, Untouched
    <2> QED
      BY <2>1, <2>2, <2>3, SameStoreShrinks, QuietStep
  <1> QED
    BY <1>1, <1>2, <1>3, <1>4, LiveKinds

LEMMA NextLiveInv ==
  ASSUME ClockAssumption
  PROVE  LiveTypes /\ LimitInv /\ [LiveNext]_liveVars => LiveTypes' /\ LimitInv'
  BY NextTypes, NextLimit

(* Whatever strategies meet on an account, the stream limit holds, when a  *)
(* heartbeat commits in the tick of its NOW(3): LimitInv says why.         *)
THEOREM LiveLimit ==
  ASSUME ClockAssumption
  PROVE  LiveSpec => []LimitInv
  BY InitLiveTypes, InitLimit, NextLiveInv, PTL DEF LiveSpec
-----------------------------------------------------------------------------
(* What a step does to the sessions. *)

LEMMA NextStepKinds ==
  ASSUME ClockAssumption, LiveTypes, [LiveNext]_liveVars
  PROVE  StepKinds
  <1>0. Types
    BY DEF LiveTypes
  <1>1. CASE Around
    BY <1>0, <1>1, AroundKinds
  <1>2. CASE UNCHANGED rowVars /\ maxStreams' = maxStreams
    BY <1>2, SameStoreShrinks DEF StepKinds
  <1>3. ASSUME NEW c \in Conn, claim[c].step # "idle", ClaimStep(c)
        PROVE  StepKinds
    BY <1>2, <1>3
    DEF ClaimStep, TakesLock, Reads, Chooses, CountActive, OldestActive, RunsAgain, Refuses,
        RejectCommit, Reject, DuplicateRollback, Grants, StepKinds, storeVars, accountVars
  <1>4. CASE UNCHANGED liveVars
    BY <1>2, <1>4 DEF liveVars, vars, storeVars, accountVars
  <1> QED
    BY <1>1, <1>3, <1>4, LiveKinds DEF Start, Beside, Around

(* A step that preempts a session is the grant of a claim that chose it. *)
LEMMA NextMoves ==
  ASSUME LiveTypes, [LiveNext]_liveVars
  PROVE  /\ BumpKinds
         /\ \/ \A s \in Sid : status'[s] = "PREEMPTED" => status[s] = "PREEMPTED"
            \/ \E c \in Conn : claim[c].step = "grant" /\ Grants(c) /\ KeepUses
  <1>0. Types
    BY DEF LiveTypes
  <1>1. CASE UNCHANGED storeVars \/ UNCHANGED <<status, maxStreams, version>>
    BY <1>1 DEF storeVars, rowVars, accountVars, BumpKinds
  <1>2. ASSUME NEW c \in Conn, claim[c].step # "idle", ClaimStep(c), ~Grants(c)
        PROVE  UNCHANGED <<status, maxStreams, version>>
    BY <1>2 DEF ClaimStep, TakesLock, Reads, Chooses, CountActive, OldestActive, RunsAgain,
                Refuses, RejectCommit, Reject, DuplicateRollback, storeVars, rowVars, accountVars
  <1>3. ASSUME NEW c \in Conn, claim[c].step # "idle", Grants(c), KeepUses
        PROVE  BumpKinds /\ claim[c].step = "grant"
    BY <1>0, <1>3, GrantMoves DEF Grants
  <1>4. CASE Beside
    <2>1. CASE StoreNext
      BY <2>1, StoreMoves
    <2>2. CASE ~StoreNext
      <3>1. UNCHANGED <<status, maxStreams, version>>
        BY <1>4, <2>2 DEF Beside, ClaimReplay, ClaimAbort, rowVars, accountVars
      <3> QED
        BY <1>1, <3>1
    <2> QED
      BY <2>1, <2>2
  <1>5. ASSUME NEW c \in Conn, NEW live \in Strategies, Start(c, live)
        PROVE  UNCHANGED storeVars
    BY <1>5 DEF Start, ClaimStart
  <1>6. CASE UNCHANGED liveVars
    BY <1>1, <1>6 DEF liveVars, vars
  <1> QED
    BY <1>1, <1>2, <1>3, <1>4, <1>5, <1>6, LiveKinds

(* A device never has two open sessions. *)
THEOREM LiveOneOpen ==
  ASSUME ClockAssumption
  PROVE  LiveSpec => []OneOpenPerDevice
  <1>1. LiveTypes /\ OneOpenPerDevice /\ [LiveNext]_liveVars => LiveTypes' /\ OneOpenPerDevice'
    BY NextTypes, NextStepKinds, KindsKeepOneOpen DEF LiveTypes
  <1>2. LiveInit => OneOpenPerDevice
    BY InitOneOpen DEF LiveInit
  <1> QED
    BY <1>1, <1>2, InitLiveTypes, PTL DEF LiveSpec

(* A session that stopped being active is never active again. *)
THEOREM LiveNeverRevived ==
  ASSUME ClockAssumption
  PROVE  LiveSpec => NeverRevived
  <1>1. LiveTypes /\ [LiveNext]_liveVars =>
          [\A s \in Inserted : s \notin Active => s \notin Active']_storeVars
    BY NextStepKinds, KindsNeverRevive DEF LiveTypes
  <1>2. LiveTypes /\ [LiveNext]_liveVars => LiveTypes'
    BY NextTypes
  <1> QED
    BY <1>1, <1>2, InitLiveTypes, PTL DEF LiveSpec, NeverRevived

(* ENDED, PREEMPTED and EXPIRED are final, and PAUSED ends: for every      *)
(* clock skew.                                                             *)
THEOREM LiveFinalStatuses == LiveSpec => FinalStatusesFinal
  <1>1. LiveTypes /\ [LiveNext]_liveVars =>
          [\A s \in Sid :
             /\ status[s] \in {"ENDED", "PREEMPTED", "EXPIRED"} => status'[s] = status[s]
             /\ status[s] = "PAUSED" => status'[s] \in {"PAUSED", "ENDED"}]_storeVars
    BY NextMoves, MovesKeepFinal
  <1>2. LiveTypes /\ [LiveNext]_liveVars => LiveTypes'
    BY NextTypes
  <1> QED
    BY <1>1, <1>2, InitLiveTypes, PTL DEF LiveSpec, FinalStatusesFinal

(* What a client sees change has a larger state_version. *)
THEOREM LiveChangesBump ==
  ASSUME ClockAssumption
  PROVE  LiveSpec => ChangesBumpVersion
  <1>1. LiveTypes /\ [LiveNext]_liveVars =>
          [ /\ status' # status => version' > version
            /\ maxStreams' # maxStreams => version' > version
            /\ ~(Active' \subseteq Active) => version' > version ]_storeVars
    BY NextStepKinds, NextMoves, KindsBumpVersion DEF LiveTypes
  <1>2. LiveTypes /\ [LiveNext]_liveVars => LiveTypes'
    BY NextTypes
  <1> QED
    BY <1>1, <1>2, InitLiveTypes, PTL DEF LiveSpec, ChangesBumpVersion

(* The service implements the abstract promise StreamLimit, whatever       *)
(* strategies meet.                                                        *)
THEOREM LiveKeepsPromise ==
  ASSUME ClockAssumption
  PROVE  LiveSpec => PromiseKept
  <1>1. LiveTypes /\ LimitInv' /\ [LiveNext]_liveVars =>
          [Promise!Next]_(Promise!abstractVars)
    <2> SUFFICES ASSUME LiveTypes, LimitInv', [LiveNext]_liveVars
                 PROVE  [Promise!Next]_(Promise!abstractVars)
      OBVIOUS
    <2>1. LimitRespected'
      BY DEF LimitInv
    <2> QED
      BY <2>1, NextStepKinds, KindsImplement DEF LiveTypes
  <1>2. LiveInit => Promise!Init
    BY InitImplements DEF LiveInit
  <1> QED
    BY <1>1, <1>2, InitLiveTypes, InitLimit, NextLiveInv, PTL
    DEF LiveSpec, PromiseKept, Promise!Spec
-----------------------------------------------------------------------------
(* A request id has one outcome. *)

LEMMA NextUnique ==
  ASSUME OutcomesUnique, [LiveNext]_liveVars
  PROVE  OutcomesUnique'
  <1>1. CASE UNCHANGED <<requests, answers>>
    BY <1>1 DEF OutcomesUnique
  <1>2. ASSUME NEW c \in Conn, ClaimStep(c)
        PROVE  OutcomesUnique'
    <2>1. CASE RejectCommit(c) \/ GrantCommit(c) \/ DuplicateRollback(c)
      BY <2>1, CommitKeepsUnique
    <2>2. CASE TakesLock(c) \/ Reads(c) \/ Chooses(c) \/ RunsAgain(c)
      BY <1>1, <2>2
      DEF TakesLock, Reads, Chooses, CountActive, OldestActive, RunsAgain, storeVars
    <2> QED
      BY <1>2, <2>1, <2>2 DEF ClaimStep, Refuses, Grants
  <1>3. CASE Beside
    <2>1. ASSUME NEW d \in Device, NEW id \in RequestId, ClaimReplay(d, id)
          PROVE  OutcomesUnique'
      BY <2>1, ReplayKeepsUnique DEF ClaimReplay
    <2>2. ASSUME NEW c \in Conn, ClaimAbort(c)
          PROVE  OutcomesUnique'
      BY <1>1, <2>2 DEF ClaimAbort
    <2>3. CASE StoreNext
      BY <1>1, <2>3, StoreMoves
    <2> QED
      BY <1>3, <2>1, <2>2, <2>3 DEF Beside
  <1>4. ASSUME NEW c \in Conn, NEW live \in Strategies, Start(c, live)
        PROVE  OutcomesUnique'
    BY <1>1, <1>4 DEF Start, ClaimStart, storeVars
  <1>5. CASE UNCHANGED liveVars
    BY <1>1, <1>5 DEF liveVars, vars, storeVars
  <1> QED
    BY <1>2, <1>3, <1>4, <1>5, LiveKinds

(* Double clicks, retries and concurrent duplicates of a request are all   *)
(* told the same committed outcome, for every clock skew.                  *)
THEOREM LiveAnswersConsistent == LiveSpec => []AnswersConsistent
  <1>1. LiveInit => OutcomesUnique
    BY DEF LiveInit, Init, StoreInit, OutcomesUnique
  <1>2. OutcomesUnique /\ [LiveNext]_liveVars => OutcomesUnique'
    BY NextUnique
  <1> QED
    BY <1>1, <1>2, UniqueImpliesConsistent, PTL DEF LiveSpec
-----------------------------------------------------------------------------
(* A TAKEOVER stops the oldest sessions. *)

ChoiceInv == InsertedInOrder /\ \A c \in Conn : Chosen(c)

LEMMA InitChoice == LiveInit => ChoiceInv
  BY DEF LiveInit, Init, StoreInit, NoClaim, ChoiceInv, InsertedInOrder, Chosen, Inserted

LEMMA NextChoice ==
  ASSUME ClockAssumption, LiveTypes, ChoiceInv, [LiveNext]_liveVars
  PROVE  ChoiceInv'
  <1>0. Types /\ StepKinds /\ claim \in [Conn -> Claim]
    BY NextStepKinds DEF LiveTypes, Types, TypeInv, TypeOK
  <1>1. InsertedInOrder'
    BY <1>0, KindsKeepOrder DEF ChoiceInv
  <1>2. ASSUME NEW c \in Conn
        PROVE  claim'[c] = claim[c] \/ claim'[c].step # "grant" \/ OldestActive(c)
    <2>1. ASSUME NEW x \in Conn, ClaimStep(x)
          PROVE  claim'[c] = claim[c] \/ claim'[c].step # "grant" \/ OldestActive(c)
      <3>1. CASE OldestActive(x)
        BY <1>0, <3>1 DEF OldestActive
      <3>2. CASE SeeAccount(x) \/ CountActive(x)
        BY <1>0, <3>2 DEF SeeAccount, CountActive, Claim
      <3>3. CASE Retry(x) \/ Finish(x)
        <4> DEFINE r == [NoClaim EXCEPT !.step = "read", !.device = claim[x].device,
                           !.id = claim[x].id, !.mode = claim[x].mode,
                           !.attempt = claim[x].attempt + 1]
        <4>1. r.step = "read" /\ NoClaim.step = "idle"
          BY DEF NoClaim
        <4>2. claim' = [claim EXCEPT ![x] = NoClaim] \/ claim' = [claim EXCEPT ![x] = r]
          BY <3>3 DEF Retry, Finish
        <4> QED
          BY <1>0, <4>1, <4>2
      <3> QED
        BY <2>1, <3>1, <3>2, <3>3
        DEF ClaimStep, TakesLock, Reads, Chooses, RunsAgain, Refuses, RejectCommit,
            DuplicateRollback, Grants, GrantCommit
    <2>2. ASSUME NEW x \in Conn, NEW live \in Strategies, Start(x, live)
          PROVE  claim'[c] = claim[c] \/ claim'[c].step # "grant"
      BY <1>0, <2>2 DEF Start, ClaimStart, NoClaim
    <2>3. ASSUME NEW x \in Conn, ClaimAbort(x)
          PROVE  claim'[c] = claim[c] \/ claim'[c].step # "grant"
      BY <1>0, <2>3 DEF ClaimAbort, Finish, NoClaim
    <2>4. CASE UNCHANGED claim
      BY <2>4
    <2> QED
      BY <2>1, <2>2, <2>3, <2>4, LiveKinds DEF Beside, ClaimReplay, liveVars, vars
  <1>3. ASSUME NEW c \in Conn
        PROVE  Chosen(c)'
    <2>1. CASE claim'[c] = claim[c]
      BY <1>0, <2>1, KindsKeepChoice DEF ChoiceInv
    <2>2. CASE claim'[c].step # "grant"
      BY <2>2 DEF Chosen
    <2>3. CASE OldestActive(c)
      BY <1>0, <2>3, OldestChosen
    <2> QED
      BY <1>2, <2>1, <2>2, <2>3
  <1> QED
    BY <1>1, <1>3 DEF ChoiceInv

(* However long the choice of a TAKEOVER lay before its commit, it never   *)
(* stops a session and spares an older one of another device.              *)
THEOREM LivePreemptsOldest ==
  ASSUME ClockAssumption
  PROVE  LiveSpec => PreemptOldestOnly
  <1>1. ASSUME LiveTypes, ChoiceInv, [LiveNext]_liveVars, NEW c \in Conn,
               NEW s \in Active, NEW t \in Active,
               claim[c].step = "grant", claim'[c].step = "idle",
               claim[c].device \notin {owner[s], owner[t]},
               status'[s] = "PREEMPTED", status'[t] = "PLAYING"
        PROVE  s < t
    <2>0. Types /\ s \in Inserted /\ t \in Inserted /\ status[s] = "PLAYING"
      BY <1>1 DEF LiveTypes, Active, Inserted
    <2>1. PICK x \in Conn : claim[x].step = "grant" /\ GrantCommit(x)
      BY <1>1, <2>0, NextMoves DEF Active, Grants
    <2>2. x = c
      BY <1>1, <2>0, <2>1 DEF GrantCommit, Finish, Types, TypeInv, TypeOK
    <2>3. s \in claim[c].toPreempt /\ t \notin claim[c].toPreempt
      BY <1>1, <2>0, <2>1, <2>2, GrantMoves DEF Active
    <2>4. t \in Others(c)
      BY <1>1 DEF Others, ActiveOthers
    <2> QED
      BY <1>1, <2>3, <2>4 DEF ChoiceInv, Chosen
  <1>2. LiveTypes /\ ChoiceInv /\ [LiveNext]_liveVars =>
          [\A c \in Conn, s, t \in Active :
             /\ claim[c].step = "grant" /\ claim'[c].step = "idle"
             /\ claim[c].device \notin {owner[s], owner[t]}
             /\ status'[s] = "PREEMPTED" /\ status'[t] = "PLAYING"
             => s < t]_vars
    BY <1>1
  <1>3. LiveTypes /\ ChoiceInv /\ [LiveNext]_liveVars => LiveTypes' /\ ChoiceInv'
    BY NextTypes, NextChoice
  <1> QED
    BY <1>2, <1>3, InitLiveTypes, InitChoice, PTL DEF LiveSpec, PreemptOldestOnly
=============================================================================
