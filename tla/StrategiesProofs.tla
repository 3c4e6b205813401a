-------------------------- MODULE StrategiesProofs --------------------------
(***************************************************************************)
(* What a strategy guarantees when all claims on an account use it, for    *)
(* every number of devices, connections and sessions: the six that only    *)
(* the lab runs, and OPTIMISTIC.                                           *)
(***************************************************************************)
EXTENDS Strategies, Optimistic, ClaimServiceProofs, SequenceTheorems

Stages == {"start", "preempted", "ended", "inserted", "bumped", "taken", "counted", "committed"}

Tx == [stage : Stages, made : Sid \cup {0}, own : SUBSET Sid, expired : SUBSET Sid,
       rows : SUBSET Sid, reads : BOOLEAN, victim : Device \cup {NoDevice}]

Slot == [key : Nat, device : Device, left : Int]

TxTypes == tx \in [Conn -> Tx]

SlotTypes == slots \in Seq(Slot)

StrategyTypes == Types /\ strategy \in Tried /\ TxTypes /\ SlotTypes
-----------------------------------------------------------------------------
(* What the steps of a claim write into its records. *)

LEMMA NoTxType == NoTx \in Tx
  BY DEF NoTx, Tx, Stages

LEMMA StoreKept ==
  ASSUME Types, UNCHANGED storeVars
  PROVE  StoreTypeOK' /\ (lock' = Settings => newLimit' \in Limits)
  BY DEF Types, TypeInv, TypeOK, StoreTypeOK, storeVars, rowVars, accountVars

LEMMA OverType == ASSUME TxTypes, NEW c \in Conn, Over(c) PROVE TxTypes'
  BY NoTxType DEF Over, TxTypes

LEMMA IntoType ==
  ASSUME TxTypes, NEW c \in Conn, NEW st \in Stages, tx' = [tx EXCEPT ![c].stage = st]
  PROVE  TxTypes'
  BY DEF TxTypes, Tx

(* A claim's record after a step that keeps it going. *)
LEMMA GoesOn ==
  ASSUME Types, NEW c \in Conn, claim[c].step # "idle", NEW r \in Claim,
         r.device = claim[c].device, claim' = [claim EXCEPT ![c] = r]
  PROVE  claim' \in [Conn -> Claim] /\ Named'
  <1>1. claim \in [Conn -> Claim] /\ claim[c].device \in Device
    BY ClaimFacts DEF Types, TypeInv, TypeOK
  <1> QED
    BY <1>1 DEF Types, Named

LEMMA SeeLimitType ==
  ASSUME Types, NEW c \in Conn, claim[c].step = "read", SeeLimit(c)
  PROVE  claim' \in [Conn -> Claim] /\ Named'
  <1> DEFINE r == [claim[c] EXCEPT !.step = "count", !.seenMax = maxStreams]
  <1>1. claim[c] \in Claim /\ maxStreams \in Limits
    BY DEF Types, TypeInv, TypeOK, StoreTypeOK
  <1>2. r \in Claim /\ r.device = claim[c].device
    BY <1>1 DEF Claim, Steps
  <1>3. claim' = [claim EXCEPT ![c] = r]
    BY DEF SeeLimit
  <1> QED
    BY <1>2, <1>3, GoesOn

LEMMA ChooseAllType ==
  ASSUME Types, NEW c \in Conn, claim[c].step = "read", ChooseAll(c)
  PROVE  claim' \in [Conn -> Claim] /\ Named'
  <1> DEFINE r == [claim[c] EXCEPT !.step = "choose", !.excess = 1000]
             q == [claim[c] EXCEPT !.step = "grant"]
  <1>1. claim[c] \in Claim
    BY DEF Types, TypeInv, TypeOK
  <1>2. r \in Claim /\ r.device = claim[c].device
    <2>1. PICK e \in Int : e = 1000
      OBVIOUS
    <2>2. [claim[c] EXCEPT !.step = "choose", !.excess = e] \in Claim
      BY <1>1, ClaimUpdates
    <2>3. r.device = claim[c].device
      BY <1>1 DEF Claim
    <2>4. r \in Claim
      BY <2>1, <2>2, Zenon
    <2> QED
      BY <2>3, <2>4
  <1>3. q \in Claim /\ q.device = claim[c].device
    BY <1>1 DEF Claim, Steps
  <1>4. claim' = [claim EXCEPT ![c] = r] \/ claim' = [claim EXCEPT ![c] = q]
    BY DEF ChooseAll
  <1> HIDE DEF r, q
  <1> QED
    BY <1>2, <1>3, <1>4, GoesOn

LEMMA RetryTypes ==
  ASSUME Types, NEW c \in Conn, claim[c].step # "idle", Retry(c)
  PROVE  claim' \in [Conn -> Claim] /\ Named'
  BY RetryType, NamedStep DEF Types, TypeInv

LEMMA FinishTypes ==
  ASSUME Types, NEW c \in Conn, Finish(c)
  PROVE  claim' \in [Conn -> Claim] /\ Named'
  BY FinishType, NamedStep DEF Types, TypeInv

LEMMA ChoiceTypes ==
  ASSUME Types, NEW c \in Conn, CountActive(c) \/ OldestActive(c)
  PROVE  Types' /\ UNCHANGED storeVars
  <1>1. UNCHANGED storeVars
    BY DEF CountActive, OldestActive
  <1> QED
    BY <1>1, StoreKept, ChoiceType, NamedStep DEF Types, TypeInv, TypeOK

(* The COMMIT of a grant. *)
LEMMA CommitType ==
  ASSUME Types, TxTypes, NEW c \in Conn, claim[c].step # "idle", NEW own, CommitGrant(c, own)
  PROVE  StoreTypeOK' /\ (lock' = Settings => newLimit' \in Limits)
  <1>1. /\ StoreTypeOK /\ (lock = Settings => newLimit \in Limits)
        /\ claim[c].device \in Device /\ claim[c].id \in RequestId \cup {NoRequestId}
    BY ClaimFacts DEF Types, TypeInv, TypeOK
  <1>2. PICK s \in Sid :
          /\ status' = [t \in Sid |-> IF t = s THEN "PLAYING"
                                      ELSE IF t \in tx[c].expired THEN "EXPIRED"
                                      ELSE IF t \in own THEN "ENDED"
                                      ELSE IF t \in Preempted(c) THEN "PREEMPTED" ELSE status[t]]
          /\ left' = [t \in Sid |-> IF t = s THEN LeaseTicks
                                    ELSE IF status'[t] # "PLAYING" THEN -Skew ELSE left[t]]
          /\ owner' = [owner EXCEPT ![s] = claim[c].device]
          /\ requests' = requests \cup ClaimEvent(claim[c].device, claim[c].id, s)
          /\ Answer(ClaimEvent(claim[c].device, claim[c].id, s))
    BY Zenon DEF CommitGrant
  <1>3. version' \in Nat /\ UNCHANGED <<beat, maxStreams, lock, newLimit>>
    BY <1>1, BumpType DEF CommitGrant
  <1>4. status' \in [Sid -> Status]
    BY <1>1, <1>2 DEF StoreTypeOK, Status
  <1>5. left' \in [Sid -> (-Skew)..LeaseTicks]
    BY <1>1, <1>2, LeaseRange DEF StoreTypeOK
  <1>6. requests' \subseteq Request /\ answers' \subseteq Request
    BY <1>1, <1>2, ClaimEventType DEF Answer, StoreTypeOK
  <1>7. owner' \in [Sid -> Device \cup {NoDevice}]
    BY <1>1, <1>2 DEF StoreTypeOK
  <1> QED
    BY <1>1, <1>3, <1>4, <1>5, <1>6, <1>7 DEF StoreTypeOK

LEMMA RejectTypes ==
  ASSUME Types, NEW c \in Conn, claim[c].step # "idle", RejectCommit(c), UNCHANGED lock
  PROVE  Types'
  <1>1. /\ StoreTypeOK /\ (lock = Settings => newLimit \in Limits)
        /\ claim[c].device \in Device /\ claim[c].id \in RequestId \cup {NoRequestId}
    BY ClaimFacts DEF Types, TypeInv, TypeOK
  <1>2. Reject(claim[c].device, claim[c].id) /\ Finish(c) /\ newLimit' = newLimit
    BY DEF RejectCommit, Reject
  <1>3. lock' \in Conn \cup {Free, Settings}
    BY <1>1 DEF StoreTypeOK
  <1>4. StoreTypeOK'
    BY <1>1, <1>2, <1>3, RejectType
  <1> QED
    BY <1>1, <1>2, <1>4, FinishTypes DEF Types, TypeInv, TypeOK

LEMMA DuplicateTypes ==
  ASSUME Types, TxTypes, NEW c \in Conn, Duplicate(c)
  PROVE  Types' /\ TxTypes'
  <1>1. Finish(c) /\ Over(c) /\ DuplicateRollback(c) /\ UNCHANGED lock
    BY DEF Duplicate, DuplicateRollback
  <1>2. StoreTypeOK' /\ (lock' = Settings => newLimit' \in Limits)
    BY <1>1 DEF DuplicateRollback, Prior, PriorOutcome, rowVars, Types, TypeInv, TypeOK, StoreTypeOK
  <1> QED
    BY <1>1, <1>2, FinishTypes, OverType DEF Types, TypeInv, TypeOK
-----------------------------------------------------------------------------
(* The types after a step of each strategy.  The row lock is never held. *)

LEMMA NaiveTypes ==
  ASSUME Types, TxTypes, NEW c \in Conn, NaiveStep(c)
  PROVE  Types' /\ TxTypes'
  <1> DEFINE Goal == Types' /\ TxTypes'
  <1>1. CASE NaiveRead(c)
    BY <1>1, StoreKept, SeeLimitType DEF NaiveRead, Types, TypeInv, TypeOK, TxTypes
  <1>2. CASE NaiveChoose(c)
    BY <1>2, ChoiceTypes DEF NaiveChoose, TxTypes
  <1>3. CASE NaiveReject(c)
    BY <1>3, RejectTypes, DuplicateTypes DEF NaiveReject, Rejects, TxTypes
  <1>4. ASSUME NEW S, NEW st \in Status, NEW stage \in Stages,
               Retire(S, st), tx' = [tx EXCEPT ![c].stage = stage],
               UNCHANGED <<owner, beat, accountVars, requests, answers, claim>>
        PROVE  Goal
    <2>1. StoreTypeOK' /\ (lock' = Settings => newLimit' \in Limits)
      BY <1>4, RetireType DEF Types, TypeInv, TypeOK, StoreTypeOK, accountVars
    <2> QED
      BY <1>4, <2>1, IntoType DEF Types, TypeInv, TypeOK, Named
  <1>5. CASE NaivePreempt(c) \/ NaiveEndOwn(c)
    BY <1>4, <1>5 DEF NaivePreempt, NaiveEndOwn, Into, Status, Stages
  <1>6. CASE NaiveInsert(c)
    <2>1. claim[c].device \in Device
      BY <1>6, ClaimFacts DEF NaiveInsert, At
    <2>2. StoreTypeOK' /\ (lock' = Settings => newLimit' \in Limits)
      BY <1>6, <2>1, LeaseRange
      DEF NaiveInsert, Types, TypeInv, TypeOK, StoreTypeOK, Status, accountVars
    <2>3. TxTypes'
      <3>1. PICK s \in Sid : tx' = [tx EXCEPT ![c].stage = "inserted", ![c].made = s]
        BY <1>6, Zenon DEF NaiveInsert
      <3> DEFINE r == [tx[c] EXCEPT !.stage = "inserted", !.made = s]
      <3>2. r \in Tx
        BY DEF TxTypes, Tx, Stages
      <3>3. tx' = [tx EXCEPT ![c] = r]
        BY <3>1
      <3> QED
        BY <3>2, <3>3 DEF TxTypes
    <2> QED
      BY <1>6, <2>2, <2>3 DEF NaiveInsert, Types, TypeInv, TypeOK, Named
  <1>7. CASE NaiveBump(c)
    <2>1. StoreTypeOK' /\ (lock' = Settings => newLimit' \in Limits)
      BY <1>7, BumpType DEF NaiveBump, Types, TypeInv, TypeOK, StoreTypeOK, rowVars
    <2> QED
      BY <1>7, <2>1, IntoType DEF NaiveBump, Into, Types, TypeInv, TypeOK, Named, Stages
  <1>8. CASE NaiveEvent(c)
    <2> DEFINE event == ClaimEvent(claim[c].device, claim[c].id, tx[c].made)
               outcome == IF Prior(c) = {} THEN event ELSE Prior(c)
    <2>1. event \subseteq Request
      BY <1>8, ClaimFacts, ClaimEventType DEF NaiveEvent, At, TxTypes, Tx
    <2>2. Prior(c) \subseteq requests /\ requests \subseteq Request /\ answers \subseteq Request
      BY DEF Prior, PriorOutcome, Types, TypeInv, TypeOK, StoreTypeOK
    <2>3. /\ requests' = requests \cup (IF Prior(c) = {} THEN event ELSE {})
          /\ Answer(outcome)
      BY <1>8 DEF NaiveEvent
    <2> HIDE DEF event
    <2>4. requests' \subseteq Request /\ answers' \subseteq Request
      BY <2>1, <2>2, <2>3 DEF Answer
    <2>5. StoreTypeOK' /\ (lock' = Settings => newLimit' \in Limits)
      BY <1>8, <2>4 DEF NaiveEvent, Types, TypeInv, TypeOK, StoreTypeOK, rowVars, accountVars
    <2> QED
      BY <1>8, <2>5, FinishTypes, OverType DEF NaiveEvent, Types, TypeInv, TypeOK
  <1> QED
    BY <1>1, <1>2, <1>3, <1>5, <1>6, <1>7, <1>8 DEF NaiveStep

(* The steps that strategies with a transaction share. *)
LEMMA GrantTypes ==
  ASSUME Types, TxTypes, NEW c \in Conn, claim[c].step # "idle", NEW own,
         CommitGrant(c, own), Finish(c), Over(c)
  PROVE  Types' /\ TxTypes'
  BY CommitType, FinishTypes, OverType DEF Types, TypeInv, TypeOK

LEMMA RollbackTypes ==
  ASSUME Types, TxTypes, NEW c \in Conn, claim[c].step # "idle", Retry(c), Over(c),
         UNCHANGED storeVars
  PROVE  Types' /\ TxTypes'
  BY StoreKept, RetryTypes, OverType DEF Types, TypeInv, TypeOK

LEMMA RefusedTypes ==
  ASSUME Types, TxTypes, NEW c \in Conn, claim[c].step # "idle",
         IF Prior(c) = {} THEN RejectCommit(c) /\ UNCHANGED lock /\ Over(c) ELSE Duplicate(c)
  PROVE  Types' /\ TxTypes'
  BY RejectTypes, OverType, DuplicateTypes

LEMMA TxnTypes ==
  ASSUME Types, TxTypes, NEW c \in Conn, TxnStep(c)
  PROVE  Types' /\ TxTypes'
  <1>1. CASE TxnSnapshot(c)
    <2> DEFINE excess == Cardinality(Others(c)) - maxStreams + 1
    <2>1. PICK V \in SUBSET Others(c) :
            /\ claim' = [claim EXCEPT ![c] =
                 [claim[c] EXCEPT !.step = "grant", !.excess = excess, !.toPreempt = V,
                                  !.seenMax = maxStreams]]
            /\ tx' = [tx EXCEPT ![c].own = OwnOpen(c)]
            /\ UNCHANGED storeVars
      BY <1>1, Zenon DEF TxnSnapshot
    <2>2. /\ claim[c] \in Claim /\ maxStreams \in Limits /\ claim[c].step = "read"
          /\ OwnOpen(c) \in SUBSET Sid /\ V \in SUBSET Sid
      BY <1>1, ActiveSets
      DEF TxnSnapshot, Types, TypeInv, TypeOK, StoreTypeOK, OwnOpen, Open, Others
    <2>3. excess \in Int
      BY <2>2, LimitsNat, SessionSets, ActiveSets DEF Others
    <2> HIDE DEF excess
    <2> DEFINE r == [claim[c] EXCEPT !.step = "grant", !.excess = excess, !.toPreempt = V,
                                     !.seenMax = maxStreams]
    <2>4. r \in Claim /\ r.device = claim[c].device
      BY <2>2, <2>3 DEF Claim, Steps
    <2>5. claim' = [claim EXCEPT ![c] = r]
      BY <2>1
    <2>6. TxTypes'
      BY <2>1, <2>2 DEF TxTypes, Tx
    <2> HIDE DEF r
    <2>7. claim' \in [Conn -> Claim] /\ Named'
      BY <2>2, <2>4, <2>5, GoesOn
    <2> QED
      BY <2>1, <2>6, <2>7, StoreKept DEF Types, TypeInv, TypeOK
  <1>2. CASE TxnReject(c)
    BY <1>2, RefusedTypes DEF TxnReject, At
  <1>3. CASE TxnGrant(c)
    BY <1>3, GrantTypes, DuplicateTypes DEF TxnGrant, At
  <1>4. CASE TxnDeadlock(c)
    BY <1>4, RollbackTypes DEF TxnDeadlock, At, RollbackRetry
  <1> QED
    BY <1>1, <1>2, <1>3, <1>4 DEF TxnStep

LEMMA SerialTypes ==
  ASSUME Types, TxTypes, NEW c \in Conn, SerialStep(c)
  PROVE  Types' /\ TxTypes'
  <1>1. CASE SerialRead(c)
    <2>1. TxTypes'
      BY <1>1 DEF SerialRead, TxTypes, Tx
    <2> QED
      BY <1>1, <2>1, StoreKept, SeeLimitType DEF SerialRead, Types, TypeInv, TypeOK
  <1>2. CASE SerialCount(c)
    <2>1. TxTypes'
      BY <1>2, ActiveSets DEF SerialCount, TxTypes, Tx
    <2> QED
      BY <1>2, <2>1, ChoiceTypes DEF SerialCount
  <1>3. CASE SerialChoose(c)
    BY <1>3, ChoiceTypes DEF SerialChoose, TxTypes
  <1>4. CASE SerialReject(c)
    BY <1>4, RefusedTypes DEF SerialReject, Rejects
  <1>5. CASE SerialGrant(c)
    BY <1>5, GrantTypes, DuplicateTypes DEF SerialGrant, At
  <1>6. CASE SerialDeadlock(c)
    BY <1>6, RollbackTypes DEF SerialDeadlock, At, RollbackRetry
  <1> QED
    BY <1>1, <1>2, <1>3, <1>4, <1>5, <1>6 DEF SerialStep

LEMMA TxUpdate ==
  ASSUME TxTypes, NEW c \in Conn, NEW r \in Tx, tx' = [tx EXCEPT ![c] = r]
  PROVE  TxTypes'
  BY DEF TxTypes

LEMMA RowSets ==
  ASSUME Types, NEW c \in Conn
  PROVE  /\ OwnOpen(c) \in SUBSET Sid /\ Preempted(c) \in SUBSET Sid /\ Ends(c) \in SUBSET Sid
         /\ Lapsed \in SUBSET Sid
  BY DEF OwnOpen, Open, Preempted, Ends, Lapsed, Types, TypeInv, TypeOK, Claim

LEMMA UniqueTypes ==
  ASSUME Types, TxTypes, NEW c \in Conn, UniqueStep(c)
  PROVE  Types' /\ TxTypes'
  <1>1. CASE UniqueExpire(c)
    <2> DEFINE r == [tx[c] EXCEPT !.expired = Lapsed, !.rows = Lapsed]
    <2>1. r \in Tx
      BY RowSets DEF TxTypes, Tx
    <2>2. tx' = [tx EXCEPT ![c] = r]
      BY <1>1 DEF UniqueExpire
    <2> HIDE DEF r
    <2>3. TxTypes'
      BY <2>1, <2>2, TxUpdate
    <2> QED
      BY <1>1, <2>3, StoreKept, ChooseAllType DEF UniqueExpire, Types, TypeInv, TypeOK
  <1>2. CASE UniqueChoose(c)
    BY <1>2, ChoiceTypes DEF UniqueChoose, TxTypes
  <1>3. CASE UniqueEnds(c)
    <2> DEFINE r == [tx[c] EXCEPT !.stage = "ended", !.own = OwnOpen(c) \ tx[c].expired,
                                  !.rows = tx[c].rows \cup Ends(c)]
    <2>1. r \in Tx
      BY RowSets DEF TxTypes, Tx, Stages
    <2>2. tx' = [tx EXCEPT ![c] = r]
      BY <1>3 DEF UniqueEnds
    <2> HIDE DEF r
    <2>3. TxTypes'
      BY <2>1, <2>2, TxUpdate
    <2> QED
      BY <1>3, <2>3, StoreKept DEF UniqueEnds, Types, TypeInv, TypeOK, Named
  <1>4. CASE UniqueInsert(c)
    BY <1>4, StoreKept, IntoType DEF UniqueInsert, Into, Stages, Types, TypeInv, TypeOK, Named
  <1>5. CASE UniqueTaken(c)
    <2>1. CASE Retry(c) /\ Over(c)
      BY <1>5, <2>1, RollbackTypes DEF UniqueTaken, AtKey, At
    <2>2. CASE tx' = [tx EXCEPT ![c] = [NoTx EXCEPT !.stage = "taken"]] /\ UNCHANGED claim
      <3>1. [NoTx EXCEPT !.stage = "taken"] \in Tx
        BY NoTxType DEF Tx, Stages
      <3>2. TxTypes'
        BY <2>2, <3>1, TxUpdate
      <3> QED
        BY <1>5, <2>2, <3>2, StoreKept DEF UniqueTaken, Types, TypeInv, TypeOK, Named
    <2> QED
      BY <1>5, <2>1, <2>2 DEF UniqueTaken
  <1>6. CASE UniqueCommit(c)
    BY <1>6, GrantTypes, DuplicateTypes DEF UniqueCommit, At
  <1>7. CASE UniqueDeadlock(c)
    BY <1>7, RollbackTypes DEF UniqueDeadlock, At, RollbackRetry
  <1>8. CASE RefusedReject(c)
    BY <1>8, RefusedTypes DEF RefusedReject, At
  <1> QED
    BY <1>1, <1>2, <1>3, <1>4, <1>5, <1>6, <1>7, <1>8 DEF UniqueStep

LEMMA TriggerTypes ==
  ASSUME Types, TxTypes, NEW c \in Conn, TriggerStep(c)
  PROVE  Types' /\ TxTypes'
  <1>1. CASE TriggerStart(c)
    BY <1>1, StoreKept, ChooseAllType DEF TriggerStart, TxTypes, Types, TypeInv, TypeOK
  <1>2. CASE TriggerChoose(c)
    BY <1>2, ChoiceTypes DEF TriggerChoose, TxTypes
  <1>3. CASE TriggerCount(c)
    <2> DEFINE r == [tx[c] EXCEPT !.stage = "counted", !.own = OwnOpen(c), !.rows = Ends(c)]
    <2>1. r \in Tx
      BY RowSets DEF TxTypes, Tx, Stages
    <2>2. tx' = [tx EXCEPT ![c] = r]
      BY <1>3 DEF TriggerCount
    <2> HIDE DEF r
    <2>3. TxTypes'
      BY <2>1, <2>2, TxUpdate
    <2> QED
      BY <1>3, <2>3, StoreKept DEF TriggerCount, Types, TypeInv, TypeOK, Named
  <1>4. CASE TriggerSignals(c)
    BY <1>4, StoreKept, IntoType DEF TriggerSignals, Into, Stages, Types, TypeInv, TypeOK, Named
  <1>5. CASE TriggerInsert(c)
    <2> DEFINE r == [tx[c] EXCEPT !.stage = "inserted", !.reads = TRUE]
    <2>1. r \in Tx
      BY DEF TxTypes, Tx, Stages
    <2>2. tx' = [tx EXCEPT ![c] = r]
      BY <1>5 DEF TriggerInsert
    <2> HIDE DEF r
    <2>3. TxTypes'
      BY <2>1, <2>2, TxUpdate
    <2> QED
      BY <1>5, <2>3, StoreKept DEF TriggerInsert, Types, TypeInv, TypeOK, Named
  <1>6. CASE TriggerCommit(c)
    BY <1>6, GrantTypes, DuplicateTypes DEF TriggerCommit, At
  <1>7. CASE TriggerDeadlock(c)
    BY <1>7, RollbackTypes DEF TriggerDeadlock, At, RollbackRetry
  <1>8. CASE RefusedReject(c)
    BY <1>8, RefusedTypes DEF RefusedReject, At
  <1> QED
    BY <1>1, <1>2, <1>3, <1>4, <1>5, <1>6, <1>7, <1>8 DEF TriggerStep
-----------------------------------------------------------------------------
(* The slots. *)

(* What is kept of the slots is part of them, each at most once. *)
LEMMA KeptSlots ==
  ASSUME slots \in Seq(Slot), NEW S \in SUBSET DOMAIN slots, NEW rest \in Kept(S)
  PROVE  /\ rest \in Seq(Slot)
         /\ \E at \in [DOMAIN rest -> S] :
              /\ \A i \in DOMAIN rest : rest[i] = slots[at[i]]
              /\ \A i, j \in DOMAIN rest : at[i] = at[j] => i = j
  <1> DEFINE n == Cardinality(S)
  <1>1. n \in Nat
    <2>1. Len(slots) \in Nat /\ DOMAIN slots = 1..Len(slots)
      OBVIOUS
    <2>2. IsFiniteSet(1..Len(slots))
      BY <2>1, FS_Interval
    <2> QED
      BY <2>1, <2>2, FS_Subset, FS_CardinalityType
  <1>2. PICK at \in [1..n -> S] :
          /\ \A i, j \in 1..n : i < j => at[i] < at[j]
          /\ rest = [i \in 1..n |-> slots[at[i]]]
    BY DEF Kept
  <1> HIDE DEF n
  <1>3. \A i \in 1..n : slots[at[i]] \in Slot
    BY <1>2
  <1>4. rest \in [1..n -> Slot] /\ DOMAIN rest = 1..n
    BY <1>2, <1>3
  <1>5. rest \in Seq(Slot)
    BY <1>1, <1>4, SeqDef
  <1>6. \A i, j \in 1..n : at[i] = at[j] => i = j
    <2> SUFFICES ASSUME NEW i \in 1..n, NEW j \in 1..n, at[i] = at[j], i # j
                 PROVE  FALSE
      OBVIOUS
    <2>1. at[i] \in Int /\ at[j] \in Int
      OBVIOUS
    <2>2. i < j \/ j < i
      BY <1>1
    <2>3. at[i] < at[j] \/ at[j] < at[i]
      BY <1>2, <2>2
    <2> QED
      BY <2>1, <2>3
  <1> QED
    BY <1>2, <1>4, <1>5, <1>6

(* A key that changes hands: nobody else has it, and its device has no     *)
(* other one.                                                              *)
LEMMA HandedSlot ==
  ASSUME slots \in Seq(Slot), NEW k \in Nat, NEW d \in Device, slots' \in Hand(k, d)
  PROVE  /\ slots' \in Seq(Slot)
         /\ OneSlotEach /\ (\A i \in DOMAIN slots : slots[i].device = d => slots[i].key = k)
              => OneSlotEach'
  <1> DEFINE S == {i \in DOMAIN slots : slots[i].key # k}
             e == [key |-> k, device |-> d, left |-> LeaseTicks]
  <1>1. PICK rest \in Kept(S) : slots' = Append(rest, e)
    BY DEF Hand, Without
  <1>2. e \in Slot
    BY StoreAssumption DEF Slot, StoreAssumption
  <1>3. S \in SUBSET DOMAIN slots
    OBVIOUS
  <1>4. /\ rest \in Seq(Slot)
        /\ \E at \in [DOMAIN rest -> S] :
             /\ \A i \in DOMAIN rest : rest[i] = slots[at[i]]
             /\ \A i, j \in DOMAIN rest : at[i] = at[j] => i = j
    BY <1>3, KeptSlots
  <1>5. PICK at \in [DOMAIN rest -> S] :
          /\ \A i \in DOMAIN rest : rest[i] = slots[at[i]]
          /\ \A i, j \in DOMAIN rest : at[i] = at[j] => i = j
    BY <1>4
  <1>6. /\ slots' \in Seq(Slot)
        /\ DOMAIN slots' = 1..(Len(rest) + 1) /\ DOMAIN rest = 1..Len(rest) /\ Len(rest) \in Nat
        /\ \A i \in DOMAIN rest : slots'[i] = rest[i]
        /\ slots'[Len(rest) + 1] = e
    BY <1>1, <1>2, <1>4, AppendProperties
  <1>7. ASSUME OneSlotEach, \A i \in DOMAIN slots : slots[i].device = d => slots[i].key = k
        PROVE  OneSlotEach'
    <2>1. \A i \in DOMAIN rest : rest[i].key # k /\ rest[i].device # d
      BY <1>5, <1>7
    <2>2. \A i, j \in DOMAIN rest :
            rest[i].key = rest[j].key \/ rest[i].device = rest[j].device => i = j
      BY <1>5, <1>7 DEF OneSlotEach
    <2>3. e.key = k /\ e.device = d
      OBVIOUS
    <2> HIDE DEF e
    <2> QED
      BY <1>6, <2>1, <2>2, <2>3 DEF OneSlotEach
  <1> QED
    BY <1>6, <1>7

(* Keys that go: deleted ones, or those whose TTL is over. *)
LEMMA FewerSlots ==
  ASSUME slots \in Seq(Slot), NEW S \in SUBSET DOMAIN slots, NEW rest \in Kept(S),
         slots' \in Seq(Slot), DOMAIN slots' = DOMAIN rest,
         \A i \in DOMAIN rest : slots'[i].key = rest[i].key /\ slots'[i].device = rest[i].device,
         OneSlotEach
  PROVE  OneSlotEach'
  <1>1. PICK at \in [DOMAIN rest -> S] :
          /\ \A i \in DOMAIN rest : rest[i] = slots[at[i]]
          /\ \A i, j \in DOMAIN rest : at[i] = at[j] => i = j
    BY KeptSlots
  <1> QED
    BY <1>1 DEF OneSlotEach

LEMMA DeletedSlot ==
  ASSUME slots \in Seq(Slot), NEW k, slots' \in Without(k)
  PROVE  slots' \in Seq(Slot) /\ (OneSlotEach => OneSlotEach')
  <1> DEFINE S == {i \in DOMAIN slots : slots[i].key # k}
  <1>1. S \in SUBSET DOMAIN slots /\ slots' \in Kept(S)
    BY DEF Without
  <1> HIDE DEF S
  <1>2. slots' \in Seq(Slot)
    BY <1>1, KeptSlots
  <1> QED
    BY <1>1, <1>2, FewerSlots

LEMMA ExpiredSlots ==
  ASSUME slots \in Seq(Slot), SlotsExpire
  PROVE  slots' \in Seq(Slot) /\ (OneSlotEach => OneSlotEach')
  <1> DEFINE S == {i \in DOMAIN slots : slots[i].left > 1}
  <1>1. PICK rest \in Kept(S) :
          slots' = [i \in DOMAIN rest |-> [rest[i] EXCEPT !.left = @ - 1]]
    BY DEF SlotsExpire
  <1>2. S \in SUBSET DOMAIN slots
    OBVIOUS
  <1> HIDE DEF S
  <1>3. rest \in Seq(Slot)
    BY <1>2, KeptSlots
  <1>4. /\ DOMAIN slots' = DOMAIN rest /\ DOMAIN rest = 1..Len(rest) /\ Len(rest) \in Nat
        /\ \A i \in DOMAIN rest : slots'[i] = [rest[i] EXCEPT !.left = @ - 1]
    BY <1>1, <1>3
  <1>5. \A i \in DOMAIN rest : rest[i] \in Slot
    BY <1>3
  <1>6. \A i \in DOMAIN rest : /\ slots'[i] \in Slot
                               /\ slots'[i].key = rest[i].key /\ slots'[i].device = rest[i].device
    BY <1>4, <1>5 DEF Slot
  <1>7. slots' \in Seq(Slot)
    <2>1. slots' \in [1..Len(rest) -> Slot]
      BY <1>1, <1>4, <1>6
    <2> QED
      BY <1>4, <2>1, SeqDef
  <1> QED
    BY <1>2, <1>4, <1>6, <1>7, FewerSlots

(* PEXPIRE touches only a TTL. *)
LEMMA ExtendedSlot ==
  ASSUME slots \in Seq(Slot), NEW call, ExtendSlot(call)
  PROVE  slots' \in Seq(Slot) /\ (OneSlotEach => OneSlotEach')
  <1>1. slots' = [i \in DOMAIN slots |->
                    IF slots[i].key = call.key THEN [slots[i] EXCEPT !.left = LeaseTicks]
                    ELSE slots[i]]
    BY DEF ExtendSlot
  <1>2. DOMAIN slots = 1..Len(slots) /\ Len(slots) \in Nat /\ \A i \in DOMAIN slots : slots[i] \in Slot
    OBVIOUS
  <1>3. \A i \in DOMAIN slots : /\ slots'[i] \in Slot
                                /\ slots'[i].key = slots[i].key /\ slots'[i].device = slots[i].device
    <2> SUFFICES ASSUME NEW i \in DOMAIN slots
                 PROVE  /\ slots'[i] \in Slot
                        /\ slots'[i].key = slots[i].key /\ slots'[i].device = slots[i].device
      OBVIOUS
    <2>1. slots'[i] = [slots[i] EXCEPT !.left = LeaseTicks] \/ slots'[i] = slots[i]
      BY <1>1
    <2>2. slots[i] \in Slot /\ LeaseTicks \in Int
      BY <1>2, StoreAssumption DEF StoreAssumption
    <2> QED
      BY <2>1, <2>2 DEF Slot
  <1>4. slots' \in Seq(Slot)
    <2>1. slots' \in [1..Len(slots) -> Slot]
      BY <1>1, <1>2, <1>3
    <2> QED
      BY <1>2, <2>1, SeqDef
  <1>5. DOMAIN slots' = DOMAIN slots
    BY <1>1
  <1> QED
    BY <1>3, <1>4, <1>5 DEF OneSlotEach
-----------------------------------------------------------------------------
(* REDIS_LEASE. *)

SlotsKept == OneSlotEach => OneSlotEach'

LEMMA SameSlots ==
  ASSUME SlotTypes, UNCHANGED slots
  PROVE  SlotTypes' /\ SlotsKept
  BY DEF SlotTypes, SlotsKept, OneSlotEach

LEMMA AdmittedTypes ==
  ASSUME Types, TxTypes, SlotTypes, NEW c \in Conn, claim[c].step = "count", NEW k \in Nat,
         NEW victim \in Device \cup {NoDevice}, Admitted(c, k, victim)
  PROVE  /\ Types' /\ TxTypes' /\ SlotTypes'
         /\ (\A i \in DOMAIN slots : slots[i].device = claim[c].device => slots[i].key = k)
              => SlotsKept
  <1>1. claim[c].device \in Device /\ claim[c] \in Claim
    BY ClaimFacts DEF Types, TypeInv, TypeOK
  <1>2. SlotTypes' /\ ((\A i \in DOMAIN slots :
                          slots[i].device = claim[c].device => slots[i].key = k) => SlotsKept)
    BY <1>1, HandedSlot DEF Admitted, SlotTypes, SlotsKept
  <1>3. TxTypes'
    <2> DEFINE r == [tx[c] EXCEPT !.victim = victim]
    <2>1. r \in Tx
      BY DEF TxTypes, Tx
    <2>2. tx' = [tx EXCEPT ![c] = r]
      BY DEF Admitted
    <2> HIDE DEF r
    <2> QED
      BY <2>1, <2>2, TxUpdate
  <1>4. claim' \in [Conn -> Claim] /\ Named'
    <2> DEFINE r == [claim[c] EXCEPT !.step = "choose"]
    <2>1. r \in Claim /\ r.device = claim[c].device
      BY <1>1 DEF Claim, Steps
    <2>2. claim' = [claim EXCEPT ![c] = r]
      BY DEF Admitted
    <2> HIDE DEF r
    <2> QED
      BY <2>1, <2>2, GoesOn
  <1>5. StoreTypeOK' /\ (lock' = Settings => newLimit' \in Limits)
    BY StoreKept DEF Admitted
  <1> QED
    BY <1>2, <1>3, <1>4, <1>5 DEF Types, TypeInv, TypeOK

LEMMA AcquireTypes ==
  ASSUME Types, TxTypes, SlotTypes, NEW c \in Conn,
         AcquireOwn(c) \/ AcquireFree(c) \/ AcquireSteal(c)
  PROVE  Types' /\ TxTypes' /\ SlotTypes' /\ SlotsKept
  <1>1. \A i \in DOMAIN slots : slots[i].key \in Nat /\ slots[i].device \in Device
    <2>1. \A i \in DOMAIN slots : slots[i] \in Slot
      BY DEF SlotTypes
    <2> QED
      BY <2>1 DEF Slot
  <1>2. maxStreams \in Nat \ {0}
    BY LimitsNat DEF Types, TypeInv, TypeOK, StoreTypeOK
  <1>3. CASE AcquireOwn(c)
    <2>1. PICK k \in Taken : /\ claim[c].device \in Holder(k) /\ Admitted(c, k, NoDevice)
                             /\ claim[c].step = "count"
      BY <1>3 DEF AcquireOwn
    <2>2. k \in Nat
      BY <1>1 DEF Taken
    <2>3. Types' /\ TxTypes' /\ SlotTypes'
      BY <2>1, <2>2, AdmittedTypes
    <2>4. ASSUME OneSlotEach
          PROVE  \A i \in DOMAIN slots : slots[i].device = claim[c].device => slots[i].key = k
      BY <2>1, <2>4 DEF Holder, OneSlotEach
    <2>5. OneSlotEach => SlotsKept
      BY <2>1, <2>2, <2>4, AdmittedTypes
    <2> QED
      BY <2>3, <2>5 DEF SlotsKept
  <1>4. ASSUME ~Holds(claim[c].device)
        PROVE  \A i \in DOMAIN slots : slots[i].device # claim[c].device
    BY <1>4 DEF Holds, Taken, Holder
  <1>5. CASE AcquireFree(c)
    <2>1. PICK k \in Key \ Taken : /\ ~Holds(claim[c].device) /\ Admitted(c, k, NoDevice)
                                   /\ claim[c].step = "count"
      BY <1>5 DEF AcquireFree
    <2>2. k \in Nat
      BY <1>2 DEF Key
    <2> QED
      BY <1>4, <2>1, <2>2, AdmittedTypes
  <1>6. CASE AcquireSteal(c)
    <2>1. /\ ~Holds(claim[c].device) /\ Admitted(c, Head(slots).key, Head(slots).device)
          /\ claim[c].step = "count" /\ Taken = Key
      BY <1>6 DEF AcquireSteal
    <2>2. 1 \in Key
      BY <1>2 DEF Key
    <2>3. slots # <<>>
      BY <2>1, <2>2 DEF Taken
    <2>4. Head(slots) \in Slot
      BY <2>3, HeadTailProperties DEF SlotTypes
    <2>5. Head(slots).key \in Nat /\ Head(slots).device \in Device
      BY <2>4 DEF Slot
    <2> QED
      BY <1>4, <2>1, <2>5, AdmittedTypes
  <1> QED
    BY <1>3, <1>5, <1>6

LEMMA RedisTypes ==
  ASSUME Types, TxTypes, SlotTypes, NEW c \in Conn, RedisStep(c)
  PROVE  Types' /\ TxTypes' /\ SlotTypes' /\ SlotsKept
  <1>1. CASE AcquireOwn(c) \/ AcquireFree(c) \/ AcquireSteal(c)
    BY <1>1, AcquireTypes
  <1>2. CASE ~(AcquireOwn(c) \/ AcquireFree(c) \/ AcquireSteal(c))
    <2>1. UNCHANGED slots
      BY <1>2 DEF RedisStep, RedisRead, AcquireNone, RedisChoose, RedisInsert, RedisGrant,
                  RedisDuplicate, RedisDeadlock, RedisReconcile
    <2>2. SlotTypes' /\ SlotsKept
      BY <2>1, SameSlots
    <2>3. ASSUME claim[c].step # "idle", NEW r \in Claim, r.device = claim[c].device,
                 claim' = [claim EXCEPT ![c] = r], UNCHANGED storeVars
          PROVE  Types'
      BY <2>3, GoesOn, StoreKept DEF Types, TypeInv, TypeOK
    <2>4. claim[c] \in Claim
      BY DEF Types, TypeInv, TypeOK
    <2>5. CASE RedisRead(c)
      BY <2>5, StoreKept, SeeLimitType, <2>2 DEF RedisRead, Types, TypeInv, TypeOK, TxTypes
    <2>6. CASE AcquireNone(c)
      <3> DEFINE r == [claim[c] EXCEPT !.step = "grant"]
      <3>1. r \in Claim /\ r.device = claim[c].device
        BY <2>4 DEF Claim, Steps
      <3>2. claim' = [claim EXCEPT ![c] = r] /\ claim[c].step # "idle" /\ UNCHANGED storeVars
        BY <2>6 DEF AcquireNone
      <3> HIDE DEF r
      <3>3. TxTypes'
        BY <2>6, IntoType DEF AcquireNone, Stages
      <3> QED
        BY <2>2, <2>3, <3>1, <3>2, <3>3
    <2>7. CASE RedisChoose(c)
      <3> DEFINE V == {s \in Sid : status[s] = "PLAYING" /\ owner[s] = tx[c].victim}
                 r == [claim[c] EXCEPT !.step = "grant", !.toPreempt = V]
      <3>0. V \in SUBSET Sid
        OBVIOUS
      <3>1. claim' = [claim EXCEPT ![c] = r] /\ claim[c].step # "idle" /\ UNCHANGED storeVars
        BY <2>7 DEF RedisChoose
      <3> HIDE DEF V
      <3>2. r \in Claim /\ r.device = claim[c].device
        BY <2>4, <3>0 DEF Claim, Steps
      <3> HIDE DEF r
      <3>3. TxTypes'
        BY <2>7 DEF RedisChoose, TxTypes
      <3> QED
        BY <2>2, <2>3, <3>1, <3>2, <3>3
    <2>8. CASE RedisInsert(c)
      <3> DEFINE ends == OwnOpen(c) \cup Preempted(c)
                 r == [tx[c] EXCEPT !.stage = "inserted", !.own = OwnOpen(c), !.rows = ends]
      <3>1. r \in Tx
        BY RowSets DEF TxTypes, Tx, Stages
      <3>2. tx' = [tx EXCEPT ![c] = r]
        BY <2>8 DEF RedisInsert
      <3> HIDE DEF r
      <3>3. TxTypes'
        BY <3>1, <3>2, TxUpdate
      <3> QED
        BY <2>2, <2>8, <3>3, StoreKept DEF RedisInsert, Types, TypeInv, TypeOK, Named
    <2>9. CASE RedisGrant(c)
      <3>1. StoreTypeOK' /\ (lock' = Settings => newLimit' \in Limits)
        BY <2>9, CommitType DEF RedisGrant, At
      <3>2. CASE Finish(c) /\ Over(c)
        BY <2>2, <3>1, <3>2, FinishTypes, OverType DEF Types, TypeInv, TypeOK
      <3>3. CASE tx' = [tx EXCEPT ![c] = [NoTx EXCEPT !.stage = "committed"]] /\ UNCHANGED claim
        <4>1. [NoTx EXCEPT !.stage = "committed"] \in Tx
          BY NoTxType DEF Tx, Stages
        <4>2. TxTypes'
          BY <3>3, <4>1, TxUpdate
        <4> QED
          BY <2>2, <3>1, <3>3, <4>2 DEF Types, TypeInv, TypeOK, Named
      <3> QED
        BY <2>9, <3>2, <3>3 DEF RedisGrant
    <2>10. CASE RedisDuplicate(c)
      BY <2>2, <2>10, DuplicateTypes DEF RedisDuplicate
    <2>11. CASE RedisDeadlock(c)
      <3>1. CASE Finish(c) /\ Over(c)
        BY <2>2, <2>11, <3>1, StoreKept, FinishTypes, OverType
        DEF RedisDeadlock, Types, TypeInv, TypeOK
      <3>2. CASE /\ claim[c].attempt < MaxRetry
                 /\ claim' = [claim EXCEPT ![c].step = "choose", ![c].attempt = @ + 1,
                                           ![c].toPreempt = {}]
                 /\ tx' = [tx EXCEPT ![c] = [NoTx EXCEPT !.victim = tx[c].victim]]
        <4> DEFINE r == [claim[c] EXCEPT !.step = "choose", !.attempt = claim[c].attempt + 1,
                                         !.toPreempt = {}]
        <4>1. claim[c].attempt + 1 \in 0..MaxRetry
          BY <2>4, <3>2, RetryAssumption DEF Claim, RetryAssumption
        <4>2. r \in Claim /\ r.device = claim[c].device
          BY <2>4, <4>1 DEF Claim, Steps
        <4>3. claim' = [claim EXCEPT ![c] = r]
          BY <3>2
        <4> HIDE DEF r
        <4>4. claim[c].step # "idle" /\ UNCHANGED storeVars
          BY <2>11 DEF RedisDeadlock, At
        <4>5. [NoTx EXCEPT !.victim = tx[c].victim] \in Tx
          BY NoTxType DEF TxTypes, Tx
        <4>6. TxTypes'
          BY <3>2, <4>5, TxUpdate
        <4> QED
          BY <2>2, <2>3, <4>2, <4>3, <4>4, <4>6
      <3> QED
        BY <2>11, <3>1, <3>2 DEF RedisDeadlock
    <2>12. CASE RedisReconcile(c)
      <3>1. PICK V : /\ Retire(V, "PREEMPTED") /\ (IF V = {} THEN UNCHANGED version ELSE Bump)
                     /\ Finish(c) /\ Over(c)
                     /\ UNCHANGED <<owner, beat, maxStreams, lock, newLimit, requests, answers>>
        BY <2>12, Zenon DEF RedisReconcile
      <3>2. version' \in Nat
        BY <3>1, BumpType DEF Types, TypeInv, TypeOK, StoreTypeOK
      <3>3. StoreTypeOK' /\ (lock' = Settings => newLimit' \in Limits)
        BY <3>1, <3>2, RetireType DEF Types, TypeInv, TypeOK, StoreTypeOK, Status
      <3> QED
        BY <2>2, <3>1, <3>3, FinishTypes, OverType DEF Types, TypeInv, TypeOK
    <2>13. CASE RefusedReject(c)
      BY <2>2, <2>13, RefusedTypes DEF RefusedReject, At
    <2> QED
      BY <1>2, <2>5, <2>6, <2>7, <2>8, <2>9, <2>10, <2>11, <2>12, <2>13 DEF RedisStep
  <1> QED
    BY <1>1, <1>2
-----------------------------------------------------------------------------
(* Every step. *)

(* The rest of the service, and what it leaves alone. *)
LEMMA ServeKinds ==
  ASSUME Types, Serve
  PROVE  /\ UNCHANGED <<strategy, claim, tx>>
         /\ StoreNext \/ (\E s \in Sid : Heartbeat(s)) \/ UNCHANGED storeVars
         /\ UNCHANGED slots \/ SlotsExpire
         /\ UNCHANGED <<requests, answers, maxStreams>>
  <1>1. UNCHANGED <<strategy, claim, tx>>
    BY DEF Serve
  <1>2. CASE Operations /\ UNCHANGED <<slots, calls>>
    BY <1>1, <1>2 DEF Operations, StoreNext, Heartbeat, Pause, Release, EndAll, Reap, Tick, accountVars
  <1>3. CASE RedisOperations
    <2>1. CASE \E s \in Sid : HeartbeatExtends(s) \/ StopFrees(s)
      BY <1>1, <2>1
      DEF HeartbeatExtends, StopFrees, StoreNext, Heartbeat, Pause, Release, accountVars
    <2>2. CASE EndAllClears
      BY <1>1, <2>2 DEF EndAllClears, StoreNext, EndAll, storeVars, accountVars
    <2>3. CASE Reap /\ UNCHANGED <<slots, calls>>
      BY <1>1, <2>3 DEF StoreNext, Reap
    <2>4. CASE Tick /\ SlotsExpire /\ UNCHANGED calls
      BY <1>1, <2>4 DEF StoreNext, Tick, accountVars
    <2> QED
      BY <1>3, <2>1, <2>2, <2>3, <2>4 DEF RedisOperations
  <1> QED
    BY <1>2, <1>3 DEF Serve

LEMMA ServeTypes ==
  ASSUME StrategyTypes, Serve
  PROVE  StrategyTypes' /\ SlotsKept
  <1>1. Types /\ TxTypes /\ SlotTypes /\ strategy \in Tried
    BY DEF StrategyTypes
  <1>2. /\ UNCHANGED <<strategy, claim, tx>>
        /\ StoreNext \/ (\E s \in Sid : Heartbeat(s)) \/ UNCHANGED storeVars
        /\ UNCHANGED slots \/ SlotsExpire
    BY <1>1, ServeKinds
  <1>3. StoreTypeOK' /\ (lock' = Settings => newLimit' \in Limits)
    <2>1. CASE StoreNext
      BY <1>1, <2>1, StoreNextType DEF Types
    <2>2. ASSUME NEW s \in Sid, Heartbeat(s)
          PROVE  StoreTypeOK' /\ (lock' = Settings => newLimit' \in Limits)
      BY <1>1, <2>2, LeaseRange DEF Heartbeat, Types, TypeInv, TypeOK, StoreTypeOK, accountVars
    <2> QED
      BY <1>1, <1>2, <2>1, <2>2, StoreKept
  <1>4. SlotTypes' /\ SlotsKept
    BY <1>1, <1>2, SameSlots, ExpiredSlots DEF SlotTypes, SlotsKept
  <1> QED
    BY <1>1, <1>2, <1>3, <1>4 DEF StrategyTypes, Types, TypeInv, TypeOK, Named, TxTypes

LEMMA ClaimTypes ==
  ASSUME StrategyTypes, NEW c \in Conn, ClaimSteps(c)
  PROVE  StrategyTypes' /\ SlotsKept
  <1>1. Types /\ TxTypes /\ SlotTypes /\ strategy' \in Tried
    BY DEF StrategyTypes, ClaimSteps
  <1>2. CASE SqlStep(c) /\ UNCHANGED <<slots, calls>>
    <2>1. Types' /\ TxTypes'
      BY <1>1, <1>2, NaiveTypes, TxnTypes, SerialTypes, UniqueTypes, TriggerTypes DEF SqlStep
    <2> QED
      BY <1>1, <1>2, <2>1, SameSlots DEF StrategyTypes
  <1>3. CASE RedisStep(c)
    BY <1>1, <1>3, RedisTypes DEF StrategyTypes
  <1> QED
    BY <1>2, <1>3 DEF ClaimSteps

LEMMA GivesUpTypes ==
  ASSUME StrategyTypes, NEW c \in Conn, GivesUp(c), UNCHANGED strategy
  PROVE  StrategyTypes' /\ SlotsKept
  <1>1. Types /\ TxTypes /\ SlotTypes /\ strategy' \in Tried
    BY DEF StrategyTypes
  <1>2. SlotTypes' /\ SlotsKept
    BY <1>1, SameSlots DEF GivesUp, RedisFails
  <1>3. CASE Dies(c)
    <2>1. Around
      BY <1>3 DEF Dies, Around
    <2> QED
      BY <1>1, <1>2, <1>3, <2>1, AroundType, OverType DEF Types, StrategyTypes, Dies
  <1>4. CASE RedisFails(c)
    BY <1>1, <1>2, <1>4, StoreKept, FinishTypes, OverType
    DEF RedisFails, Types, TypeInv, TypeOK, StrategyTypes
  <1> QED
    BY <1>3, <1>4 DEF GivesUp

LEMMA HookTypes ==
  ASSUME StrategyTypes, HookStep \/ HookLost
  PROVE  StrategyTypes' /\ SlotsKept
  <1>1. UNCHANGED txVars
    BY DEF HookStep, HookLost
  <1>2. SlotTypes' /\ SlotsKept
    <2>1. CASE UNCHANGED slots
      BY <2>1, SameSlots DEF StrategyTypes
    <2>2. ASSUME NEW call, ExtendSlot(call)
          PROVE  SlotTypes' /\ SlotsKept
      BY <2>2, ExtendedSlot DEF StrategyTypes, SlotTypes, SlotsKept
    <2>3. ASSUME NEW call, FreeSlot(call) \/ ClearSlot(call)
          PROVE  SlotTypes' /\ SlotsKept
      BY <2>3, DeletedSlot DEF FreeSlot, ClearSlot, StrategyTypes, SlotTypes, SlotsKept
    <2> QED
      BY <2>1, <2>2, <2>3 DEF HookStep, HookLost, ExtendLook, FreeLook, CallLost
  <1> QED
    BY <1>1, <1>2, StoreKept
    DEF StrategyTypes, txVars, vars, Types, TypeInv, TypeOK, Named, TxTypes

LEMMA NextTypes ==
  ASSUME StrategyTypes, [StrategiesNext]_strategyVars
  PROVE  StrategyTypes' /\ SlotsKept
  <1>1. CASE Starts /\ UNCHANGED <<strategy, tx, slots, calls>>
    <2>1. Around
      BY <1>1 DEF Starts, Around
    <2>2. Types'
      BY <2>1, AroundType DEF StrategyTypes, Types
    <2> QED
      BY <1>1, <2>2, SameSlots DEF StrategyTypes, TxTypes
  <1>2. CASE UNCHANGED strategyVars
    <2>1. UNCHANGED <<storeVars, claim, tx, strategy, slots>>
      BY <1>2 DEF strategyVars, redisVars, txVars, vars
    <2> QED
      BY <2>1, StoreKept, SameSlots DEF StrategyTypes, Types, TypeInv, TypeOK, Named, TxTypes
  <1> QED
    BY <1>1, <1>2, ClaimTypes, GivesUpTypes, ServeTypes, HookTypes DEF StrategiesNext

LEMMA InitStrategyTypes == StrategiesInit => StrategyTypes /\ OneSlotEach
  <1> SUFFICES ASSUME StrategiesInit PROVE StrategyTypes /\ OneSlotEach
    OBVIOUS
  <1>1. Types /\ strategy \in Tried /\ tx = [c \in Conn |-> NoTx] /\ slots = <<>>
    BY InitTypes DEF StrategiesInit, TxInit, RedisInit
  <1>2. TxTypes
    BY <1>1, NoTxType DEF TxTypes
  <1>3. SlotTypes /\ OneSlotEach
    BY <1>1 DEF SlotTypes, OneSlotEach
  <1> QED
    BY <1>1, <1>2, <1>3 DEF StrategyTypes

(* The tables, the claims, what the transactions did so far and the slots  *)
(* keep their types, for every strategy, limit and number of connections.  *)
THEOREM StrategiesTypesHold == StrategiesSpec => [](TypeOK /\ TxTypes /\ SlotTypes)
  <1>1. StrategyTypes /\ [StrategiesNext]_strategyVars => StrategyTypes'
    BY NextTypes
  <1>2. StrategyTypes => TypeOK /\ TxTypes /\ SlotTypes
    BY DEF StrategyTypes, Types, TypeInv
  <1> QED
    BY <1>1, <1>2, InitStrategyTypes, PTL DEF StrategiesSpec

(* redisLease.ts, db/redis.ts: however claims, steals, frees, extensions   *)
(* and expirations of any number of devices interleave, no slot key has    *)
(* two devices and no device two keys.                                     *)
THEOREM SlotsStayApart == StrategiesSpec => []OneSlotEach
  <1>1. StrategyTypes /\ OneSlotEach /\ [StrategiesNext]_strategyVars
          => (StrategyTypes /\ OneSlotEach)'
    BY NextTypes DEF SlotsKept
  <1> QED
    BY <1>1, InitStrategyTypes, PTL DEF StrategiesSpec
-----------------------------------------------------------------------------
(* What is committed with a status change. *)

Follows ==
  /\ status' # status => version' > version
  /\ ~(Active' \subseteq Active) => version' > version

LEMMA BumpFollows == ASSUME Types, Bump PROVE Follows
  BY DEF Follows, Bump, Types, TypeInv, TypeOK, StoreTypeOK

LEMMA SameRowsFollow ==
  ASSUME UNCHANGED status, \A s \in Active' : left[s] > 0
  PROVE  Follows
  BY DEF Follows, Active

LEMMA SameStoreFollows == ASSUME UNCHANGED <<status, left>> PROVE Follows
  BY DEF Follows, Active

LEMMA RefusedFollows ==
  ASSUME NEW c \in Conn, (Prior(c) = {} /\ RejectCommit(c)) \/ Duplicate(c)
  PROVE  Follows
  BY SameStoreFollows DEF RejectCommit, Reject, Duplicate, DuplicateRollback, rowVars

LEMMA CommitBumps ==
  ASSUME NEW c \in Conn, NEW own, CommitGrant(c, own)
  PROVE  Bump
  BY DEF CommitGrant

(* Under a strategy with transactions every step of a claim is a read, a   *)
(* rollback, a rejection or the COMMIT of a grant.                         *)
LEMMA SqlFollows ==
  ASSUME Types, NEW c \in Conn, TxnStep(c) \/ SerialStep(c) \/ UniqueStep(c) \/ TriggerStep(c)
  PROVE  Follows
  <1>1. CASE UNCHANGED storeVars
    BY <1>1, SameStoreFollows DEF storeVars, rowVars
  <1>2. CASE TxnReject(c) \/ SerialReject(c) \/ RefusedReject(c)
    BY <1>2, RefusedFollows DEF TxnReject, SerialReject, RefusedReject
  <1>3. CASE TxnGrant(c) \/ SerialGrant(c) \/ UniqueCommit(c) \/ TriggerCommit(c)
    BY <1>3, RefusedFollows, CommitBumps, BumpFollows
    DEF TxnGrant, SerialGrant, UniqueCommit, TriggerCommit
  <1>4. CASE TxnSnapshot(c) \/ TxnDeadlock(c)
    BY <1>1, <1>4 DEF TxnSnapshot, TxnDeadlock, RollbackRetry
  <1>5. CASE SerialRead(c) \/ SerialCount(c) \/ SerialChoose(c) \/ SerialDeadlock(c)
    BY <1>1, <1>5 DEF SerialRead, SerialCount, SerialChoose, SerialDeadlock, RollbackRetry,
                      CountActive, OldestActive
  <1>6. CASE \/ UniqueExpire(c) \/ UniqueChoose(c) \/ UniqueEnds(c) \/ UniqueInsert(c)
             \/ UniqueTaken(c) \/ UniqueDeadlock(c)
    BY <1>1, <1>6 DEF UniqueExpire, UniqueChoose, UniqueEnds, UniqueInsert, UniqueTaken,
                      UniqueDeadlock, RollbackRetry, OldestActive
  <1>7. CASE \/ TriggerStart(c) \/ TriggerChoose(c) \/ TriggerCount(c) \/ TriggerSignals(c)
             \/ TriggerInsert(c) \/ TriggerDeadlock(c)
    BY <1>1, <1>7 DEF TriggerStart, TriggerChoose, TriggerCount, TriggerSignals, TriggerInsert,
                      TriggerDeadlock, RollbackRetry, OldestActive
  <1> QED
    BY <1>2, <1>3, <1>4, <1>5, <1>6, <1>7 DEF TxnStep, SerialStep, UniqueStep, TriggerStep

(* The reconciliation of REDIS_LEASE bumps when it preempts. *)
LEMMA RedisFollows ==
  ASSUME Types, NEW c \in Conn, RedisStep(c)
  PROVE  Follows
  <1>1. CASE UNCHANGED storeVars
    BY <1>1, SameStoreFollows DEF storeVars, rowVars
  <1>2. CASE RefusedReject(c) \/ RedisDuplicate(c)
    BY <1>2, RefusedFollows DEF RefusedReject, RedisDuplicate
  <1>3. CASE RedisGrant(c)
    BY <1>3, CommitBumps, BumpFollows DEF RedisGrant
  <1>4. CASE RedisReconcile(c)
    <2>1. PICK V : Retire(V, "PREEMPTED") /\ (IF V = {} THEN UNCHANGED version ELSE Bump)
      BY <1>4, Zenon DEF RedisReconcile
    <2>2. CASE V = {}
      <3>1. UNCHANGED <<status, left>>
        BY <2>1, <2>2 DEF Retire, Types, TypeInv, TypeOK, StoreTypeOK
      <3> QED
        BY <3>1, SameStoreFollows
    <2> QED
      BY <2>1, <2>2, BumpFollows
  <1> QED
    BY <1>1, <1>2, <1>3, <1>4
    DEF RedisStep, RedisRead, AcquireOwn, AcquireFree, AcquireSteal, Admitted, AcquireNone,
        RedisChoose, RedisInsert, RedisDeadlock

LEMMA ServeFollows ==
  ASSUME Types, Serve
  PROVE  Follows
  <1>1. StoreNext \/ (\E s \in Sid : Heartbeat(s)) \/ UNCHANGED storeVars
    BY ServeKinds
  <1>2. ASSUME NEW s \in Sid, Heartbeat(s)
        PROVE  Follows
    <2>1. UNCHANGED status /\ \A t \in Active' : left[t] > 0
      BY <1>2 DEF Heartbeat, Active, Types, TypeInv, TypeOK, StoreTypeOK
    <2> QED
      BY <2>1, SameRowsFollow
  <1>3. CASE UNCHANGED storeVars
    BY <1>3, SameStoreFollows DEF storeVars, rowVars
  <1>4. CASE Tick
    <2>1. \A s \in Sid : left[s] \in Int /\ Skew \in Int
      BY StoreAssumption DEF Types, TypeInv, TypeOK, StoreTypeOK, StoreAssumption
    <2>2. \A s \in Sid : left'[s] > 0 => left[s] > 0
      BY <1>4, <2>1 DEF Tick
    <2> QED
      BY <1>4, <2>2, SameRowsFollow DEF Tick, Active
  <1>5. CASE Operations
    BY <1>2, <1>4, <1>5, BumpFollows DEF Operations, Pause, Release, EndAll, Reap
  <1>6. CASE RedisOperations
    BY <1>2, <1>3, <1>4, <1>6, BumpFollows
    DEF RedisOperations, HeartbeatExtends, StopFrees, EndAllClears, Pause, Release, EndAll, Reap
  <1> QED
    BY <1>5, <1>6 DEF Serve

LEMMA NextFollows ==
  ASSUME StrategyTypes, [StrategiesNext]_strategyVars, strategy # "NAIVE"
  PROVE  Follows
  <1>1. Types
    BY DEF StrategyTypes
  <1>2. ASSUME NEW c \in Conn, ClaimSteps(c)
        PROVE  Follows
    BY <1>1, <1>2, SqlFollows, RedisFollows DEF ClaimSteps, SqlStep
  <1>3. CASE UNCHANGED <<status, left>>
    BY <1>3, SameStoreFollows
  <1>4. CASE Starts
    BY <1>3, <1>4 DEF Starts, ClaimStart, ClaimReplay, storeVars, rowVars
  <1>5. ASSUME NEW c \in Conn, GivesUp(c)
        PROVE  Follows
    BY <1>3, <1>5 DEF GivesUp, Dies, ClaimAbort, RedisFails, storeVars, rowVars
  <1>6. CASE HookStep \/ HookLost \/ UNCHANGED strategyVars
    BY <1>3, <1>6 DEF HookStep, HookLost, strategyVars, redisVars, txVars, vars, storeVars, rowVars
  <1> QED
    BY <1>1, <1>2, <1>4, <1>5, <1>6, ServeFollows DEF StrategiesNext

(* bumpVersion: under every strategy with a transaction, a step that       *)
(* changes a status or makes a session active has a larger version, so a   *)
(* client that compares versions misses neither.                           *)
THEOREM StrategiesVersionsFollow == StrategiesSpec => VersionsFollow
  <1>1. StrategyTypes /\ [StrategiesNext]_strategyVars => StrategyTypes'
    BY NextTypes
  <1>2. StrategyTypes /\ [StrategiesNext]_strategyVars =>
          (strategy # "NAIVE" =>
             /\ status' # status => version' > version
             /\ ~(Active' \subseteq Active) => version' > version)
    BY NextFollows DEF Follows
  <1> QED
    BY <1>1, <1>2, InitStrategyTypes, PTL DEF StrategiesSpec, VersionsFollow
-----------------------------------------------------------------------------
(* What a COMMIT stops: the sessions the transaction expired, those it     *)
(* ends and the chosen ones.                                               *)

Playing == {s \in Sid : status[s] = "PLAYING"}

LEMMA CommitStops ==
  ASSUME Types, TxTypes, NEW c \in Conn, claim[c].step # "idle", NEW own, CommitGrant(c, own)
  PROVE  \E s \in Sid :
           /\ Playing' \ {s} \subseteq Playing \ (tx[c].expired \cup own \cup claim[c].toPreempt)
           /\ Active' \ {s} \subseteq Active
           /\ Open' \ {s} \subseteq Open \ own
           /\ owner' = [owner EXCEPT ![s] = claim[c].device]
  <1>1. PICK s \in Sid :
          /\ status' = [t \in Sid |-> IF t = s THEN "PLAYING"
                                      ELSE IF t \in tx[c].expired THEN "EXPIRED"
                                      ELSE IF t \in own THEN "ENDED"
                                      ELSE IF t \in Preempted(c) THEN "PREEMPTED" ELSE status[t]]
          /\ left' = [t \in Sid |-> IF t = s THEN LeaseTicks
                                    ELSE IF status'[t] # "PLAYING" THEN -Skew ELSE left[t]]
          /\ owner' = [owner EXCEPT ![s] = claim[c].device]
    BY Zenon DEF CommitGrant
  <1>2. \A t \in Sid \ {s} :
          status'[t] = IF t \in tx[c].expired THEN "EXPIRED"
                       ELSE IF t \in own THEN "ENDED"
                       ELSE IF t \in Preempted(c) THEN "PREEMPTED" ELSE status[t]
    BY <1>1
  <1>3. \A t \in Sid \ {s} : status'[t] = "PLAYING" => left'[t] = left[t]
    BY <1>1
  <1>4. \A t \in Sid \ {s} : status'[t] = "PLAYING" =>
          /\ status[t] = "PLAYING"
          /\ t \notin tx[c].expired /\ t \notin own /\ t \notin claim[c].toPreempt
    BY <1>2 DEF Preempted
  <1>5. \A t \in Sid \ {s} : status'[t] = "PAUSED" => status[t] = "PAUSED" /\ t \notin own
    BY <1>2
  <1>6. Playing' \ {s} \subseteq Playing \ (tx[c].expired \cup own \cup claim[c].toPreempt)
    BY <1>4 DEF Playing
  <1>7. Active' \ {s} \subseteq Active
    BY <1>3, <1>4 DEF Active
  <1>8. Open' \ {s} \subseteq Open \ own
    BY <1>4, <1>5 DEF Open
  <1> QED
    BY <1>1, <1>6, <1>7, <1>8

(* The rest of the service starts nothing. *)
LEMMA OperationsShrink ==
  ASSUME Types,
         \/ \E s \in Sid : Heartbeat(s) \/ Pause(s) \/ Release(s)
         \/ EndAll \/ Reap \/ Tick \/ UNCHANGED storeVars
  PROVE  Shrinks
  <1>1. StoreTypeOK
    BY DEF Types, TypeInv, TypeOK
  <1>2. ASSUME NEW s \in Sid, Heartbeat(s)
        PROVE  Shrinks
    <2>1. \A t \in Sid : status[t] = "PLAYING" /\ left'[t] > 0 => left[t] > 0
      BY <1>1, <1>2 DEF Heartbeat, Active, StoreTypeOK
    <2> QED
      BY <1>2, <2>1, SameRowsShrink DEF Heartbeat
  <1>3. ASSUME NEW S \in SUBSET Open, NEW st \in {"PAUSED", "ENDED", "EXPIRED"},
               Retire(S, st), owner' = owner, st = "PAUSED" => \A s \in S : status[s] = "PLAYING"
        PROVE  Shrinks
    BY <1>1, <1>3, RetireShrinks
  <1>4. ASSUME NEW s \in Sid, Pause(s)
        PROVE  Shrinks
    <2>1. {s} \in SUBSET Open /\ status[s] = "PLAYING"
      BY <1>4 DEF Pause, Active, Open
    <2> QED
      BY <1>3, <1>4, <2>1 DEF Pause
  <1>5. ASSUME NEW s \in Sid, Release(s)
        PROVE  Shrinks
    <2>1. {s} \in SUBSET Open
      BY <1>5 DEF Release, Active, Open
    <2> QED
      BY <1>3, <1>5, <2>1 DEF Release
  <1>6. CASE EndAll \/ Reap
    <2>1. Lapsed \in SUBSET Open
      BY DEF Lapsed, Open
    <2> QED
      BY <1>3, <1>6, <2>1 DEF EndAll, Reap
  <1>7. CASE Tick
    <2>1. \A s \in Sid : left[s] \in Int /\ Skew \in Int
      BY <1>1, StoreAssumption DEF StoreTypeOK, StoreAssumption
    <2>2. \A s \in Sid : left'[s] > 0 => left[s] > 0
      BY <1>7, <2>1 DEF Tick
    <2> QED
      BY <1>7, <2>2, SameRowsShrink DEF Tick
  <1> QED
    BY <1>2, <1>4, <1>5, <1>6, <1>7, SameStoreShrinks DEF storeVars

LEMMA ServeShrinks ==
  ASSUME Types, Serve
  PROVE  Shrinks
  <1>1. CASE Operations
    BY <1>1, OperationsShrink DEF Operations
  <1>2. CASE RedisOperations
    BY <1>2, OperationsShrink
    DEF RedisOperations, HeartbeatExtends, StopFrees, EndAllClears
  <1> QED
    BY <1>1, <1>2 DEF Serve

LEMMA OneMore ==
  ASSUME NEW R \in SUBSET Sid, NEW s \in Sid, NEW A \in SUBSET (R \cup {s}),
         NEW m \in Nat \ {0}, Cardinality(R) <= m - 1
  PROVE  Cardinality(A) <= m
  <1>1. IsFiniteSet(R) /\ Cardinality(R) \in Nat
    BY SessionSets
  <1>2. /\ IsFiniteSet(R \cup {s})
        /\ Cardinality(R \cup {s}) = IF s \in R THEN Cardinality(R) ELSE Cardinality(R) + 1
    BY <1>1, FS_AddElement, Zenon
  <1>3. IsFiniteSet(A) /\ Cardinality(A) <= Cardinality(R \cup {s})
    BY <1>2, FS_Subset, Zenon
  <1>4. Cardinality(A) \in Nat
    BY <1>3, FS_CardinalityType, Zenon
  <1> QED
    BY <1>1, <1>2, <1>3, <1>4
-----------------------------------------------------------------------------
(* SERIALIZABLE: what a claim counted stays true while its shared locks    *)
(* keep every other grant away.                                            *)

Locked(c) ==
  /\ RoomMade(c)
  /\ claim[c].step \in {"count", "choose", "grant"} => tx[c].reads

SerialInv == LimitRespected /\ OneOpenPerDevice /\ \A c \in Conn : Locked(c)

(* A step that starts no session disturbs at most the claim that takes it. *)
LEMMA QuietKeepsSerial ==
  ASSUME Types, SerialInv, Shrinks, maxStreams' = maxStreams,
         \A c \in Conn : (claim'[c] = claim[c] /\ tx'[c] = tx[c]) \/ Locked(c)'
  PROVE  SerialInv'
  <1>1. LimitRespected'
    BY ShrinkKeepsLimit DEF SerialInv, LimitRespected, Types, TypeInv, TypeOK, StoreTypeOK
  <1>2. OneOpenPerDevice'
    BY DEF SerialInv, OneOpenPerDevice, Shrinks
  <1>3. ASSUME NEW c \in Conn, claim'[c] = claim[c], tx'[c] = tx[c]
        PROVE  Locked(c)'
    BY <1>3, RoomKept DEF SerialInv, Locked
  <1> QED
    BY <1>1, <1>2, <1>3 DEF SerialInv

LEMMA UnreadIsLocked ==
  ASSUME NEW c \in Conn, claim'[c].step \in {"idle", "read"}
  PROVE  Locked(c)'
  BY DEF Locked, RoomMade

(* Steps that do not touch the tables. *)
LEMMA SameRowsKeepSerial ==
  ASSUME Types, SerialInv, UNCHANGED rowVars, maxStreams' = maxStreams, NEW c \in Conn,
         \A x \in Conn \ {c} : claim'[x] = claim[x] /\ tx'[x] = tx[x],
         Locked(c)'
  PROVE  SerialInv'
  BY SameStoreShrinks, QuietKeepsSerial

LEMMA SerialGrantKeeps ==
  ASSUME Types, TxTypes, SerialInv, NEW c \in Conn, At(c, "start"), ~OthersRead(c),
         CommitGrant(c, OwnOpen(c)), Finish(c), Over(c)
  PROVE  SerialInv'
  <1>1. PICK s \in Sid :
          /\ Playing' \ {s} \subseteq Playing \ (tx[c].expired \cup OwnOpen(c) \cup claim[c].toPreempt)
          /\ Active' \ {s} \subseteq Active
          /\ Open' \ {s} \subseteq Open \ OwnOpen(c)
          /\ owner' = [owner EXCEPT ![s] = claim[c].device]
    BY CommitStops DEF At
  <1>2. /\ maxStreams' = maxStreams /\ maxStreams \in Nat \ {0}
        /\ owner \in [Sid -> Device \cup {NoDevice}]
        /\ claim \in [Conn -> Claim]
    BY LimitsNat DEF CommitGrant, Types, TypeInv, TypeOK, StoreTypeOK
  <1> DEFINE R == Others(c) \ claim[c].toPreempt
  <1>3. R \in SUBSET Sid /\ Cardinality(R) <= maxStreams - 1
    BY ActiveSets DEF SerialInv, Locked, RoomMade, At, Others
  <1>4. Active' \in SUBSET (R \cup {s})
    <2> SUFFICES ASSUME NEW t \in Active', t # s PROVE t \in R
      OBVIOUS
    <2>1. t \in Active /\ t \in Playing'
      BY <1>1 DEF Active, Playing
    <2>2. t \notin OwnOpen(c) /\ t \notin claim[c].toPreempt
      BY <1>1, <2>1
    <2> QED
      BY <2>1, <2>2 DEF Others, ActiveOthers, OwnOpen, Open, Active
  <1> HIDE DEF R
  <1>5. LimitRespected'
    BY <1>2, <1>3, <1>4, OneMore DEF LimitRespected
  <1>6. OneOpenPerDevice'
    <2>1. owner'[s] = claim[c].device /\ \A t \in Sid \ {s} : owner'[t] = owner[t]
      BY <1>1, <1>2
    <2>2. \A t \in Open' \ {s} : t \in Open /\ owner[t] # claim[c].device
      BY <1>1 DEF OwnOpen
    <2>3. Open' \subseteq Sid /\ OneOpenPerDevice
      BY DEF Open, SerialInv
    <2> QED
      BY <2>1, <2>2, <2>3 DEF OneOpenPerDevice
  <1>7. ASSUME NEW x \in Conn
        PROVE  Locked(x)'
    <2>1. CASE x = c
      BY <1>2, <2>1, UnreadIsLocked DEF Finish, NoClaim
    <2>2. CASE x # c
      <3>1. ~tx[x].reads /\ claim'[x] = claim[x]
        BY <1>2, <2>2 DEF OthersRead, Finish
      <3>2. claim[x].step \in {"idle", "read"}
        BY <1>2, <3>1 DEF SerialInv, Locked, Claim, Steps
      <3> QED
        BY <3>1, <3>2, UnreadIsLocked
    <2> QED
      BY <2>1, <2>2
  <1> QED
    BY <1>5, <1>6, <1>7 DEF SerialInv

(* A claim that ends or starts again. *)
LEMMA BackIsUnread ==
  ASSUME Types, NEW c \in Conn, Finish(c) \/ Retry(c)
  PROVE  claim'[c].step \in {"idle", "read"} /\ \A x \in Conn \ {c} : claim'[x] = claim[x]
  <1>1. claim \in [Conn -> Claim]
    BY DEF Types, TypeInv, TypeOK
  <1>2. CASE Finish(c)
    BY <1>1, <1>2 DEF Finish, NoClaim
  <1>3. CASE Retry(c)
    <2> DEFINE r == [NoClaim EXCEPT !.step = "read", !.device = claim[c].device,
                       !.id = claim[c].id, !.mode = claim[c].mode, !.attempt = claim[c].attempt + 1]
    <2>1. r.step = "read" /\ NoClaim.step = "idle"
      BY DEF NoClaim
    <2>2. claim' = [claim EXCEPT ![c] = NoClaim] \/ claim' = [claim EXCEPT ![c] = r]
      BY <1>3 DEF Retry
    <2> HIDE DEF r
    <2> QED
      BY <1>1, <2>1, <2>2
  <1> QED
    BY <1>2, <1>3

LEMMA BackKeepsSerial ==
  ASSUME Types, TxTypes, SerialInv, NEW c \in Conn, Finish(c) \/ Retry(c), Over(c),
         UNCHANGED rowVars, maxStreams' = maxStreams
  PROVE  SerialInv'
  <1>1. \A x \in Conn \ {c} : tx'[x] = tx[x]
    BY DEF Over, TxTypes
  <1> QED
    BY <1>1, BackIsUnread, UnreadIsLocked, SameRowsKeepSerial

LEMMA SerialStepKeeps ==
  ASSUME Types, TxTypes, SerialInv, NEW c \in Conn, SerialStep(c)
  PROVE  SerialInv'
  <1>1. claim \in [Conn -> Claim] /\ tx \in [Conn -> Tx] /\ claim[c] \in Claim
    BY DEF Types, TypeInv, TypeOK, TxTypes
  <1>2. CASE SerialRead(c)
    <2> DEFINE r == [claim[c] EXCEPT !.step = "count", !.seenMax = maxStreams]
    <2>1. claim' = [claim EXCEPT ![c] = r]
      BY <1>2 DEF SerialRead, SeeLimit
    <2>2. r.step = "count" /\ r.seenMax = maxStreams
      BY <1>1 DEF Claim
    <2> HIDE DEF r
    <2>3. /\ claim'[c].step = "count" /\ claim'[c].seenMax = maxStreams
          /\ \A x \in Conn \ {c} : claim'[x] = claim[x]
      BY <1>1, <2>1, <2>2
    <2>4. tx'[c].reads /\ \A x \in Conn \ {c} : tx'[x] = tx[x]
      BY <1>1, <1>2 DEF SerialRead, Tx
    <2>5. UNCHANGED rowVars /\ maxStreams' = maxStreams
      BY <1>2 DEF SerialRead, storeVars, accountVars
    <2>6. Locked(c)'
      BY <2>3, <2>4, <2>5 DEF Locked, RoomMade
    <2> QED
      BY <2>3, <2>4, <2>5, <2>6, SameRowsKeepSerial
  <1>3. CASE SerialCount(c) \/ SerialChoose(c)
    <2>1. CountActive(c) \/ OldestActive(c)
      BY <1>3 DEF SerialCount, SerialChoose
    <2>2. claim[c].step \in {"count", "choose"} /\ UNCHANGED rowVars /\ maxStreams' = maxStreams
      BY <2>1 DEF CountActive, OldestActive, storeVars, accountVars
    <2>3. RoomMade(c)'
      BY <2>1, RoomChosen DEF SerialInv, Locked
    <2>4. tx'[c].reads = tx[c].reads /\ \A x \in Conn \ {c} : tx'[x] = tx[x]
      BY <1>1, <1>3 DEF SerialCount, SerialChoose, Tx
    <2>5. Locked(c)'
      BY <2>2, <2>3, <2>4 DEF SerialInv, Locked
    <2>6. \A x \in Conn \ {c} : claim'[x] = claim[x]
      BY <1>1, <2>1 DEF CountActive, OldestActive
    <2> QED
      BY <2>2, <2>4, <2>5, <2>6, SameRowsKeepSerial
  <1>4. CASE Duplicate(c)
    BY <1>4, BackKeepsSerial DEF Duplicate, DuplicateRollback
  <1>5. CASE SerialReject(c)
    BY <1>4, <1>5, BackKeepsSerial DEF SerialReject, RejectCommit, Reject
  <1>6. CASE SerialGrant(c)
    BY <1>4, <1>6, SerialGrantKeeps DEF SerialGrant
  <1>7. CASE SerialDeadlock(c)
    BY <1>7, BackKeepsSerial DEF SerialDeadlock, RollbackRetry, storeVars, accountVars
  <1> QED
    BY <1>2, <1>3, <1>5, <1>6, <1>7 DEF SerialStep

LEMMA NextKeepsSerial ==
  ASSUME StrategyTypes, SerialInv, strategy = "SERIALIZABLE", [StrategiesNext]_strategyVars
  PROVE  SerialInv'
  <1>1. Types /\ TxTypes
    BY DEF StrategyTypes
  <1>2. ASSUME UNCHANGED <<rowVars, maxStreams, claim, tx>>
        PROVE  SerialInv'
    BY <1>1, <1>2, SameStoreShrinks, QuietKeepsSerial
  <1>3. CASE Starts /\ UNCHANGED <<strategy, tx, slots, calls>>
    <2>1. ASSUME NEW c \in Conn, NEW d \in Device, NEW id \in RequestId \cup {NoRequestId},
                 NEW mode \in Modes, ClaimStart(c, d, id, mode)
          PROVE  SerialInv'
      <3>1. claim'[c].step = "read" /\ \A x \in Conn \ {c} : claim'[x] = claim[x]
        BY <1>1, <2>1 DEF ClaimStart, NoClaim, Types, TypeInv, TypeOK
      <3>2. UNCHANGED rowVars /\ maxStreams' = maxStreams /\ UNCHANGED tx
        BY <1>3, <2>1 DEF ClaimStart, storeVars, accountVars
      <3> QED
        BY <1>1, <3>1, <3>2, UnreadIsLocked, SameRowsKeepSerial
    <2>2. ASSUME NEW d \in Device, NEW id \in RequestId, ClaimReplay(d, id)
          PROVE  SerialInv'
      BY <1>2, <1>3, <2>2 DEF ClaimReplay, accountVars
    <2> QED
      BY <1>3, <2>1, <2>2 DEF Starts
  <1>4. ASSUME NEW c \in Conn, ClaimSteps(c)
        PROVE  SerialInv'
    BY <1>1, <1>4, SerialStepKeeps DEF ClaimSteps, SqlStep
  <1>5. ASSUME NEW c \in Conn, GivesUp(c)
        PROVE  SerialInv'
    BY <1>1, <1>5, BackKeepsSerial DEF GivesUp, Dies, ClaimAbort
  <1>6. CASE Serve
    BY <1>1, <1>6, ServeKinds, ServeShrinks, QuietKeepsSerial
  <1>7. CASE HookStep \/ HookLost \/ UNCHANGED strategyVars
    BY <1>2, <1>7 DEF HookStep, HookLost, strategyVars, redisVars, txVars, vars, storeVars, accountVars
  <1> QED
    BY <1>3, <1>4, <1>5, <1>6, <1>7 DEF StrategiesNext
-----------------------------------------------------------------------------
(* CONSTRAINT: the unique index allows one PLAYING session, expired or     *)
(* not.  A claim whose INSERT went through has already locked, and ends    *)
(* with its COMMIT, whatever was PLAYING.                                  *)

UniqueOf(c) ==
  /\ claim[c].step # "grant" => tx[c].stage = "start"
  /\ tx[c].rows \subseteq tx[c].expired \cup
       (IF tx[c].stage = "start" THEN {} ELSE tx[c].own \cup claim[c].toPreempt)
  /\ tx[c].stage = "inserted" => Playing \subseteq tx[c].rows

UniqueInv ==
  /\ \A s, t \in Playing : s = t
  /\ \A c \in Conn : UniqueOf(c)
  /\ \A c, x \in Conn : tx[c].stage = "inserted" /\ tx[x].stage = "inserted" => c = x

LEMMA QuietKeepsUnique ==
  ASSUME UniqueInv, Playing' \subseteq Playing, NEW c \in Conn,
         \A x \in Conn \ {c} : claim'[x] = claim[x] /\ tx'[x] = tx[x],
         UniqueOf(c)',
         tx'[c].stage = "inserted" => \A x \in Conn \ {c} : tx[x].stage # "inserted"
  PROVE  UniqueInv'
  <1>1. \A s, t \in Playing' : s = t
    BY DEF UniqueInv
  <1>2. ASSUME NEW x \in Conn, x # c
        PROVE  UniqueOf(x)'
    BY <1>2 DEF UniqueInv, UniqueOf
  <1>3. \A y, x \in Conn : tx'[y].stage = "inserted" /\ tx'[x].stage = "inserted" => y = x
    BY DEF UniqueInv
  <1> QED
    BY <1>1, <1>2, <1>3 DEF UniqueInv

LEMMA SamePlaying == ASSUME UNCHANGED status PROVE Playing' = Playing
  BY DEF Playing

(* A transaction that is over. *)
LEMMA BackKeepsUnique ==
  ASSUME Types, TxTypes, UniqueInv, NEW c \in Conn, Finish(c) \/ Retry(c), Over(c),
         UNCHANGED rowVars
  PROVE  UniqueInv'
  <1>1. tx'[c] = NoTx /\ \A x \in Conn \ {c} : tx'[x] = tx[x] /\ claim'[x] = claim[x]
    BY BackIsUnread DEF Over, TxTypes
  <1>2. UniqueOf(c)' /\ tx'[c].stage = "start"
    BY <1>1 DEF UniqueOf, NoTx
  <1> QED
    BY <1>1, <1>2, SamePlaying, QuietKeepsUnique DEF rowVars

LEMMA UniqueCommitKeeps ==
  ASSUME Types, TxTypes, UniqueInv, NEW c \in Conn, At(c, "inserted"),
         CommitGrant(c, tx[c].own), Finish(c), Over(c)
  PROVE  UniqueInv'
  <1>1. PICK s \in Sid :
          Playing' \ {s} \subseteq Playing \ (tx[c].expired \cup tx[c].own \cup claim[c].toPreempt)
    BY CommitStops DEF At
  <1>2. Playing \subseteq tx[c].expired \cup tx[c].own \cup claim[c].toPreempt
    BY DEF UniqueInv, UniqueOf, At
  <1>3. Playing' \subseteq {s}
    BY <1>1, <1>2
  <1>4. tx'[c] = NoTx /\ \A x \in Conn \ {c} : tx'[x] = tx[x] /\ claim'[x] = claim[x]
    BY BackIsUnread DEF Over, TxTypes
  <1>5. \A x \in Conn : tx'[x].stage # "inserted"
    BY <1>4 DEF UniqueInv, At, NoTx
  <1>6. ASSUME NEW x \in Conn
        PROVE  UniqueOf(x)'
    <2>1. CASE x = c
      BY <1>4, <1>5, <2>1 DEF NoTx, UniqueOf
    <2>2. CASE x # c
      BY <1>4, <1>5, <2>2 DEF UniqueInv, UniqueOf
    <2> QED
      BY <2>1, <2>2
  <1> QED
    BY <1>3, <1>5, <1>6 DEF UniqueInv

LEMMA UniqueStepKeeps ==
  ASSUME Types, TxTypes, UniqueInv, NEW c \in Conn, UniqueStep(c)
  PROVE  UniqueInv'
  <1>1. claim \in [Conn -> Claim] /\ tx \in [Conn -> Tx] /\ claim[c] \in Claim /\ tx[c] \in Tx
    BY DEF Types, TypeInv, TypeOK, TxTypes
  <1>2. ASSUME NEW r \in Tx, tx' = [tx EXCEPT ![c] = r]
        PROVE  tx'[c] = r /\ \A x \in Conn \ {c} : tx'[x] = tx[x]
    BY <1>1, <1>2
  <1>3. ASSUME UNCHANGED storeVars PROVE Playing' = Playing
    BY <1>3, SamePlaying DEF storeVars, rowVars
  <1>4. CASE UniqueExpire(c)
    <2> DEFINE r == [tx[c] EXCEPT !.expired = Lapsed, !.rows = Lapsed]
    <2>1. r \in Tx /\ r.expired = Lapsed /\ r.rows = Lapsed /\ r.stage = tx[c].stage
      BY <1>1, RowSets DEF Tx
    <2>2. tx' = [tx EXCEPT ![c] = r]
      BY <1>4 DEF UniqueExpire
    <2> HIDE DEF r
    <2>3. tx'[c] = r /\ (\A x \in Conn \ {c} : tx'[x] = tx[x] /\ claim'[x] = claim[x])
      BY <1>1, <1>2, <1>4, <2>1, <2>2 DEF UniqueExpire, ChooseAll
    <2>4. tx[c].stage = "start"
      BY <1>4 DEF UniqueExpire, UniqueInv, UniqueOf
    <2>5. UniqueOf(c)'
      BY <2>1, <2>3, <2>4 DEF UniqueOf
    <2> QED
      BY <1>3, <1>4, <2>1, <2>3, <2>4, <2>5, QuietKeepsUnique DEF UniqueExpire
  <1>5. CASE UniqueChoose(c)
    <2>1. /\ claim[c].step = "choose" /\ UNCHANGED tx /\ UNCHANGED storeVars
          /\ \A x \in Conn \ {c} : claim'[x] = claim[x]
      BY <1>1, <1>5 DEF UniqueChoose, OldestActive
    <2>2. tx[c].stage = "start"
      BY <2>1 DEF UniqueInv, UniqueOf
    <2>3. UniqueOf(c)'
      BY <2>1, <2>2 DEF UniqueOf, UniqueInv
    <2> QED
      BY <1>3, <2>1, <2>2, <2>3, QuietKeepsUnique
  <1>6. CASE UniqueEnds(c)
    <2> DEFINE r == [tx[c] EXCEPT !.stage = "ended", !.own = OwnOpen(c) \ tx[c].expired,
                                  !.rows = tx[c].rows \cup Ends(c)]
    <2>1. /\ r \in Tx /\ r.stage = "ended" /\ r.own = OwnOpen(c) \ tx[c].expired
          /\ r.rows = tx[c].rows \cup Ends(c) /\ r.expired = tx[c].expired
      BY <1>1, RowSets DEF Tx, Stages
    <2>2. tx' = [tx EXCEPT ![c] = r]
      BY <1>6 DEF UniqueEnds
    <2> HIDE DEF r
    <2>3. tx'[c] = r /\ (\A x \in Conn \ {c} : tx'[x] = tx[x]) /\ UNCHANGED claim
      BY <1>2, <1>6, <2>1, <2>2 DEF UniqueEnds
    <2>4. tx[c].rows \subseteq tx[c].expired
      BY <1>6 DEF UniqueEnds, At, UniqueInv, UniqueOf
    <2>5. Ends(c) \subseteq (OwnOpen(c) \ tx[c].expired) \cup claim[c].toPreempt
      BY DEF Ends, Preempted
    <2>6. UniqueOf(c)'
      BY <1>6, <2>1, <2>3, <2>4, <2>5 DEF UniqueOf, UniqueEnds, At
    <2> QED
      BY <1>3, <1>6, <2>1, <2>3, <2>6, QuietKeepsUnique DEF UniqueEnds
  <1>7. CASE UniqueInsert(c)
    <2>1. /\ tx' = [tx EXCEPT ![c].stage = "inserted"] /\ UNCHANGED <<storeVars, claim>>
          /\ At(c, "ended") /\ \A x \in Conn \ {c} : tx[x].stage # "inserted"
          /\ Rivals(c) = {}
      BY <1>7 DEF UniqueInsert, Into, AtKey
    <2>2. /\ tx'[c].stage = "inserted" /\ tx'[c].rows = tx[c].rows /\ tx'[c].own = tx[c].own
          /\ tx'[c].expired = tx[c].expired /\ \A x \in Conn \ {c} : tx'[x] = tx[x]
      BY <1>1, <2>1 DEF Tx
    <2>3. Playing \subseteq tx[c].rows
      BY <2>1 DEF Rivals, Playing
    <2>4. UniqueOf(c)'
      BY <1>3, <2>1, <2>2, <2>3 DEF UniqueOf, UniqueInv, At
    <2> QED
      BY <1>3, <2>1, <2>2, <2>4, QuietKeepsUnique
  <1>8. CASE UniqueTaken(c)
    <2>1. CASE Retry(c) /\ Over(c)
      BY <1>8, <2>1, BackKeepsUnique DEF UniqueTaken, storeVars
    <2>2. CASE tx' = [tx EXCEPT ![c] = [NoTx EXCEPT !.stage = "taken"]] /\ UNCHANGED claim
      <3> DEFINE r == [NoTx EXCEPT !.stage = "taken"]
      <3>1. r \in Tx /\ r.stage = "taken" /\ r.rows = {}
        BY NoTxType DEF Tx, Stages, NoTx
      <3> HIDE DEF r
      <3>2. tx'[c] = r /\ \A x \in Conn \ {c} : tx'[x] = tx[x]
        BY <1>2, <2>2, <3>1 DEF r
      <3>3. UniqueOf(c)'
        BY <1>8, <2>2, <3>1, <3>2 DEF UniqueOf, UniqueTaken, AtKey, At
      <3> QED
        BY <1>3, <1>8, <2>2, <3>1, <3>2, <3>3, QuietKeepsUnique DEF UniqueTaken
    <2> QED
      BY <1>8, <2>1, <2>2 DEF UniqueTaken
  <1>9. CASE Duplicate(c)
    BY <1>9, BackKeepsUnique DEF Duplicate, DuplicateRollback
  <1>10. CASE UniqueCommit(c)
    BY <1>9, <1>10, UniqueCommitKeeps DEF UniqueCommit
  <1>11. CASE UniqueDeadlock(c)
    BY <1>11, BackKeepsUnique DEF UniqueDeadlock, RollbackRetry, storeVars
  <1>12. CASE RefusedReject(c)
    BY <1>9, <1>12, BackKeepsUnique DEF RefusedReject, RejectCommit, Reject
  <1> QED
    BY <1>4, <1>5, <1>6, <1>7, <1>8, <1>10, <1>11, <1>12 DEF UniqueStep

LEMMA ShrinksPlaying ==
  ASSUME Types,
         \/ \E s \in Sid : Heartbeat(s) \/ Pause(s) \/ Release(s)
         \/ EndAll \/ Reap \/ Tick \/ UNCHANGED storeVars
  PROVE  Playing' \subseteq Playing
  <1>1. ASSUME NEW S, NEW st \in {"PAUSED", "ENDED", "EXPIRED"}, Retire(S, st)
        PROVE  Playing' \subseteq Playing
    BY <1>1 DEF Retire, Playing
  <1>2. CASE UNCHANGED status
    BY <1>2, SamePlaying
  <1> QED
    BY <1>1, <1>2 DEF Heartbeat, Pause, Release, EndAll, Reap, Tick, storeVars, rowVars

LEMMA NextKeepsUnique ==
  ASSUME StrategyTypes, UniqueInv, strategy = "CONSTRAINT", [StrategiesNext]_strategyVars
  PROVE  UniqueInv'
  <1>1. Types /\ TxTypes
    BY DEF StrategyTypes
  <1>2. ASSUME Playing' \subseteq Playing, UNCHANGED <<claim, tx>>
        PROVE  UniqueInv'
    BY <1>2 DEF UniqueInv, UniqueOf
  <1>3. CASE Starts /\ UNCHANGED <<strategy, tx, slots, calls>>
    <2>1. ASSUME NEW c \in Conn, NEW d \in Device, NEW id \in RequestId \cup {NoRequestId},
                 NEW mode \in Modes, ClaimStart(c, d, id, mode)
          PROVE  UniqueInv'
      <3>1. /\ claim[c].step = "idle" /\ \A x \in Conn \ {c} : claim'[x] = claim[x]
            /\ UNCHANGED <<status, tx>>
        BY <1>1, <1>3, <2>1 DEF ClaimStart, Types, TypeInv, TypeOK, storeVars, rowVars
      <3>2. tx[c].stage = "start"
        BY <3>1 DEF UniqueInv, UniqueOf
      <3>3. UniqueOf(c)'
        BY <3>1, <3>2 DEF UniqueInv, UniqueOf
      <3> QED
        BY <3>1, <3>2, <3>3, SamePlaying, QuietKeepsUnique
    <2>2. ASSUME NEW d \in Device, NEW id \in RequestId, ClaimReplay(d, id)
          PROVE  UniqueInv'
      BY <1>2, <1>3, <2>2, SamePlaying DEF ClaimReplay, rowVars
    <2> QED
      BY <1>3, <2>1, <2>2 DEF Starts
  <1>4. ASSUME NEW c \in Conn, ClaimSteps(c)
        PROVE  UniqueInv'
    BY <1>1, <1>4, UniqueStepKeeps DEF ClaimSteps, SqlStep
  <1>5. ASSUME NEW c \in Conn, GivesUp(c)
        PROVE  UniqueInv'
    BY <1>1, <1>5, BackKeepsUnique DEF GivesUp, Dies, ClaimAbort
  <1>6. CASE Serve
    BY <1>1, <1>2, <1>6, ShrinksPlaying DEF Serve, Operations
  <1>7. CASE HookStep \/ HookLost \/ UNCHANGED strategyVars
    BY <1>2, <1>7, SamePlaying
    DEF HookStep, HookLost, strategyVars, redisVars, txVars, vars, storeVars, rowVars
  <1> QED
    BY <1>3, <1>4, <1>5, <1>6, <1>7 DEF StrategiesNext

LEMMA UniqueKeepsLimit ==
  ASSUME Types, UniqueInv
  PROVE  LimitRespected
  <1>1. maxStreams \in Nat \ {0}
    BY LimitsNat DEF Types, TypeInv, TypeOK, StoreTypeOK
  <1>2. Active \subseteq Playing /\ Active \subseteq Sid
    BY DEF Active, Playing
  <1>3. CASE Active = {}
    BY <1>1, <1>3, FS_EmptySet DEF LimitRespected
  <1>4. CASE Active # {}
    <2>1. PICK s \in Active : Active = {s}
      BY <1>2, <1>4 DEF UniqueInv
    <2>2. Cardinality(Active) = 1
      BY <2>1, FS_Singleton
    <2> QED
      BY <1>1, <2>2 DEF LimitRespected
  <1> QED
    BY <1>3, <1>4
-----------------------------------------------------------------------------
(* The invariant behind Guarded. *)
GuardInv ==
  /\ StrategyTypes
  /\ strategy = "SERIALIZABLE" => SerialInv
  /\ strategy = "CONSTRAINT" => UniqueInv

LEMMA InitGuard == StrategiesInit => GuardInv
  <1> SUFFICES ASSUME StrategiesInit PROVE GuardInv
    OBVIOUS
  <1>1. StrategyTypes /\ Init /\ tx = [c \in Conn |-> NoTx]
    BY InitStrategyTypes DEF StrategiesInit, TxInit
  <1>2. Active = {} /\ Playing = {}
    BY <1>1 DEF Init, StoreInit, Active, Playing
  <1>3. \A c \in Conn : claim[c].step = "idle" /\ tx[c] = NoTx
    BY <1>1 DEF Init, NoClaim
  <1>4. SerialInv
    <2>1. LimitRespected
      BY <1>1, <1>2, FS_EmptySet, LimitsNat DEF LimitRespected, StrategyTypes, Types, TypeInv,
                                               TypeOK, StoreTypeOK
    <2> QED
      BY <1>1, <1>3, <2>1, InitOneOpen DEF SerialInv, Locked, RoomMade
  <1>5. UniqueInv
    BY <1>2, <1>3 DEF UniqueInv, UniqueOf, NoTx
  <1> QED
    BY <1>1, <1>4, <1>5 DEF GuardInv

LEMMA SameStrategy ==
  ASSUME StrategyTypes, [StrategiesNext]_strategyVars
  PROVE  strategy' = strategy
  BY ServeKinds DEF StrategyTypes, StrategiesNext, ClaimSteps, HookStep, HookLost,
                    strategyVars, redisVars, txVars

(* serializable.ts, constraint.ts: shared locks under SERIALIZABLE, for    *)
(* any limit, and the unique index under CONSTRAINT keep the stream limit, *)
(* whatever deadlocks, dies, retries, lapses or is sent twice; and under   *)
(* SERIALIZABLE a device has one open session.                             *)
THEOREM StrategiesGuarded == StrategiesSpec => []Guarded
  <1>1. GuardInv /\ [StrategiesNext]_strategyVars => GuardInv'
    BY NextTypes, SameStrategy, NextKeepsSerial, NextKeepsUnique DEF GuardInv
  <1>2. GuardInv => Guarded
    BY UniqueKeepsLimit DEF GuardInv, Guarded, SerialInv, StrategyTypes
  <1> QED
    BY <1>1, <1>2, InitGuard, PTL DEF StrategiesSpec
-----------------------------------------------------------------------------
(* The outcomes of request ids. *)

SameOutcomes == UNCHANGED <<requests, answers>>

LEMMA SameKeepsOutcomes == ASSUME OutcomesUnique, SameOutcomes PROVE OutcomesUnique'
  BY DEF OutcomesUnique, SameOutcomes

LEMMA GrantKeepsOutcomes ==
  ASSUME OutcomesUnique, NEW c \in Conn, NEW own, Prior(c) = {}, CommitGrant(c, own)
  PROVE  OutcomesUnique'
  <1>1. PICK s \in Sid :
          /\ requests' = requests \cup ClaimEvent(claim[c].device, claim[c].id, s)
          /\ Answer(ClaimEvent(claim[c].device, claim[c].id, s))
    BY Zenon DEF CommitGrant
  <1> QED
    BY <1>1, RecordKeepsUnique DEF Prior

LEMMA EndsKeepOutcomes ==
  ASSUME OutcomesUnique, NEW c \in Conn, (Prior(c) = {} /\ RejectCommit(c)) \/ Duplicate(c)
  PROVE  OutcomesUnique'
  BY CommitKeepsUnique DEF Duplicate

LEMMA ClaimKeepsOutcomes ==
  ASSUME OutcomesUnique, NEW c \in Conn, ClaimSteps(c)
  PROVE  OutcomesUnique'
  <1>1. CASE UNCHANGED storeVars
    BY <1>1, SameKeepsOutcomes DEF storeVars, SameOutcomes
  <1>2. CASE NaiveStep(c)
    <2>1. CASE NaiveRead(c) \/ NaiveChoose(c)
      BY <1>1, <2>1 DEF NaiveRead, NaiveChoose, CountActive, OldestActive
    <2>2. CASE NaiveReject(c)
      BY <2>2, EndsKeepOutcomes DEF NaiveReject
    <2>3. CASE NaivePreempt(c) \/ NaiveEndOwn(c) \/ NaiveInsert(c) \/ NaiveBump(c)
      BY <2>3, SameKeepsOutcomes DEF NaivePreempt, NaiveEndOwn, NaiveInsert, NaiveBump, SameOutcomes
    <2>4. CASE NaiveEvent(c) /\ Prior(c) = {}
      <3>1. /\ requests' = requests \cup ClaimEvent(claim[c].device, claim[c].id, tx[c].made)
            /\ Answer(ClaimEvent(claim[c].device, claim[c].id, tx[c].made))
        BY <2>4 DEF NaiveEvent
      <3> QED
        BY <2>4, <3>1, RecordKeepsUnique DEF Prior
    <2>5. CASE NaiveEvent(c) /\ Prior(c) # {}
      <3>1. requests' = requests /\ Answer(Prior(c))
        BY <2>5 DEF NaiveEvent
      <3> QED
        BY <3>1, ReplayKeepsUnique DEF Prior, Answer
    <2> QED
      BY <1>2, <2>1, <2>2, <2>3, <2>4, <2>5 DEF NaiveStep
  <1>3. CASE TxnStep(c)
    <2>1. CASE TxnSnapshot(c) \/ TxnDeadlock(c)
      BY <1>1, <2>1 DEF TxnSnapshot, TxnDeadlock, RollbackRetry
    <2>2. CASE TxnReject(c) \/ TxnGrant(c)
      BY <2>2, EndsKeepOutcomes, GrantKeepsOutcomes DEF TxnReject, TxnGrant
    <2> QED
      BY <1>3, <2>1, <2>2 DEF TxnStep
  <1>4. CASE SerialStep(c)
    <2>1. CASE SerialRead(c) \/ SerialCount(c) \/ SerialChoose(c) \/ SerialDeadlock(c)
      BY <1>1, <2>1 DEF SerialRead, SerialCount, SerialChoose, SerialDeadlock, RollbackRetry,
                        CountActive, OldestActive
    <2>2. CASE SerialReject(c) \/ SerialGrant(c)
      BY <2>2, EndsKeepOutcomes, GrantKeepsOutcomes DEF SerialReject, SerialGrant
    <2> QED
      BY <1>4, <2>1, <2>2 DEF SerialStep
  <1>5. CASE UniqueStep(c)
    <2>1. CASE \/ UniqueExpire(c) \/ UniqueChoose(c) \/ UniqueEnds(c) \/ UniqueInsert(c)
               \/ UniqueTaken(c) \/ UniqueDeadlock(c)
      BY <1>1, <2>1 DEF UniqueExpire, UniqueChoose, UniqueEnds, UniqueInsert, UniqueTaken,
                        UniqueDeadlock, RollbackRetry, OldestActive
    <2>2. CASE UniqueCommit(c) \/ RefusedReject(c)
      BY <2>2, EndsKeepOutcomes, GrantKeepsOutcomes DEF UniqueCommit, RefusedReject
    <2> QED
      BY <1>5, <2>1, <2>2 DEF UniqueStep
  <1>6. CASE TriggerStep(c)
    <2>1. CASE \/ TriggerStart(c) \/ TriggerChoose(c) \/ TriggerCount(c) \/ TriggerSignals(c)
               \/ TriggerInsert(c) \/ TriggerDeadlock(c)
      BY <1>1, <2>1 DEF TriggerStart, TriggerChoose, TriggerCount, TriggerSignals, TriggerInsert,
                        TriggerDeadlock, RollbackRetry, OldestActive
    <2>2. CASE TriggerCommit(c) \/ RefusedReject(c)
      BY <2>2, EndsKeepOutcomes, GrantKeepsOutcomes DEF TriggerCommit, RefusedReject
    <2> QED
      BY <1>6, <2>1, <2>2 DEF TriggerStep
  <1>7. CASE RedisStep(c)
    <2>1. CASE \/ RedisRead(c) \/ AcquireOwn(c) \/ AcquireFree(c) \/ AcquireSteal(c)
               \/ AcquireNone(c) \/ RedisChoose(c) \/ RedisInsert(c) \/ RedisDeadlock(c)
      BY <1>1, <2>1 DEF RedisRead, AcquireOwn, AcquireFree, AcquireSteal, Admitted, AcquireNone,
                        RedisChoose, RedisInsert, RedisDeadlock
    <2>2. CASE RedisGrant(c) \/ RedisDuplicate(c) \/ RefusedReject(c)
      BY <2>2, EndsKeepOutcomes, GrantKeepsOutcomes DEF RedisGrant, RedisDuplicate, RefusedReject
    <2>3. CASE RedisReconcile(c)
      BY <2>3, SameKeepsOutcomes DEF RedisReconcile, SameOutcomes
    <2> QED
      BY <1>7, <2>1, <2>2, <2>3 DEF RedisStep
  <1> QED
    BY <1>2, <1>3, <1>4, <1>5, <1>6, <1>7 DEF ClaimSteps, SqlStep

LEMMA NextKeepsOutcomes ==
  ASSUME StrategyTypes, OutcomesUnique, [StrategiesNext]_strategyVars
  PROVE  OutcomesUnique'
  <1>1. CASE SameOutcomes
    BY <1>1, SameKeepsOutcomes
  <1>2. CASE Starts
    BY <1>1, <1>2, ReplayKeepsUnique DEF Starts, ClaimStart, ClaimReplay, storeVars, SameOutcomes
  <1>3. ASSUME NEW c \in Conn, ClaimSteps(c)
        PROVE  OutcomesUnique'
    BY <1>3, ClaimKeepsOutcomes
  <1>4. ASSUME NEW c \in Conn, GivesUp(c)
        PROVE  OutcomesUnique'
    BY <1>1, <1>4 DEF GivesUp, Dies, ClaimAbort, RedisFails, storeVars, SameOutcomes
  <1>5. CASE Serve
    BY <1>1, <1>5, ServeKinds DEF StrategyTypes, SameOutcomes
  <1>6. CASE HookStep \/ HookLost \/ UNCHANGED strategyVars
    BY <1>1, <1>6 DEF HookStep, HookLost, strategyVars, redisVars, txVars, vars, storeVars, SameOutcomes
  <1> QED
    BY <1>2, <1>3, <1>4, <1>5, <1>6 DEF StrategiesNext

(* executeClaim, uq_event_request: under every strategy, NAIVE's single    *)
(* statements included, all clients are told the same outcome of one       *)
(* request id, and nothing is answered that is not on record.              *)
THEOREM StrategiesAnswersConsistent == StrategiesSpec => []AnswersConsistent
  <1>1. StrategiesInit => OutcomesUnique
    BY DEF StrategiesInit, TxInit, Init, StoreInit, OutcomesUnique
  <1>2. StrategyTypes /\ OutcomesUnique /\ [StrategiesNext]_strategyVars
          => (StrategyTypes /\ OutcomesUnique)'
    BY NextTypes, NextKeepsOutcomes
  <1> QED
    BY <1>1, <1>2, InitStrategyTypes, UniqueImpliesConsistent, PTL DEF StrategiesSpec
-----------------------------------------------------------------------------
(* CONSTRAINT and REDIS_LEASE commit what they read statements ago: the    *)
(* rows they locked then are still as they were, and no other claim has    *)
(* locked one of them.                                                     *)

Locking == {"CONSTRAINT", "REDIS_LEASE"}

LocksOf(c) ==
  /\ tx[c].rows \subseteq Inserted
  /\ tx[c].expired \subseteq tx[c].rows \cap Playing
  /\ tx[c].own \subseteq tx[c].rows \cap Open
  /\ tx[c].stage = "start" => tx[c].own = {}
  /\ claim[c].step # "grant" => tx[c].stage = "start"
  /\ claim[c].toPreempt \subseteq Inserted
  /\ tx[c].stage \in {"ended", "inserted"} => claim[c].toPreempt \cap Playing \subseteq tx[c].rows

LocksHeld ==
  /\ \A c \in Conn : LocksOf(c)
  /\ \A c, x \in Conn : c # x => tx[c].rows \cap tx[x].rows = {}

LocksInv ==
  /\ strategy # "CONSTRAINT" => \A c \in Conn : tx[c].expired = {}
  /\ strategy \in Locking => LocksHeld

(* How a status may change: it begins as PLAYING, is paused once at most,  *)
(* and ends for good.                                                      *)
StatusMovesOn ==
  \A s \in Sid :
    /\ status[s] \in {"ENDED", "PREEMPTED", "EXPIRED"} => status'[s] = status[s]
    /\ status[s] = "PAUSED" => status'[s] \in {"PAUSED", "ENDED"}
    /\ status[s] = "PLAYING" => status'[s] # "NONE"

LEMMA SameStatusMovesOn ==
  ASSUME UNCHANGED status
  PROVE  StatusMovesOn
  BY DEF StatusMovesOn

LEMMA MovesOnKeeps ==
  ASSUME Types, StatusMovesOn
  PROVE  /\ Inserted \subseteq Inserted'
         /\ Inserted \cap Playing' \subseteq Playing
  <1>1. \A s \in Sid : status[s] \in Status
    BY DEF Types, TypeInv, TypeOK, StoreTypeOK
  <1> QED
    BY <1>1 DEF StatusMovesOn, Inserted, Playing, Status

(* The sessions that stay as they are stay open, and what c does not have  *)
(* locked is none of its business.                                         *)
LEMMA LocksKept ==
  ASSUME Types, TxTypes, LocksHeld, StatusMovesOn, NEW c \in Conn,
         \A x \in Conn \ {c} : claim'[x] = claim[x] /\ tx'[x] = tx[x],
         \A s \in LockedByOthers(c) : status'[s] = status[s],
         LocksOf(c)', tx'[c].rows \cap LockedByOthers(c) = {}
  PROVE  LocksHeld'
  <1>1. ASSUME NEW x \in Conn \ {c}
        PROVE  /\ tx'[x] = tx[x] /\ claim'[x] = claim[x] /\ LocksOf(x)
               /\ \A s \in tx[x].rows : status'[s] = status[s]
               /\ tx'[c].rows \cap tx[x].rows = {}
    BY <1>1 DEF LocksHeld, LockedByOthers
  <1>2. ASSUME NEW x \in Conn \ {c}
        PROVE  LocksOf(x)'
    <2>1. tx[x].rows \cap Playing \subseteq Playing' /\ tx[x].rows \cap Open \subseteq Open'
      BY <1>1 DEF Playing, Open
    <2>2. claim[x].toPreempt \cap Playing' \subseteq Playing
      BY <1>1, MovesOnKeeps DEF LocksOf
    <2> QED
      BY <1>1, <2>1, <2>2, MovesOnKeeps DEF LocksOf
  <1>3. \A x, y \in Conn : x # y => tx'[x].rows \cap tx'[y].rows = {}
    BY <1>1 DEF LocksHeld
  <1> QED
    BY <1>2, <1>3 DEF LocksHeld

(* A transaction that is over has no locks. *)
LEMMA BackHoldsNone ==
  ASSUME Types, TxTypes, LocksHeld, StatusMovesOn, NEW c \in Conn, Finish(c) \/ Retry(c), Over(c),
         \A s \in LockedByOthers(c) : status'[s] = status[s]
  PROVE  LocksHeld'
  <1>1. claim \in [Conn -> Claim]
    BY DEF Types, TypeInv, TypeOK
  <1>2. tx'[c] = NoTx /\ \A x \in Conn \ {c} : tx'[x] = tx[x] /\ claim'[x] = claim[x]
    BY BackIsUnread DEF Over, TxTypes
  <1>3. claim'[c].toPreempt = {}
    <2> DEFINE r == [NoClaim EXCEPT !.step = "read", !.device = claim[c].device,
                       !.id = claim[c].id, !.mode = claim[c].mode, !.attempt = claim[c].attempt + 1]
    <2>1. r.toPreempt = {} /\ NoClaim.toPreempt = {}
      BY DEF NoClaim
    <2>2. claim' = [claim EXCEPT ![c] = NoClaim] \/ claim' = [claim EXCEPT ![c] = r]
      BY DEF Finish, Retry
    <2> HIDE DEF r
    <2> QED
      BY <1>1, <2>1, <2>2
  <1>4. LocksOf(c)' /\ tx'[c].rows = {}
    BY <1>2, <1>3 DEF LocksOf, NoTx
  <1> QED
    BY <1>2, <1>4, LocksKept
-----------------------------------------------------------------------------
(* What a COMMIT does, when what it read is still so. *)
LEMMA CommitMovesOn ==
  ASSUME Types, TxTypes, NEW c \in Conn, claim[c].step # "idle", NEW own, CommitGrant(c, own),
         tx[c].expired \subseteq Playing, own \subseteq Open
  PROVE  /\ StatusMovesOn
         /\ \E s \in Sid \ Inserted :
              /\ Inserted' = Inserted \cup {s}
              /\ s \in Active' /\ Active' \ {s} \subseteq Active
              /\ \A t \in Sid : status'[t] = status[t] \/ t = s \/ t \in tx[c].expired \/ t \in own
                                 \/ t \in claim[c].toPreempt \cap Playing
  <1>1. PICK s \in Sid :
          /\ s \notin Inserted
          /\ status' = [t \in Sid |-> IF t = s THEN "PLAYING"
                                      ELSE IF t \in tx[c].expired THEN "EXPIRED"
                                      ELSE IF t \in own THEN "ENDED"
                                      ELSE IF t \in Preempted(c) THEN "PREEMPTED" ELSE status[t]]
          /\ left' = [t \in Sid |-> IF t = s THEN LeaseTicks
                                    ELSE IF status'[t] # "PLAYING" THEN -Skew ELSE left[t]]
    BY Zenon DEF CommitGrant
  <1>2. /\ status'[s] = "PLAYING"
        /\ \A t \in Sid \ {s} :
             status'[t] = IF t \in tx[c].expired THEN "EXPIRED"
                          ELSE IF t \in own THEN "ENDED"
                          ELSE IF t \in Preempted(c) THEN "PREEMPTED" ELSE status[t]
    BY <1>1
  <1>3. \A t \in Sid : /\ t \in tx[c].expired => status[t] = "PLAYING"
                       /\ t \in own => status[t] \in {"PLAYING", "PAUSED"}
                       /\ t \in Preempted(c) => status[t] = "PLAYING" /\ t \in claim[c].toPreempt
    BY DEF Playing, Open, Preempted
  <1>4. left'[s] = LeaseTicks /\ LeaseTicks > 0
    BY <1>1, StoreAssumption DEF StoreAssumption
  <1>5. \A t \in Sid \ {s} : status'[t] = "PLAYING" => left'[t] = left[t]
    BY <1>1
  <1>6. status[s] = "NONE"
    BY <1>1 DEF Inserted
  <1>7. StatusMovesOn
    BY <1>2, <1>3, <1>6 DEF StatusMovesOn
  <1>8. Inserted' = Inserted \cup {s}
    BY <1>2, <1>3 DEF Inserted
  <1>9. s \in Active' /\ Active' \ {s} \subseteq Active
    <2>1. \A t \in Sid \ {s} : status'[t] = "PLAYING" => status[t] = "PLAYING"
      BY <1>2, <1>3
    <2> QED
      BY <1>2, <1>4, <1>5, <2>1 DEF Active
  <1>10. \A t \in Sid : status'[t] = status[t] \/ t = s \/ t \in tx[c].expired \/ t \in own
                                 \/ t \in claim[c].toPreempt \cap Playing
    BY <1>2, <1>3 DEF Playing
  <1> QED
    BY <1>1, <1>7, <1>8, <1>9, <1>10
-----------------------------------------------------------------------------
(* A session may begin, at most one in a step; otherwise some stop. *)
Comes ==
  \E s \in Sid \ Inserted :
    Inserted' = Inserted \cup {s} /\ s \in Active' /\ Active' \ {s} \subseteq Active

Goes == Inserted' = Inserted /\ Active' \subseteq Active

Moves == StatusMovesOn /\ (Comes \/ Goes)

LEMMA SameRowsMove == ASSUME UNCHANGED <<status, left>> PROVE Moves
  BY DEF Moves, StatusMovesOn, Goes, Inserted, Active

LEMMA SameStoreMoves == ASSUME UNCHANGED storeVars PROVE Moves
  BY SameRowsMove DEF storeVars, rowVars

(* A status change of rows that are PLAYING, or of paused ones that end. *)
LEMMA StopsMove ==
  ASSUME NEW S \in SUBSET Open, NEW st \in {"PAUSED", "ENDED", "EXPIRED", "PREEMPTED"},
         Retire(S, st), st # "ENDED" => S \subseteq Playing
  PROVE  Moves
  <1>1. \A s \in Sid : /\ status'[s] = IF s \in S THEN st ELSE status[s]
                       /\ s \notin S => left'[s] = left[s]
                       /\ s \in S => status[s] \in {"PLAYING", "PAUSED"}
                       /\ s \in S /\ st # "ENDED" => status[s] = "PLAYING"
    BY DEF Retire, Open, Playing
  <1>2. StatusMovesOn
    BY <1>1 DEF StatusMovesOn
  <1>3. Inserted' = Inserted
    BY <1>1 DEF Inserted
  <1>4. Active' \subseteq Active
    BY <1>1 DEF Active
  <1> QED
    BY <1>2, <1>3, <1>4 DEF Moves, Goes

LEMMA OperationsMove ==
  ASSUME Types,
         \/ \E s \in Sid : Heartbeat(s) \/ Pause(s) \/ Release(s)
         \/ EndAll \/ Reap \/ Tick \/ UNCHANGED storeVars
  PROVE  Moves
  <1>1. StoreTypeOK
    BY DEF Types, TypeInv, TypeOK
  <1>2. CASE UNCHANGED status
    <2>1. Shrinks
      BY OperationsShrink
    <2> QED
      BY <1>2, <2>1 DEF Moves, Goes, Shrinks, StatusMovesOn
  <1>3. ASSUME NEW s \in Sid, Pause(s)
        PROVE  Moves
    <2>1. {s} \in SUBSET Open /\ {s} \subseteq Playing
      BY <1>3 DEF Pause, Active, Open, Playing
    <2> QED
      BY <1>3, <2>1, StopsMove DEF Pause
  <1>4. ASSUME NEW s \in Sid, Release(s)
        PROVE  Moves
    <2>1. {s} \in SUBSET Open
      BY <1>4 DEF Release, Active, Open
    <2> QED
      BY <1>4, <2>1, StopsMove DEF Release
  <1>5. CASE EndAll
    BY <1>5, StopsMove DEF EndAll
  <1>6. CASE Reap
    <2>1. Lapsed \in SUBSET Open /\ Lapsed \subseteq Playing
      BY DEF Lapsed, Open, Playing
    <2> QED
      BY <1>6, <2>1, StopsMove DEF Reap
  <1> QED
    BY <1>2, <1>3, <1>4, <1>5, <1>6 DEF Heartbeat, Tick, storeVars, rowVars

LEMMA ServeMoves ==
  ASSUME Types, Serve
  PROVE  Moves
  <1>1. CASE Operations
    BY <1>1, OperationsMove DEF Operations
  <1>2. CASE RedisOperations
    BY <1>2, OperationsMove
    DEF RedisOperations, HeartbeatExtends, StopFrees, EndAllClears
  <1> QED
    BY <1>1, <1>2 DEF Serve

LEMMA CommitMoves ==
  ASSUME Types, TxTypes, NEW c \in Conn, claim[c].step # "idle", NEW own, CommitGrant(c, own),
         tx[c].expired \subseteq Playing, own \subseteq Open
  PROVE  Moves
  BY CommitMovesOn DEF Moves, Comes

(* NAIVE: no statement of grant revives what another one stopped. *)
LEMMA NaiveMoves ==
  ASSUME Types, NEW c \in Conn, NaiveStep(c)
  PROVE  Moves
  <1>1. CASE NaivePreempt(c)
    <2>1. Preempted(c) \in SUBSET Open /\ Preempted(c) \subseteq Playing
      BY DEF Preempted, Open, Playing, Types, TypeInv, TypeOK, Claim
    <2> QED
      BY <1>1, <2>1, StopsMove DEF NaivePreempt
  <1>2. CASE NaiveEndOwn(c)
    BY <1>2, StopsMove DEF NaiveEndOwn, OwnOpen
  <1>3. CASE NaiveInsert(c)
    <2>1. PICK s \in Sid : /\ s \notin Inserted
                           /\ status' = [status EXCEPT ![s] = "PLAYING"]
                           /\ left' = [left EXCEPT ![s] = LeaseTicks]
      BY <1>3 DEF NaiveInsert
    <2>2. /\ status'[s] = "PLAYING" /\ left'[s] > 0 /\ status[s] = "NONE"
          /\ \A t \in Sid \ {s} : status'[t] = status[t] /\ left'[t] = left[t]
      BY <2>1, StoreAssumption DEF StoreAssumption, Types, TypeInv, TypeOK, StoreTypeOK, Inserted
    <2>3. StatusMovesOn
      BY <2>2 DEF StatusMovesOn
    <2>4. Inserted' = Inserted \cup {s}
      BY <2>2 DEF Inserted
    <2>5. s \in Active' /\ Active' \ {s} \subseteq Active
      BY <2>2 DEF Active
    <2> QED
      BY <2>1, <2>3, <2>4, <2>5 DEF Moves, Comes
  <1>4. CASE UNCHANGED <<status, left>>
    BY <1>4, SameRowsMove
  <1> QED
    BY <1>1, <1>2, <1>3, <1>4
    DEF NaiveStep, NaiveRead, NaiveChoose, CountActive, OldestActive, NaiveReject, RejectCommit, Reject,
        Duplicate, DuplicateRollback, NaiveBump, NaiveEvent, storeVars, rowVars

LEMMA OpenSets ==
  ASSUME NEW c \in Conn
  PROVE  OwnOpen(c) \subseteq Open /\ tx[c].own \cap Open \subseteq Open /\ Lapsed \subseteq Playing
  BY DEF OwnOpen, Lapsed, Playing

LEMMA SerialMoves ==
  ASSUME Types, TxTypes, NEW c \in Conn, tx[c].expired = {}, SerialStep(c)
  PROVE  Moves
  <1>1. CASE CommitGrant(c, OwnOpen(c)) /\ At(c, "start")
    BY <1>1, CommitMoves, OpenSets DEF At
  <1>2. CASE UNCHANGED <<status, left>>
    BY <1>2, SameRowsMove
  <1> QED
    BY <1>1, <1>2
    DEF SerialStep, SerialRead, SerialCount, SerialChoose, CountActive, OldestActive, SerialReject,
        RejectCommit, Reject, Duplicate, DuplicateRollback, SerialGrant, SerialDeadlock,
        RollbackRetry, storeVars, rowVars

LEMMA TxnMoves ==
  ASSUME Types, TxTypes, NEW c \in Conn, tx[c].expired = {}, TxnStep(c)
  PROVE  Moves
  <1>1. CASE CommitGrant(c, tx[c].own \cap Open) /\ At(c, "start")
    BY <1>1, CommitMoves, OpenSets DEF At
  <1>2. CASE UNCHANGED <<status, left>>
    BY <1>2, SameRowsMove
  <1> QED
    BY <1>1, <1>2
    DEF TxnStep, TxnSnapshot, TxnReject, RejectCommit, Reject, Duplicate, DuplicateRollback,
        TxnGrant, TxnDeadlock, RollbackRetry, storeVars, rowVars

LEMMA TriggerMoves ==
  ASSUME Types, TxTypes, NEW c \in Conn, tx[c].expired = {}, TriggerStep(c)
  PROVE  Moves
  <1>1. CASE CommitGrant(c, tx[c].own \cap Open) /\ At(c, "inserted")
    BY <1>1, CommitMoves, OpenSets DEF At
  <1>2. CASE UNCHANGED <<status, left>>
    BY <1>2, SameRowsMove
  <1> QED
    BY <1>1, <1>2
    DEF TriggerStep, TriggerStart, TriggerChoose, OldestActive, TriggerCount, TriggerSignals,
        TriggerInsert, TriggerCommit, TriggerDeadlock, RefusedReject, RejectCommit, Reject,
        Duplicate, DuplicateRollback, RollbackRetry, storeVars, rowVars

(* CONSTRAINT and REDIS_LEASE: what their COMMIT stops is still open. *)
LEMMA UniqueMoves ==
  ASSUME Types, TxTypes, NEW c \in Conn, LocksOf(c), UniqueStep(c)
  PROVE  Moves
  <1>1. CASE CommitGrant(c, tx[c].own) /\ At(c, "inserted")
    BY <1>1, CommitMoves DEF At, LocksOf
  <1>2. CASE UNCHANGED <<status, left>>
    BY <1>2, SameRowsMove
  <1> QED
    BY <1>1, <1>2
    DEF UniqueStep, UniqueExpire, UniqueChoose, OldestActive, UniqueEnds, UniqueInsert, UniqueTaken,
        UniqueCommit, UniqueDeadlock, RefusedReject, RejectCommit, Reject, Duplicate,
        DuplicateRollback, RollbackRetry, storeVars, rowVars

LEMMA RedisMoves ==
  ASSUME Types, TxTypes, NEW c \in Conn, LocksOf(c), RedisStep(c)
  PROVE  Moves
  <1>1. CASE RedisGrant(c)
    BY <1>1, CommitMoves DEF RedisGrant, At, LocksOf
  <1>2. CASE RedisReconcile(c)
    <2>1. PICK V \in SUBSET Others(c) : Retire(V, "PREEMPTED")
      BY <1>2, Zenon DEF RedisReconcile
    <2>2. V \in SUBSET Open /\ V \subseteq Playing
      BY <2>1 DEF Others, ActiveOthers, Active, Open, Playing
    <2> QED
      BY <2>1, <2>2, StopsMove
  <1>3. CASE UNCHANGED <<status, left>>
    BY <1>3, SameRowsMove
  <1>4. CASE ~RedisGrant(c) /\ ~RedisReconcile(c)
    <2>1. UNCHANGED rowVars
      BY <1>4
      DEF RedisStep, RedisRead, AcquireOwn, AcquireFree, AcquireSteal, AcquireNone, Admitted,
          RedisChoose, RedisInsert, RedisDuplicate, RedisDeadlock, RefusedReject, RejectCommit, Reject,
          Duplicate, DuplicateRollback, storeVars
    <2> QED
      BY <1>3, <2>1 DEF rowVars
  <1> QED
    BY <1>1, <1>2, <1>4

LEMMA NextMoves ==
  ASSUME StrategyTypes, LocksInv, [StrategiesNext]_strategyVars
  PROVE  Moves
  <1>1. Types /\ TxTypes
    BY DEF StrategyTypes
  <1>2. CASE Starts
    <2>1. UNCHANGED rowVars
      BY <1>2 DEF Starts, ClaimStart, ClaimReplay, storeVars
    <2> QED
      BY <2>1, SameRowsMove DEF rowVars
  <1>3. ASSUME NEW c \in Conn, ClaimSteps(c)
        PROVE  Moves
    BY <1>1, <1>3, NaiveMoves, TxnMoves, SerialMoves, UniqueMoves, TriggerMoves, RedisMoves
    DEF ClaimSteps, SqlStep, LocksInv, LocksHeld, Locking
  <1>4. ASSUME NEW c \in Conn, GivesUp(c)
        PROVE  Moves
    <2>1. UNCHANGED rowVars
      BY <1>4 DEF GivesUp, Dies, ClaimAbort, RedisFails, storeVars
    <2> QED
      BY <2>1, SameRowsMove DEF rowVars
  <1>5. CASE Serve
    BY <1>1, <1>5, ServeMoves
  <1>6. CASE HookStep \/ HookLost \/ UNCHANGED strategyVars
    BY <1>6, SameStoreMoves DEF HookStep, HookLost, strategyVars, redisVars, txVars, vars
  <1> QED
    BY <1>2, <1>3, <1>4, <1>5, <1>6 DEF StrategiesNext
-----------------------------------------------------------------------------
(* Who takes which locks.  Under the four other strategies no transaction  *)
(* has expired anything.                                                   *)
NoneExpired == \A c \in Conn : tx[c].expired = {}

LEMMA RecordKept ==
  ASSUME TxTypes, NoneExpired, NEW c \in Conn, NEW r, r.expired = {}, tx' = [tx EXCEPT ![c] = r]
  PROVE  NoneExpired'
  BY DEF TxTypes, NoneExpired

LEMMA OverExpiresNone == ASSUME TxTypes, NoneExpired, NEW c \in Conn, Over(c) PROVE NoneExpired'
  <1>1. NoTx.expired = {}
    BY DEF NoTx
  <1> QED
    BY <1>1, RecordKept DEF Over

LEMMA DuplicateExpiresNone ==
  ASSUME TxTypes, NoneExpired, NEW c \in Conn, Duplicate(c) \/ RollbackRetry(c) \/ RefusedReject(c)
  PROVE  NoneExpired'
  BY OverExpiresNone DEF Duplicate, RollbackRetry, RefusedReject

LEMMA SqlExpiresNone ==
  ASSUME TxTypes, NoneExpired, NEW c \in Conn,
         NaiveStep(c) \/ TxnStep(c) \/ SerialStep(c) \/ TriggerStep(c)
  PROVE  NoneExpired'
  <1>1. CASE UNCHANGED tx \/ Over(c) \/ Duplicate(c) \/ RollbackRetry(c) \/ RefusedReject(c)
    BY <1>1, OverExpiresNone, DuplicateExpiresNone DEF NoneExpired
  <1>2. ASSUME NEW st, Into(c, st)
        PROVE  NoneExpired'
    BY <1>2 DEF Into, NoneExpired, TxTypes, Tx
  <1>3. CASE NaiveStep(c)
    <2>1. CASE NaiveInsert(c)
      BY <2>1 DEF NaiveInsert, NoneExpired, TxTypes, Tx
    <2> QED
      BY <1>1, <1>2, <1>3, <2>1
      DEF NaiveStep, NaiveRead, NaiveChoose, NaiveReject, NaivePreempt, NaiveEndOwn, NaiveBump,
          NaiveEvent
  <1>4. CASE TxnStep(c)
    <2>1. CASE TxnSnapshot(c)
      BY <2>1 DEF TxnSnapshot, NoneExpired, TxTypes, Tx
    <2> QED
      BY <1>1, <1>4, <2>1 DEF TxnStep, TxnReject, TxnGrant, TxnDeadlock
  <1>5. CASE SerialStep(c)
    <2>1. CASE SerialRead(c) \/ SerialCount(c)
      BY <2>1 DEF SerialRead, SerialCount, NoneExpired, TxTypes, Tx
    <2> QED
      BY <1>1, <1>5, <2>1 DEF SerialStep, SerialChoose, SerialReject, SerialGrant, SerialDeadlock
  <1>6. CASE TriggerStep(c)
    <2>1. CASE TriggerCount(c)
      BY <2>1 DEF TriggerCount, NoneExpired, TxTypes, Tx
    <2>2. CASE TriggerInsert(c)
      BY <2>2 DEF TriggerInsert, NoneExpired, TxTypes, Tx
    <2> QED
      BY <1>1, <1>2, <1>6, <2>1, <2>2
      DEF TriggerStep, TriggerStart, TriggerChoose, TriggerSignals, TriggerCommit, TriggerDeadlock
  <1> QED
    BY <1>3, <1>4, <1>5, <1>6

LEMMA RedisExpiresNone ==
  ASSUME TxTypes, NoneExpired, NEW c \in Conn, RedisStep(c)
  PROVE  NoneExpired'
  <1>1. CASE UNCHANGED tx \/ Over(c) \/ Duplicate(c) \/ RefusedReject(c)
    BY <1>1, OverExpiresNone, DuplicateExpiresNone DEF NoneExpired
  <1>2. ASSUME NEW r, r \in {[NoTx EXCEPT !.stage = "committed"], [NoTx EXCEPT !.victim = tx[c].victim]},
               tx' = [tx EXCEPT ![c] = r]
        PROVE  NoneExpired'
    <2>1. r.expired = {}
      BY <1>2 DEF NoTx
    <2> QED
      BY <1>2, <2>1, RecordKept
  <1>3. ASSUME NEW k, NEW v, Admitted(c, k, v)
        PROVE  NoneExpired'
    BY <1>3 DEF Admitted, NoneExpired, TxTypes, Tx
  <1>4. CASE AcquireNone(c)
    BY <1>4 DEF AcquireNone, NoneExpired, TxTypes, Tx
  <1>5. CASE RedisInsert(c)
    BY <1>5 DEF RedisInsert, NoneExpired, TxTypes, Tx
  <1>6. CASE RedisGrant(c) \/ RedisDeadlock(c)
    BY <1>1, <1>2, <1>6 DEF RedisGrant, RedisDeadlock
  <1>7. CASE AcquireOwn(c) \/ AcquireFree(c) \/ AcquireSteal(c)
    BY <1>3, <1>7 DEF AcquireOwn, AcquireFree, AcquireSteal
  <1> QED
    BY <1>1, <1>4, <1>5, <1>6, <1>7
    DEF RedisStep, RedisRead, RedisChoose, RedisDuplicate, RedisReconcile
-----------------------------------------------------------------------------
(* CONSTRAINT. *)
LEMMA UniqueHolds ==
  ASSUME Types, TxTypes, LocksHeld, NEW c \in Conn, UniqueStep(c)
  PROVE  LocksHeld'
  <1>1. claim \in [Conn -> Claim] /\ tx \in [Conn -> Tx] /\ claim[c] \in Claim /\ tx[c] \in Tx
    BY DEF Types, TypeInv, TypeOK, TxTypes
  <1>2. ASSUME NEW r \in Tx, tx' = [tx EXCEPT ![c] = r]
        PROVE  tx'[c] = r /\ \A x \in Conn \ {c} : tx'[x] = tx[x]
    BY <1>1, <1>2
  <1>0. /\ StatusMovesOn /\ LocksOf(c)
        /\ \A x \in Conn \ {c} : tx[c].rows \cap tx[x].rows = {}
    BY UniqueMoves DEF LocksHeld, Moves
  <1>3. tx[c].rows \cap LockedByOthers(c) = {}
    BY <1>0 DEF LockedByOthers
  <1>4. ASSUME UNCHANGED storeVars
        PROVE  Playing' = Playing /\ Inserted' = Inserted /\ Open' = Open /\ status' = status
    BY <1>4 DEF storeVars, rowVars, Playing, Inserted, Open
  <1>5. CASE UniqueExpire(c)
    <2> DEFINE r == [tx[c] EXCEPT !.expired = Lapsed, !.rows = Lapsed]
    <2>1. /\ r \in Tx /\ r.expired = Lapsed /\ r.rows = Lapsed /\ r.stage = tx[c].stage
          /\ r.own = tx[c].own
      BY <1>1, RowSets DEF Tx
    <2>2. tx' = [tx EXCEPT ![c] = r]
      BY <1>5 DEF UniqueExpire
    <2> HIDE DEF r
    <2>3. tx'[c] = r /\ (\A x \in Conn \ {c} : tx'[x] = tx[x] /\ claim'[x] = claim[x])
      BY <1>1, <1>2, <1>5, <2>1, <2>2 DEF UniqueExpire, ChooseAll
    <2>4. claim'[c].toPreempt = claim[c].toPreempt
      BY <1>1, <1>5 DEF UniqueExpire, ChooseAll, Claim
    <2>5. tx[c].stage = "start" /\ tx[c].own = {}
      BY <1>0, <1>5 DEF UniqueExpire, LocksOf
    <2>6. Lapsed \subseteq Playing /\ Lapsed \subseteq Inserted
      BY DEF Lapsed, Playing, Inserted
    <2>7. LocksOf(c)'
      BY <1>0, <1>4, <1>5, <2>1, <2>3, <2>4, <2>5, <2>6 DEF LocksOf, UniqueExpire
    <2> QED
      BY <1>0, <1>4, <1>5, <2>1, <2>3, <2>7, LocksKept DEF UniqueExpire
  <1>6. CASE UniqueChoose(c)
    <2>1. PICK V \in SUBSET Others(c) :
            /\ claim[c].step = "choose" /\ UNCHANGED <<storeVars, tx>>
            /\ claim' = [claim EXCEPT ![c] = [claim[c] EXCEPT !.step = "grant", !.toPreempt = V]]
      BY <1>6 DEF UniqueChoose, OldestActive
    <2>2. claim'[c].toPreempt = V /\ \A x \in Conn \ {c} : claim'[x] = claim[x]
      BY <1>1, <2>1 DEF Claim
    <2>3. V \subseteq Inserted
      BY DEF Others, ActiveOthers, Active, Inserted
    <2>4. LocksOf(c)'
      BY <1>0, <1>4, <2>1, <2>2, <2>3 DEF LocksOf
    <2> QED
      BY <1>0, <1>3, <1>4, <2>1, <2>2, <2>4, LocksKept
  <1>7. CASE UniqueEnds(c)
    <2> DEFINE r == [tx[c] EXCEPT !.stage = "ended", !.own = OwnOpen(c) \ tx[c].expired,
                                  !.rows = tx[c].rows \cup Ends(c)]
    <2>1. /\ r \in Tx /\ r.stage = "ended" /\ r.own = OwnOpen(c) \ tx[c].expired
          /\ r.rows = tx[c].rows \cup Ends(c) /\ r.expired = tx[c].expired
      BY <1>1, RowSets DEF Tx, Stages
    <2>2. tx' = [tx EXCEPT ![c] = r]
      BY <1>7 DEF UniqueEnds
    <2> HIDE DEF r
    <2>3. tx'[c] = r /\ (\A x \in Conn \ {c} : tx'[x] = tx[x]) /\ UNCHANGED <<claim, storeVars>>
      BY <1>2, <1>7, <2>1, <2>2 DEF UniqueEnds
    <2>4. /\ OwnOpen(c) \ tx[c].expired \subseteq Ends(c) \cap Open
          /\ claim[c].toPreempt \cap Playing \subseteq Ends(c) \cup tx[c].expired
          /\ Ends(c) \subseteq Inserted
      BY <1>0 DEF Ends, OwnOpen, Preempted, Playing, Open, Inserted, LocksOf
    <2>5. claim[c].step = "grant" /\ Ends(c) \cap LockedByOthers(c) = {}
      BY <1>7 DEF UniqueEnds, At
    <2>6. LocksOf(c)'
      BY <1>0, <1>4, <2>1, <2>3, <2>4, <2>5 DEF LocksOf
    <2> QED
      BY <1>0, <1>3, <1>4, <2>1, <2>3, <2>5, <2>6, LocksKept
  <1>8. CASE UniqueInsert(c)
    <2>1. /\ tx' = [tx EXCEPT ![c].stage = "inserted"] /\ UNCHANGED <<storeVars, claim>>
          /\ claim[c].step = "grant" /\ tx[c].stage = "ended"
      BY <1>8 DEF UniqueInsert, Into, AtKey, At
    <2>2. /\ tx'[c].stage = "inserted" /\ tx'[c].rows = tx[c].rows /\ tx'[c].own = tx[c].own
          /\ tx'[c].expired = tx[c].expired /\ \A x \in Conn \ {c} : tx'[x] = tx[x]
      BY <1>1, <2>1 DEF Tx
    <2>3. LocksOf(c)'
      BY <1>0, <1>4, <2>1, <2>2 DEF LocksOf
    <2> QED
      BY <1>0, <1>3, <1>4, <2>1, <2>2, <2>3, LocksKept
  <1>9. CASE UniqueTaken(c)
    <2>1. CASE Retry(c) /\ Over(c)
      BY <1>0, <1>4, <1>9, <2>1, BackHoldsNone DEF UniqueTaken
    <2>2. CASE tx' = [tx EXCEPT ![c] = [NoTx EXCEPT !.stage = "taken"]] /\ UNCHANGED claim
      <3> DEFINE r == [NoTx EXCEPT !.stage = "taken"]
      <3>1. r \in Tx /\ r.stage = "taken" /\ r.rows = {} /\ r.own = {} /\ r.expired = {}
        BY NoTxType DEF Tx, Stages, NoTx
      <3> HIDE DEF r
      <3>2. tx'[c] = r /\ \A x \in Conn \ {c} : tx'[x] = tx[x]
        BY <1>2, <2>2, <3>1 DEF r
      <3>3. LocksOf(c)'
        BY <1>0, <1>4, <1>9, <2>2, <3>1, <3>2 DEF LocksOf, UniqueTaken, AtKey, At
      <3> QED
        BY <1>0, <1>4, <1>9, <2>2, <3>1, <3>2, <3>3, LocksKept DEF UniqueTaken
    <2> QED
      BY <1>9, <2>1, <2>2 DEF UniqueTaken
  <1>10. CASE Duplicate(c) \/ UniqueDeadlock(c) \/ RefusedReject(c)
    <2>1. Finish(c) \/ Retry(c)
      BY <1>10 DEF Duplicate, DuplicateRollback, UniqueDeadlock, RollbackRetry, RefusedReject,
                   RejectCommit
    <2>2. Over(c) /\ status' = status
      BY <1>10 DEF Duplicate, DuplicateRollback, UniqueDeadlock, RollbackRetry, RefusedReject,
                   RejectCommit, Reject, storeVars, rowVars
    <2> QED
      BY <1>0, <2>1, <2>2, BackHoldsNone
  <1>11. CASE UniqueCommit(c) /\ ~Duplicate(c)
    <2>1. CommitGrant(c, tx[c].own) /\ Finish(c) /\ Over(c) /\ At(c, "inserted")
      BY <1>11 DEF UniqueCommit
    <2>2. tx[c].expired \subseteq Playing /\ tx[c].own \subseteq Open /\ claim[c].step # "idle"
      BY <1>0, <2>1 DEF LocksOf, At
    <2>3. PICK s \in Sid \ Inserted :
            \A t \in Sid : status'[t] = status[t] \/ t = s \/ t \in tx[c].expired \/ t \in tx[c].own
                              \/ t \in claim[c].toPreempt \cap Playing
      BY <2>1, <2>2, CommitMovesOn
    <2>4. LockedByOthers(c) \subseteq Inserted /\ Inserted \subseteq Sid
      BY DEF LocksHeld, LocksOf, LockedByOthers, Inserted
    <2>5. tx[c].expired \cup tx[c].own \cup (claim[c].toPreempt \cap Playing) \subseteq tx[c].rows
      BY <1>0, <2>1 DEF LocksOf, At
    <2>6. \A t \in LockedByOthers(c) : status'[t] = status[t]
      BY <1>3, <2>3, <2>4, <2>5
    <2> QED
      BY <1>0, <2>1, <2>6, BackHoldsNone
  <1> QED
    BY <1>5, <1>6, <1>7, <1>8, <1>9, <1>10, <1>11 DEF UniqueStep
-----------------------------------------------------------------------------
(* REDIS_LEASE. *)
LEMMA RedisHolds ==
  ASSUME Types, TxTypes, LocksHeld, NEW c \in Conn, tx[c].expired = {}, RedisStep(c)
  PROVE  LocksHeld'
  <1>1. claim \in [Conn -> Claim] /\ tx \in [Conn -> Tx] /\ claim[c] \in Claim /\ tx[c] \in Tx
    BY DEF Types, TypeInv, TypeOK, TxTypes
  <1>2. ASSUME NEW r, tx' = [tx EXCEPT ![c] = r]
        PROVE  tx'[c] = r /\ \A x \in Conn \ {c} : tx'[x] = tx[x]
    BY <1>1, <1>2
  <1>3. ASSUME NEW r, claim' = [claim EXCEPT ![c] = r]
        PROVE  claim'[c] = r /\ \A x \in Conn \ {c} : claim'[x] = claim[x]
    BY <1>1, <1>3
  <1>0. /\ StatusMovesOn /\ LocksOf(c)
        /\ \A x \in Conn \ {c} : tx[c].rows \cap tx[x].rows = {}
    BY RedisMoves DEF LocksHeld, Moves
  <1>4. tx[c].rows \cap LockedByOthers(c) = {}
    BY <1>0 DEF LockedByOthers
  <1>5. ASSUME UNCHANGED storeVars
        PROVE  Playing' = Playing /\ Inserted' = Inserted /\ Open' = Open /\ status' = status
    BY <1>5 DEF storeVars, rowVars, Playing, Inserted, Open
  <1>6. CASE RedisRead(c)
    <2>1. UNCHANGED <<storeVars, tx>> /\ claim[c].step = "read"
      BY <1>6 DEF RedisRead
    <2>2. claim'[c].toPreempt = claim[c].toPreempt /\ \A x \in Conn \ {c} : claim'[x] = claim[x]
      BY <1>1, <1>6 DEF RedisRead, SeeLimit, Claim
    <2>3. LocksOf(c)'
      BY <1>0, <1>5, <2>1, <2>2 DEF LocksOf
    <2> QED
      BY <1>0, <1>4, <1>5, <2>1, <2>2, <2>3, LocksKept
  <1>7. ASSUME NEW k, NEW v, Admitted(c, k, v), claim[c].step = "count"
        PROVE  LocksHeld'
    <2>1. UNCHANGED storeVars
      BY <1>7 DEF Admitted
    <2>2. claim'[c].toPreempt = claim[c].toPreempt /\ \A x \in Conn \ {c} : claim'[x] = claim[x]
      BY <1>1, <1>7 DEF Admitted, Claim
    <2>3. /\ tx'[c].rows = tx[c].rows /\ tx'[c].own = tx[c].own /\ tx'[c].stage = tx[c].stage
          /\ tx'[c].expired = tx[c].expired /\ \A x \in Conn \ {c} : tx'[x] = tx[x]
      BY <1>1, <1>7 DEF Admitted, Tx
    <2>4. LocksOf(c)'
      BY <1>0, <1>5, <1>7, <2>1, <2>2, <2>3 DEF LocksOf
    <2> QED
      BY <1>0, <1>4, <1>5, <2>1, <2>2, <2>3, <2>4, LocksKept
  <1>8. CASE AcquireNone(c)
    <2>1. UNCHANGED storeVars /\ claim[c].step = "count"
      BY <1>8 DEF AcquireNone
    <2>2. /\ claim'[c].toPreempt = claim[c].toPreempt /\ claim'[c].step = "grant"
          /\ \A x \in Conn \ {c} : claim'[x] = claim[x]
      BY <1>1, <1>8 DEF AcquireNone, Claim
    <2>3. /\ tx'[c].rows = tx[c].rows /\ tx'[c].own = tx[c].own /\ tx'[c].stage = "taken"
          /\ tx'[c].expired = tx[c].expired /\ \A x \in Conn \ {c} : tx'[x] = tx[x]
      BY <1>1, <1>8 DEF AcquireNone, Tx
    <2>4. LocksOf(c)'
      BY <1>0, <1>5, <2>1, <2>2, <2>3 DEF LocksOf
    <2> QED
      BY <1>0, <1>4, <1>5, <2>1, <2>2, <2>3, <2>4, LocksKept
  <1>9. CASE RedisChoose(c)
    <2> DEFINE V == {s \in Sid : status[s] = "PLAYING" /\ owner[s] = tx[c].victim}
    <2>1. UNCHANGED <<storeVars, tx>> /\ claim[c].step = "choose" /\ V \subseteq Inserted
      BY <1>9 DEF RedisChoose, Inserted
    <2>2. /\ claim'[c].toPreempt = V /\ claim'[c].step = "grant"
          /\ \A x \in Conn \ {c} : claim'[x] = claim[x]
      BY <1>1, <1>9 DEF RedisChoose, Claim
    <2> HIDE DEF V
    <2>3. LocksOf(c)'
      BY <1>0, <1>5, <2>1, <2>2 DEF LocksOf
    <2> QED
      BY <1>0, <1>4, <1>5, <2>1, <2>2, <2>3, LocksKept
  <1>10. CASE RedisInsert(c)
    <2> DEFINE ends == OwnOpen(c) \cup Preempted(c)
               r == [tx[c] EXCEPT !.stage = "inserted", !.own = OwnOpen(c), !.rows = ends]
    <2>1. /\ r.stage = "inserted" /\ r.own = OwnOpen(c) /\ r.rows = ends
          /\ r.expired = tx[c].expired
      BY <1>1, RowSets DEF Tx
    <2>2. tx' = [tx EXCEPT ![c] = r]
      BY <1>10 DEF RedisInsert
    <2> HIDE DEF r
    <2>3. /\ tx'[c] = r /\ (\A x \in Conn \ {c} : tx'[x] = tx[x]) /\ UNCHANGED <<claim, storeVars>>
          /\ claim[c].step = "grant" /\ ends \cap LockedByOthers(c) = {}
      BY <1>2, <1>10, <2>2 DEF RedisInsert, At
    <2>4. /\ OwnOpen(c) \subseteq Open /\ ends \subseteq Inserted
          /\ claim[c].toPreempt \cap Playing \subseteq ends
      BY <1>0 DEF OwnOpen, Preempted, Playing, Open, Inserted, LocksOf
    <2>5. LocksOf(c)'
      BY <1>0, <1>5, <2>1, <2>3, <2>4 DEF LocksOf
    <2> QED
      BY <1>0, <1>5, <2>1, <2>3, <2>5, LocksKept
  <1>11. CASE RedisGrant(c)
    <2>1. CommitGrant(c, tx[c].own) /\ At(c, "inserted")
      BY <1>11 DEF RedisGrant
    <2>2. tx[c].expired \subseteq Playing /\ tx[c].own \subseteq Open /\ claim[c].step = "grant"
      BY <1>0, <2>1 DEF LocksOf, At
    <2>3. PICK s \in Sid \ Inserted :
            \A t \in Sid : status'[t] = status[t] \/ t = s \/ t \in tx[c].expired \/ t \in tx[c].own
                              \/ t \in claim[c].toPreempt \cap Playing
      BY <2>1, <2>2, CommitMovesOn
    <2>4. LockedByOthers(c) \subseteq Inserted /\ Inserted \subseteq Sid
      BY DEF LocksHeld, LocksOf, LockedByOthers, Inserted
    <2>5. tx[c].expired \cup tx[c].own \cup (claim[c].toPreempt \cap Playing) \subseteq tx[c].rows
      BY <1>0, <2>1 DEF LocksOf, At
    <2>6. \A t \in LockedByOthers(c) : status'[t] = status[t]
      BY <1>4, <2>3, <2>4, <2>5
    <2>7. CASE Finish(c) /\ Over(c)
      BY <1>0, <2>6, <2>7, BackHoldsNone
    <2>8. CASE tx' = [tx EXCEPT ![c] = [NoTx EXCEPT !.stage = "committed"]] /\ UNCHANGED claim
      <3> DEFINE r == [NoTx EXCEPT !.stage = "committed"]
      <3>1. r.stage = "committed" /\ r.rows = {} /\ r.own = {} /\ r.expired = {}
        BY DEF NoTx
      <3>2. tx' = [tx EXCEPT ![c] = r]
        BY <2>8
      <3> HIDE DEF r
      <3>3. tx'[c] = r /\ \A x \in Conn \ {c} : tx'[x] = tx[x]
        BY <1>2, <3>2
      <3>4. LocksOf(c)'
        BY <1>0, <2>2, <2>8, <3>1, <3>3, MovesOnKeeps DEF LocksOf
      <3> QED
        BY <1>0, <2>6, <2>8, <3>1, <3>3, <3>4, LocksKept
    <2> QED
      BY <1>11, <2>7, <2>8 DEF RedisGrant
  <1>12. CASE RedisDeadlock(c)
    <2>1. UNCHANGED storeVars
      BY <1>12 DEF RedisDeadlock
    <2>2. CASE Finish(c) /\ Over(c)
      BY <1>0, <1>5, <2>1, <2>2, BackHoldsNone
    <2>3. CASE /\ claim' = [claim EXCEPT ![c].step = "choose", ![c].attempt = @ + 1,
                                         ![c].toPreempt = {}]
               /\ tx' = [tx EXCEPT ![c] = [NoTx EXCEPT !.victim = tx[c].victim]]
      <3> DEFINE r == [NoTx EXCEPT !.victim = tx[c].victim]
                 n == claim[c].attempt + 1
                 q == [claim[c] EXCEPT !.step = "choose", !.attempt = n, !.toPreempt = {}]
      <3>1. r.stage = "start" /\ r.rows = {} /\ r.own = {} /\ r.expired = {}
        BY DEF NoTx
      <3>2. tx' = [tx EXCEPT ![c] = r]
        BY <2>3
      <3>3. claim' = [claim EXCEPT ![c] = q]
        BY <2>3
      <3> HIDE DEF r, n
      <3>4. q.toPreempt = {}
        BY <1>1 DEF Claim
      <3> HIDE DEF q
      <3>5. /\ tx'[c] = r /\ \A x \in Conn \ {c} : tx'[x] = tx[x]
            /\ claim'[c] = q /\ \A x \in Conn \ {c} : claim'[x] = claim[x]
        BY <1>2, <1>3, <3>2, <3>3
      <3>6. LocksOf(c)'
        BY <3>1, <3>4, <3>5 DEF LocksOf
      <3> QED
        BY <1>0, <1>5, <2>1, <3>1, <3>5, <3>6, LocksKept
    <2> QED
      BY <1>12, <2>2, <2>3 DEF RedisDeadlock
  <1>13. CASE RedisReconcile(c)
    <2>1. PICK V \in SUBSET Others(c) : /\ V \cap LockedByOthers(c) = {} /\ Retire(V, "PREEMPTED")
                                        /\ Finish(c) /\ Over(c)
      BY <1>13, Zenon DEF RedisReconcile
    <2>2. LockedByOthers(c) \subseteq Sid
      BY DEF LocksHeld, LocksOf, LockedByOthers, Inserted
    <2>3. \A s \in LockedByOthers(c) : status'[s] = status[s]
      BY <2>1, <2>2 DEF Retire
    <2> QED
      BY <1>0, <2>1, <2>3, BackHoldsNone
  <1>14. CASE RedisDuplicate(c) \/ RefusedReject(c)
    <2>1. Finish(c) /\ Over(c) /\ status' = status
      BY <1>14 DEF RedisDuplicate, Duplicate, DuplicateRollback, RefusedReject, RejectCommit, Reject,
                   rowVars
    <2> QED
      BY <1>0, <2>1, BackHoldsNone
  <1> QED
    BY <1>6, <1>7, <1>8, <1>9, <1>10, <1>11, <1>12, <1>13, <1>14
    DEF RedisStep, AcquireOwn, AcquireFree, AcquireSteal
-----------------------------------------------------------------------------
(* The rest of the service, and the claims that begin or break off. *)
LEMMA AloneHolds ==
  ASSUME Types, LocksHeld, StatusMovesOn, UNCHANGED <<claim, tx>>,
         \A s \in UNION {tx[c].rows : c \in Conn} : status'[s] = status[s]
  PROVE  LocksHeld'
  <1>1. ASSUME NEW c \in Conn
        PROVE  LocksOf(c)'
    <2>1. \A s \in tx[c].rows : status'[s] = status[s]
      OBVIOUS
    <2>2. tx[c].rows \cap Playing \subseteq Playing' /\ tx[c].rows \cap Open \subseteq Open'
      BY <2>1 DEF Playing, Open
    <2>3. LocksOf(c)
      BY DEF LocksHeld
    <2>4. claim[c].toPreempt \cap Playing' \subseteq Playing
      BY <2>3, MovesOnKeeps DEF LocksOf
    <2> QED
      BY <2>2, <2>3, <2>4, MovesOnKeeps DEF LocksOf
  <1> QED
    BY <1>1 DEF LocksHeld

LEMMA StartsHold ==
  ASSUME Types, TxTypes, LocksHeld, Starts, UNCHANGED tx
  PROVE  LocksHeld'
  <1>1. UNCHANGED status
    BY DEF Starts, ClaimStart, ClaimReplay, storeVars, rowVars
  <1>2. StatusMovesOn
    BY <1>1, SameStatusMovesOn
  <1>3. ASSUME NEW c \in Conn, NEW d \in Device, NEW id \in RequestId \cup {NoRequestId},
               NEW mode \in Modes, ClaimStart(c, d, id, mode)
        PROVE  LocksHeld'
    <2> DEFINE r == [NoClaim EXCEPT !.step = "read", !.device = d, !.id = id, !.mode = mode]
    <2>1. r.toPreempt = {} /\ claim \in [Conn -> Claim]
      BY DEF NoClaim, Types, TypeInv, TypeOK
    <2>2. claim' = [claim EXCEPT ![c] = r] /\ claim[c].step = "idle"
      BY <1>3 DEF ClaimStart
    <2> HIDE DEF r
    <2>3. claim'[c].toPreempt = {} /\ \A x \in Conn \ {c} : claim'[x] = claim[x]
      BY <2>1, <2>2
    <2>4. LocksOf(c) /\ \A x \in Conn \ {c} : tx[c].rows \cap tx[x].rows = {}
      BY DEF LocksHeld
    <2>5. Playing' = Playing /\ Open' = Open /\ Inserted' = Inserted
      BY <1>1 DEF Playing, Open, Inserted
    <2>6. LocksOf(c)'
      BY <2>2, <2>3, <2>4, <2>5 DEF LocksOf
    <2> QED
      BY <1>1, <1>2, <2>3, <2>4, <2>6, LocksKept DEF LockedByOthers
  <1>4. CASE UNCHANGED claim
    BY <1>1, <1>2, <1>4, AloneHolds
  <1> QED
    BY <1>3, <1>4 DEF Starts, ClaimReplay

LEMMA NextLocks ==
  ASSUME StrategyTypes, LocksInv, [StrategiesNext]_strategyVars
  PROVE  LocksInv'
  <1>1. Types /\ TxTypes /\ strategy' = strategy
    BY SameStrategy DEF StrategyTypes
  <1>2. StatusMovesOn
    BY NextMoves DEF Moves
  <1>3. CASE Starts /\ UNCHANGED <<strategy, tx, slots, calls>>
    BY <1>1, <1>3, StartsHold DEF LocksInv
  <1>4. ASSUME NEW c \in Conn, ClaimSteps(c)
        PROVE  LocksInv'
    <2>1. CASE strategy = "CONSTRAINT"
      BY <1>1, <1>4, <2>1, UniqueHolds DEF LocksInv, Locking, ClaimSteps, SqlStep
    <2>2. CASE strategy = "REDIS_LEASE"
      BY <1>1, <1>4, <2>2, RedisHolds, RedisExpiresNone
      DEF LocksInv, Locking, ClaimSteps, SqlStep, NoneExpired
    <2>3. CASE strategy \notin Locking
      BY <1>1, <1>4, <2>3, SqlExpiresNone DEF LocksInv, Locking, ClaimSteps, SqlStep, NoneExpired
    <2> QED
      BY <2>1, <2>2, <2>3 DEF Locking
  <1>5. ASSUME NEW c \in Conn, GivesUp(c)
        PROVE  LocksInv'
    <2>1. Finish(c) /\ Over(c) /\ status' = status
      BY <1>5 DEF GivesUp, Dies, ClaimAbort, RedisFails, storeVars, rowVars
    <2> QED
      BY <1>1, <1>2, <2>1, BackHoldsNone, OverExpiresNone DEF LocksInv, NoneExpired
  <1>6. CASE Serve
    <2>1. UNCHANGED <<claim, tx>> /\ \A s \in UNION {tx[c].rows : c \in Conn} : status'[s] = status[s]
      BY <1>6 DEF Serve, Waits
    <2> QED
      BY <1>1, <1>2, <2>1, AloneHolds DEF LocksInv
  <1>7. CASE HookStep \/ HookLost \/ UNCHANGED strategyVars
    <2>1. UNCHANGED <<claim, tx, status>>
      BY <1>7 DEF HookStep, HookLost, strategyVars, redisVars, txVars, vars, storeVars, rowVars
    <2> QED
      BY <1>1, <1>2, <2>1, AloneHolds DEF LocksInv
  <1> QED
    BY <1>3, <1>4, <1>5, <1>6, <1>7 DEF StrategiesNext

LEMMA InitLocks == StrategiesInit => LocksInv
  <1> SUFFICES ASSUME StrategiesInit PROVE LocksInv
    OBVIOUS
  <1>1. \A c \in Conn : claim[c] = NoClaim /\ tx[c] = NoTx
    BY DEF StrategiesInit, TxInit, Init
  <1> QED
    BY <1>1 DEF LocksInv, LocksHeld, LocksOf, NoClaim, NoTx

(* What a claim under CONSTRAINT or REDIS_LEASE read it has locked, and    *)
(* what it has locked nobody else locks, changes or ends.                  *)
THEOREM StrategiesLocksHold == StrategiesSpec => []LocksInv
  <1>1. StrategyTypes /\ LocksInv /\ [StrategiesNext]_strategyVars => StrategyTypes' /\ LocksInv'
    BY NextTypes, NextLocks
  <1> QED
    BY <1>1, InitStrategyTypes, InitLocks, PTL DEF StrategiesSpec

(* Whatever the strategy, NAIVE included, a session that stopped never     *)
(* plays again.                                                            *)
THEOREM StrategiesNeverRevive == StrategiesSpec => NeverRevived
  <1>1. StrategyTypes /\ LocksInv /\ [StrategiesNext]_strategyVars => StrategyTypes' /\ LocksInv'
    BY NextTypes, NextLocks
  <1>2. StrategyTypes /\ LocksInv /\ [StrategiesNext]_strategyVars =>
          [\A s \in Inserted : s \notin Active => s \notin Active']_storeVars
    BY NextMoves DEF Moves, Comes, Goes
  <1> QED
    BY <1>1, <1>2, InitStrategyTypes, InitLocks, PTL DEF StrategiesSpec, NeverRevived

(* ... and its history is final: ended, preempted or expired once, a       *)
(* session stays what it is, although a commit writes what the claim chose *)
(* statements ago.                                                         *)
THEOREM StrategiesFinalStatuses == StrategiesSpec => FinalStatusesFinal
  <1>1. StrategyTypes /\ LocksInv /\ [StrategiesNext]_strategyVars => StrategyTypes' /\ LocksInv'
    BY NextTypes, NextLocks
  <1>2. StrategyTypes /\ LocksInv /\ [StrategiesNext]_strategyVars =>
          [\A s \in Sid :
             /\ status[s] \in {"ENDED", "PREEMPTED", "EXPIRED"} => status'[s] = status[s]
             /\ status[s] = "PAUSED" => status'[s] \in {"PAUSED", "ENDED"}]_storeVars
    BY NextMoves DEF Moves, StatusMovesOn
  <1> QED
    BY <1>1, <1>2, InitStrategyTypes, InitLocks, PTL DEF StrategiesSpec, FinalStatusesFinal
-----------------------------------------------------------------------------
(* SERIALIZABLE and CONSTRAINT implement the promise about one account. *)
LEMMA SameLimit ==
  ASSUME Types, [StrategiesNext]_strategyVars
  PROVE  maxStreams' = maxStreams
  <1>1. ASSUME NEW c \in Conn, ClaimSteps(c)
        PROVE  maxStreams' = maxStreams
    <2>1. CASE CountActive(c) \/ OldestActive(c) \/ RejectCommit(c) \/ Duplicate(c) \/ RollbackRetry(c)
                 \/ \E own : CommitGrant(c, own)
      BY <2>1 DEF CountActive, OldestActive, RejectCommit, Reject, Duplicate, DuplicateRollback,
                  RollbackRetry, CommitGrant, storeVars, accountVars
    <2>2. ASSUME UNCHANGED storeVars PROVE maxStreams' = maxStreams
      BY <2>2 DEF storeVars, accountVars
    <2>3. CASE NaiveStep(c)
      BY <2>1, <2>2, <2>3
      DEF NaiveStep, NaiveRead, NaiveChoose, NaiveReject, NaivePreempt, NaiveEndOwn, NaiveInsert,
          NaiveBump, NaiveEvent, accountVars
    <2>4. CASE TxnStep(c)
      BY <2>1, <2>2, <2>4 DEF TxnStep, TxnSnapshot, TxnReject, TxnGrant, TxnDeadlock
    <2>5. CASE SerialStep(c)
      BY <2>1, <2>2, <2>5
      DEF SerialStep, SerialRead, SerialCount, SerialChoose, SerialReject, SerialGrant, SerialDeadlock
    <2>6. CASE UniqueStep(c)
      BY <2>1, <2>2, <2>6
      DEF UniqueStep, UniqueExpire, UniqueChoose, UniqueEnds, UniqueInsert, UniqueTaken,
          UniqueCommit, UniqueDeadlock, RefusedReject
    <2>7. CASE TriggerStep(c)
      BY <2>1, <2>2, <2>7
      DEF TriggerStep, TriggerStart, TriggerChoose, TriggerCount, TriggerSignals, TriggerInsert,
          TriggerCommit, TriggerDeadlock, RefusedReject
    <2>8. CASE RedisStep(c)
      BY <2>1, <2>2, <2>8
      DEF RedisStep, RedisRead, AcquireOwn, AcquireFree, AcquireSteal, AcquireNone, Admitted,
          RedisChoose, RedisInsert, RedisGrant, RedisDuplicate, RedisDeadlock, RedisReconcile,
          RefusedReject
    <2> QED
      BY <1>1, <2>3, <2>4, <2>5, <2>6, <2>7, <2>8 DEF ClaimSteps, SqlStep
  <1>2. Serve => maxStreams' = maxStreams
    BY ServeKinds
  <1> QED
    BY <1>1, <1>2
    DEF StrategiesNext, Starts, ClaimStart, ClaimReplay, GivesUp, Dies, ClaimAbort, RedisFails,
        HookStep, HookLost, strategyVars, redisVars, txVars, vars, storeVars, accountVars

LEMMA MovesImplement ==
  ASSUME Types, Moves, maxStreams' = maxStreams, LimitRespected'
  PROVE  [Promise!Next]_(Promise!abstractVars)
  <1> DEFINE out == Active \ Active'
  <1>1. Active \subseteq Inserted /\ Active' \subseteq Inserted'
    BY DEF Active, Inserted
  <1>2. CASE Goes
    <2>1. /\ out \in SUBSET Active /\ Active' = Active \ out
          /\ Inserted' \ Active' = (Inserted \ Active) \cup out
      BY <1>1, <1>2 DEF Goes
    <2>2. Promise!Leave(out)
      BY <2>1 DEF Promise!Leave
    <2> QED
      BY <2>1, <2>2 DEF Promise!Next
  <1>3. CASE Comes
    <2>1. PICK s \in Sid \ Inserted :
            Inserted' = Inserted \cup {s} /\ s \in Active' /\ Active' \ {s} \subseteq Active
      BY <1>3 DEF Comes
    <2>2. /\ s \notin Active \cup (Inserted \ Active)
          /\ out \in SUBSET Active /\ Active' = (Active \ out) \cup {s}
          /\ Inserted' \ Active' = (Inserted \ Active) \cup out
      BY <1>1, <2>1
    <2>3. Promise!Admit(s, out)
      BY <2>1, <2>2, PromiseCardinality DEF Promise!Admit, LimitRespected
    <2> QED
      BY <2>2, <2>3 DEF Promise!Next
  <1> QED
    BY <1>2, <1>3 DEF Moves

(* serializable.ts, constraint.ts: an account whose claims all use         *)
(* SERIALIZABLE, or all CONSTRAINT, behaves as StreamLimit says, as it     *)
(* does under PESSIMISTIC and OPTIMISTIC.                                  *)
THEOREM GuardedKeepsPromise ==
  StrategiesSpec /\ strategy \in {"SERIALIZABLE", "CONSTRAINT"} => PromiseKept
  <1> DEFINE Inv == GuardInv /\ LocksInv /\ strategy \in {"SERIALIZABLE", "CONSTRAINT"}
  <1>1. Inv /\ [StrategiesNext]_strategyVars => Inv'
    BY NextTypes, SameStrategy, NextKeepsSerial, NextKeepsUnique, NextLocks DEF GuardInv
  <1>2. Inv => StrategyTypes /\ LocksInv /\ Types /\ LimitRespected
    BY UniqueKeepsLimit DEF GuardInv, SerialInv, StrategyTypes
  <1>3. Inv /\ LimitRespected' /\ [StrategiesNext]_strategyVars => [Promise!Next]_(Promise!abstractVars)
    <2> HIDE DEF Inv
    <2> QED
      BY <1>2, NextMoves, SameLimit, MovesImplement
  <1>4. StrategiesInit /\ strategy \in {"SERIALIZABLE", "CONSTRAINT"} => Inv /\ Promise!Init
    BY InitGuard, InitLocks, InitImplements DEF StrategiesInit, TxInit
  <1> HIDE DEF Inv
  <1> QED
    BY <1>1, <1>2, <1>3, <1>4, PTL DEF StrategiesSpec, PromiseKept, Promise!Spec
-----------------------------------------------------------------------------
(* OPTIMISTIC by itself: the version check alone keeps the limit, whatever *)
(* the account lock is used for.  (Types, Shrinks and the other lemmas of  *)
(* ClaimServiceProofs are what it shares with the strategies above.)       *)

LEMMA OptimisticNextTypes == Types /\ [Next]_vars => Types'
  <1> SUFFICES ASSUME Types, [Next]_vars PROVE Types'
    OBVIOUS
  <1>0. TypeInv /\ TypeOK /\ StoreTypeOK /\ Named
    BY DEF Types, TypeInv, TypeOK
  <1>1. CASE Around
    BY <1>0, <1>1, AroundType DEF Types
  <1>2. ASSUME NEW c \in Conn, ReadAccount(c) \/ ClaimConflict(c)
        PROVE  Types'
    <2>1. StoreTypeOK' /\ (lock' = Settings => newLimit' \in Limits)
      BY <1>0, <1>2
      DEF ReadAccount, ClaimConflict, StoreTypeOK, storeVars, rowVars, accountVars, TypeInv
    <2>2. claim' \in [Conn -> Claim] /\ Named'
      BY <1>0, <1>2, SeeAccountType, RetryType, NamedStep DEF ReadAccount, ClaimConflict
    <2> QED
      BY <2>1, <2>2 DEF Types, TypeInv, TypeOK
  <1>3. ASSUME NEW c \in Conn, CountActive(c) \/ OldestActive(c)
        PROVE  Types'
    <2>1. TypeOK' /\ Named'
      BY <1>0, <1>3, ChoiceType, NamedStep
    <2> QED
      BY <1>0, <1>3, <2>1 DEF Types, TypeInv, CountActive, OldestActive, storeVars, accountVars
  <1>4. ASSUME NEW c \in Conn, ClaimReject(c) \/ ClaimGrant(c) \/ ClaimDuplicate(c)
        PROVE  Types'
    <2>1. Finish(c) /\ lock' = lock /\ newLimit' = newLimit /\ claim[c].step # "idle"
      BY <1>4 DEF ClaimReject, ClaimGrant, ClaimDuplicate, Rejects, Validated, RejectCommit,
                  Reject, GrantCommit, Grant, DuplicateRollback
    <2>2. claim' \in [Conn -> Claim] /\ Named'
      BY <1>0, <2>1, FinishType, NamedStep
    <2>3. StoreTypeOK'
      <3>0. lock' \in Conn \cup {Free, Settings}
        BY <1>0, <2>1 DEF StoreTypeOK
      <3>1. CASE ClaimReject(c)
        BY <1>0, <2>1, <3>0, <3>1, ClaimFacts, RejectType DEF ClaimReject, RejectCommit
      <3>2. CASE ClaimGrant(c)
        BY <1>0, <2>1, <3>0, <3>2, ClaimFacts, GrantType DEF ClaimGrant, GrantCommit
      <3>3. CASE ClaimDuplicate(c)
        BY <1>0, <2>1, <3>3
        DEF ClaimDuplicate, DuplicateRollback, Prior, PriorOutcome, StoreTypeOK, rowVars
      <3> QED
        BY <1>4, <3>1, <3>2, <3>3
    <2> QED
      BY <1>0, <2>1, <2>2, <2>3 DEF Types, TypeInv, TypeOK
  <1>5. CASE UNCHANGED vars
    BY <1>5 DEF vars, storeVars, rowVars, accountVars, Types, TypeInv, TypeOK, StoreTypeOK, Named
  <1> QED
    BY <1>1, <1>2, <1>3, <1>4, <1>5 DEF Next, ClaimStep

(* Every variable keeps its type under OPTIMISTIC, for every clock skew. *)
THEOREM OptimisticTypes == Spec => []TypeOK
  <1>1. Types => TypeOK
    BY DEF Types, TypeInv
  <1> QED
    BY <1>1, InitTypes, OptimisticNextTypes, PTL DEF Spec
-----------------------------------------------------------------------------
(* The stream limit: LimitInv is inductive.                                *)

LEMMA InitLimit == Init => LimitInv
  <1> SUFFICES ASSUME Init PROVE LimitInv
    OBVIOUS
  <1>1. Active = {}
    BY DEF Init, StoreInit, Active
  <1>2. maxStreams \in Limits /\ Cardinality({}) = 0
    BY FS_EmptySet DEF Init, StoreInit
  <1>3. LimitRespected
    BY <1>1, <1>2, LimitsNat DEF LimitRespected
  <1>4. VersionsPast /\ ReadStillValid /\ SettingsHolds
    BY StoreAssumption
    DEF Init, StoreInit, NoClaim, VersionsPast, ReadStillValid, RoomMade, SettingsHolds,
        StoreAssumption
  <1> QED
    BY <1>3, <1>4 DEF LimitInv

(* What a step may do to the claims: leave a claim alone, or put it where  *)
(* it has read nothing yet. *)
Forgets(c) == claim'[c].step \in {"idle", "read"} /\ claim'[c].seenVersion = 0

LEMMA VersionNat ==
  ASSUME Types
  PROVE  version \in Nat /\ \A c \in Conn : claim[c].seenVersion \in Nat
  BY DEF Types, TypeInv, TypeOK, StoreTypeOK, Claim

(* No session starts and the limit stays: the version may grow. *)
LEMMA ShrinkingStep ==
  ASSUME Types, LimitInv, Shrinks, maxStreams' = maxStreams,
         version' \in {version, version + 1},
         \A c \in Conn : claim'[c] = claim[c] \/ Forgets(c),
         UNCHANGED <<lock, newLimit>>
  PROVE  LimitInv'
  <1>0. version \in Nat /\ (\A c \in Conn : claim[c].seenVersion \in Nat)
    BY VersionNat
  <1>1. LimitRespected'
    BY ShrinkKeepsLimit DEF Types, TypeInv, TypeOK, StoreTypeOK, LimitInv, LimitRespected
  <1>2. VersionsPast'
    BY <1>0 DEF LimitInv, VersionsPast, Forgets
  <1>3. ASSUME NEW c \in Conn, claim'[c].seenVersion = version'
        PROVE  RoomMade(c)'
    <2>1. CASE Forgets(c)
      BY <2>1 DEF Forgets, RoomMade
    <2>2. CASE claim'[c] = claim[c]
      <3>1. claim[c].seenVersion = version
        BY <1>0, <1>3, <2>2 DEF LimitInv, VersionsPast
      <3> QED
        BY <2>2, <3>1, RoomKept DEF LimitInv, ReadStillValid
    <2> QED
      BY <2>1, <2>2
  <1>4. SettingsHolds'
    BY ShrinkKeepsLimit DEF Types, TypeInv, LimitInv, SettingsHolds
  <1> QED
    BY <1>1, <1>2, <1>3, <1>4 DEF LimitInv, ReadStillValid

(* The version grows, so nothing any claim has read counts any more. *)
LEMMA BumpingStep ==
  ASSUME Types, LimitInv, Bump, LimitRespected', SettingsHolds',
         \A c \in Conn : claim'[c] = claim[c] \/ Forgets(c)
  PROVE  LimitInv'
  <1>0. version \in Nat /\ \A c \in Conn : claim[c].seenVersion \in Nat
    BY VersionNat
  <1>1. \A c \in Conn : claim'[c].seenVersion < version'
    BY <1>0 DEF LimitInv, VersionsPast, Bump, Forgets
  <1>2. version' \in Nat /\ \A c \in Conn : claim'[c].seenVersion \in Nat
    BY <1>0 DEF Bump, Forgets
  <1>3. VersionsPast' /\ ReadStillValid'
    BY <1>1, <1>2 DEF VersionsPast, ReadStillValid
  <1> QED
    BY <1>3 DEF LimitInv

LEMMA StoreKeepsLimit ==
  ASSUME ClockAssumption, Types, LimitInv, StoreNext, UNCHANGED claim
  PROVE  LimitInv'
  <1>0. StoreTypeOK /\ Shrinks /\ \A c \in Conn : claim'[c] = claim[c]
    BY StoreNextShrinks DEF Types, TypeInv, TypeOK
  <1>1. ASSUME NEW m \in Limits, SettingsCount(m)
        PROVE  LimitInv'
    <2>1. /\ lock' = Settings /\ newLimit' = m
          /\ UNCHANGED <<maxStreams, version>> /\ Active' = Active /\ Cardinality(Active) <= m
      BY <1>1 DEF SettingsCount, rowVars, Active
    <2>2. SettingsHolds'
      BY <2>1, LimitsNat DEF SettingsHolds
    <2>3. VersionsPast' /\ LimitRespected'
      BY <1>0, <2>1 DEF LimitInv, VersionsPast, LimitRespected
    <2>4. ReadStillValid'
      BY <1>0, <2>1, RoomKept DEF LimitInv, ReadStillValid
    <2> QED
      BY <2>2, <2>3, <2>4 DEF LimitInv
  <1>2. CASE SettingsCommit
    <2>1. /\ lock = Settings /\ lock' = Free /\ newLimit' = 0 /\ Active' = Active
          /\ maxStreams' = newLimit /\ Bump
      BY <1>2 DEF SettingsCommit, rowVars, Active
    <2>2. LimitRespected'
      BY <2>1 DEF LimitInv, LimitRespected, SettingsHolds
    <2>3. SettingsHolds'
      BY <2>1, StoreAssumption DEF SettingsHolds, StoreAssumption
    <2> QED
      BY <1>0, <2>1, <2>2, <2>3, BumpingStep
  <1>3. CASE SettingsAbort
    <2>1. /\ lock' = Free /\ newLimit' = 0 /\ Active' = Active
          /\ UNCHANGED <<maxStreams, version>>
      BY <1>3 DEF SettingsAbort, rowVars, Active
    <2>2. SettingsHolds'
      BY <2>1, StoreAssumption DEF SettingsHolds, StoreAssumption
    <2>3. VersionsPast' /\ LimitRespected'
      BY <1>0, <2>1 DEF LimitInv, VersionsPast, LimitRespected
    <2>4. ReadStillValid'
      BY <1>0, <2>1, RoomKept DEF LimitInv, ReadStillValid
    <2> QED
      BY <2>2, <2>3, <2>4 DEF LimitInv
  <1>4. CASE UNCHANGED <<maxStreams, lock, newLimit>> /\ version' \in {version, version + 1}
    BY <1>0, <1>4, ShrinkingStep
  <1> QED
    BY <1>1, <1>2, <1>3, <1>4
    DEF StoreNext, HeartbeatStart, HeartbeatCommit, HeartbeatLost, Pause, Release, EndAll,
        Reap, Tick, Bump, accountVars

LEMMA NextLimit ==
  ASSUME ClockAssumption, Types, LimitInv, [Next]_vars
  PROVE  LimitInv'
  <1>0. TypeOK /\ StoreTypeOK /\ claim \in [Conn -> Claim]
    BY DEF Types, TypeInv, TypeOK
  <1> DEFINE Alone == \A c \in Conn : claim'[c] = claim[c] \/ Forgets(c)
  <1>1. ASSUME NEW c \in Conn, NEW r, claim' = [claim EXCEPT ![c] = r],
               r.step \in {"idle", "read"} /\ r.seenVersion = 0
        PROVE  Alone
    BY <1>0, <1>1 DEF Forgets
  <1>2. ASSUME NEW c \in Conn, Finish(c)
        PROVE  Alone
    <2>1. NoClaim.step = "idle" /\ NoClaim.seenVersion = 0
      BY DEF NoClaim
    <2> QED
      BY <1>1, <1>2, <2>1 DEF Finish
  <1>3. ASSUME NEW c \in Conn, NEW d \in Device, NEW id \in RequestId \cup {NoRequestId},
               NEW mode \in Modes, ClaimStart(c, d, id, mode)
        PROVE  LimitInv'
    <2> DEFINE r == [NoClaim EXCEPT !.step = "read", !.device = d, !.id = id, !.mode = mode]
    <2>1. r.step = "read" /\ r.seenVersion = 0
      BY DEF NoClaim
    <2>2. Alone
      BY <1>1, <1>3, <2>1 DEF ClaimStart
    <2> QED
      BY <1>3, <2>2, SameStoreShrinks, ShrinkingStep DEF ClaimStart, storeVars, accountVars
  <1>4. ASSUME NEW d \in Device, NEW id \in RequestId, ClaimReplay(d, id)
        PROVE  LimitInv'
    BY <1>4, SameStoreShrinks, ShrinkingStep DEF ClaimReplay, accountVars
  <1>5. ASSUME NEW c \in Conn, ClaimAbort(c)
        PROVE  LimitInv'
    <2>1. lock # c
      BY StoreAssumption DEF LimitInv, SettingsHolds, StoreAssumption
    <2>2. Alone
      BY <1>2, <1>5 DEF ClaimAbort
    <2> QED
      BY <1>5, <2>1, <2>2, SameStoreShrinks, ShrinkingStep DEF ClaimAbort
  <1>6. CASE StoreNext /\ UNCHANGED claim
    BY <1>6, StoreKeepsLimit
  <1>7. ASSUME NEW c \in Conn, ReadAccount(c) \/ CountActive(c) \/ OldestActive(c)
        PROVE  LimitInv'
    <2>1. UNCHANGED storeVars /\ Active' = Active /\ Shrinks /\ \A d \in Conn \ {c} : claim'[d] = claim[d]
      BY <1>0, <1>7, SameStoreShrinks
      DEF ReadAccount, SeeAccount, CountActive, OldestActive, storeVars, rowVars, Active
    <2>2. \/ ReadAccount(c) /\ claim'[c].seenVersion = version
          \/ /\ CountActive(c) \/ OldestActive(c)
             /\ claim'[c].seenVersion = claim[c].seenVersion
      <3>1. CASE ReadAccount(c)
        BY <1>0, <3>1 DEF ReadAccount, SeeAccount, Claim
      <3>2. CASE CountActive(c)
        BY <1>0, <3>2 DEF CountActive, Claim
      <3>3. CASE OldestActive(c)
        <4>1. PICK V : claim' = [claim EXCEPT ![c] =
                                  [claim[c] EXCEPT !.step = "grant", !.toPreempt = V]]
          BY <3>3 DEF OldestActive
        <4> QED
          BY <1>0, <3>3, <4>1 DEF Claim
      <3> QED
        BY <1>7, <3>1, <3>2, <3>3
    <2>3. VersionsPast'
      BY <2>1, <2>2, VersionNat DEF LimitInv, VersionsPast, storeVars, accountVars
    <2>4. claim'[c].seenVersion = version' => RoomMade(c)'
      <3>1. CASE ReadAccount(c)
        BY <2>1, <3>1, RoomSeen DEF ReadAccount, storeVars, accountVars
      <3>2. CASE /\ CountActive(c) \/ OldestActive(c)
                 /\ claim'[c].seenVersion = claim[c].seenVersion
        BY <2>1, <3>2, RoomChosen DEF LimitInv, ReadStillValid, storeVars, accountVars
      <3> QED
        BY <2>2, <3>1, <3>2
    <2>5. \A d \in Conn \ {c} : claim'[d].seenVersion = version' => RoomMade(d)'
      BY <2>1, RoomKept DEF LimitInv, ReadStillValid, storeVars, accountVars
    <2>6. LimitRespected' /\ SettingsHolds'
      BY <2>1 DEF LimitInv, LimitRespected, SettingsHolds, storeVars, accountVars
    <2> QED
      BY <2>3, <2>4, <2>5, <2>6 DEF LimitInv, ReadStillValid
  <1>8. ASSUME NEW c \in Conn, ClaimReject(c) \/ ClaimDuplicate(c)
        PROVE  LimitInv'
    <2>1. Finish(c) /\ UNCHANGED rowVars /\ UNCHANGED <<maxStreams, newLimit, version, lock>>
      BY <1>8 DEF ClaimReject, ClaimDuplicate, RejectCommit, Reject, DuplicateRollback
    <2>2. Alone
      BY <1>2, <2>1
    <2> QED
      BY <2>1, <2>2, SameStoreShrinks, ShrinkingStep
  <1>9. ASSUME NEW c \in Conn, ClaimConflict(c)
        PROVE  LimitInv'
    <2> DEFINE r == [NoClaim EXCEPT !.step = "read", !.device = claim[c].device,
                       !.id = claim[c].id, !.mode = claim[c].mode,
                       !.attempt = claim[c].attempt + 1]
    <2>1. /\ r.step = "read" /\ r.seenVersion = 0
          /\ NoClaim.step = "idle" /\ NoClaim.seenVersion = 0
      BY DEF NoClaim
    <2>2. claim' = [claim EXCEPT ![c] = NoClaim] \/ claim' = [claim EXCEPT ![c] = r]
      BY <1>9 DEF ClaimConflict, Retry
    <2>3. Alone
      BY <1>1, <2>1, <2>2
    <2> QED
      BY <1>9, <2>3, SameStoreShrinks, ShrinkingStep DEF ClaimConflict, storeVars, accountVars
  <1>10. ASSUME NEW c \in Conn, ClaimGrant(c)
         PROVE  LimitInv'
    <2>1. /\ claim[c].step = "grant" /\ claim[c].seenVersion = version /\ lock = Free
          /\ GrantCommit(c) /\ Finish(c) /\ Bump
          /\ UNCHANGED <<lock, newLimit>>
      BY <1>10 DEF ClaimGrant, Validated, GrantCommit, Grant
    <2>2. LimitRespected'
      BY <2>1, RoomForGrant DEF LimitInv, ReadStillValid
    <2>3. SettingsHolds'
      BY <2>1, StoreAssumption DEF LimitInv, SettingsHolds, StoreAssumption
    <2>4. Alone
      BY <1>2, <2>1
    <2> QED
      BY <2>1, <2>2, <2>3, <2>4, BumpingStep
  <1>11. CASE UNCHANGED vars
    BY <1>11, SameStoreShrinks, ShrinkingStep DEF vars, storeVars, accountVars
  <1> QED
    BY <1>3, <1>4, <1>5, <1>6, <1>7, <1>8, <1>9, <1>10, <1>11 DEF Next, Around, ClaimStep

(* Under OPTIMISTIC the version check keeps the limit for every number of  *)
(* devices, claims and sessions when a heartbeat commits in the tick of    *)
(* its NOW(3).                                                             *)
THEOREM OptimisticLimit ==
  ASSUME ClockAssumption
  PROVE  Spec => []LimitInv
  <1>1. Types /\ LimitInv /\ [Next]_vars => Types' /\ LimitInv'
    BY OptimisticNextTypes, NextLimit
  <1> QED
    BY <1>1, InitTypes, InitLimit, PTL DEF Spec

(* The limit itself. *)
THEOREM OptimisticLimitRespected ==
  ASSUME ClockAssumption
  PROVE  Spec => []LimitRespected
  <1>1. LimitInv => LimitRespected
    BY DEF LimitInv
  <1> QED
    BY <1>1, OptimisticLimit, PTL
-----------------------------------------------------------------------------
LEMMA NextKinds ==
  ASSUME ClockAssumption, Types, [Next]_vars
  PROVE  StepKinds
  <1>1. CASE Around
    BY <1>1, AroundKinds
  <1>2. ASSUME NEW c \in Conn, ClaimGrant(c)
        PROVE  StepKinds
    BY <1>2 DEF ClaimGrant, Validated, StepKinds
  <1>3. CASE UNCHANGED rowVars /\ maxStreams' = maxStreams
    BY <1>3, SameStoreShrinks DEF StepKinds
  <1> QED
    BY <1>1, <1>2, <1>3
    DEF Next, ClaimStep, ReadAccount, CountActive, OldestActive, ClaimReject, RejectCommit,
        Reject, ClaimDuplicate, DuplicateRollback, ClaimConflict, vars, storeVars, accountVars

(* OPTIMISTIC implements the abstract promise StreamLimit. *)
THEOREM OptimisticKeepsPromise ==
  ASSUME ClockAssumption
  PROVE  Spec => PromiseKept
  <1>1. Types /\ LimitInv /\ LimitInv' /\ [Next]_vars => [Promise!Next]_(Promise!abstractVars)
    <2> SUFFICES ASSUME Types, LimitInv', [Next]_vars
                 PROVE  [Promise!Next]_(Promise!abstractVars)
      OBVIOUS
    <2>1. LimitRespected'
      BY DEF LimitInv
    <2> QED
      BY <2>1, NextKinds, KindsImplement
  <1>2. Types /\ LimitInv /\ [Next]_vars => Types' /\ LimitInv'
    BY OptimisticNextTypes, NextLimit
  <1> QED
    BY <1>1, <1>2, InitTypes, InitLimit, InitImplements, PTL DEF Spec, PromiseKept, Promise!Spec
=============================================================================
