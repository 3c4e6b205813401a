------------------------ MODULE ClaimServiceProofs ------------------------
(***************************************************************************)
(* Facts about the account's tables and the claims on them that hold under *)
(* any strategy: what the common steps preserve, that they only shrink the *)
(* active set, and what a grant does to it.                                *)
(***************************************************************************)
EXTENDS ClaimService, FiniteSetTheorems, TLAPS

(* TypeOK is inductive once the limit a settings transaction is about to   *)
(* write is known to be one.                                               *)
TypeInv == TypeOK /\ (lock = Settings => newLimit \in Limits)

(* No session starts: what a step other than a grant does to the rows. *)
Shrinks ==
  /\ Active' \subseteq Active
  /\ Open' \subseteq Open
  /\ Inserted' = Inserted
  /\ owner' = owner

(* Heartbeats are visible in the tick of their NOW(3). *)
ClockAssumption == Skew = 0
-----------------------------------------------------------------------------
(* Constants. *)

LEMMA LeaseRange ==
  /\ -Skew \in (-Skew)..LeaseTicks
  /\ LeaseTicks \in (-Skew)..LeaseTicks
  /\ NoBeat \in NoBeat..Skew
  /\ 0 \in NoBeat..Skew
  BY StoreAssumption DEF StoreAssumption, NoBeat

LEMMA LimitsNat == \A m \in Limits : m \in Nat /\ m \in Int /\ m >= 1
  BY StoreAssumption DEF StoreAssumption

LEMMA NoClaimType == NoClaim \in Claim
  BY StoreAssumption, RetryAssumption
  DEF StoreAssumption, RetryAssumption, NoClaim, Claim, Steps, Modes

LEMMA SidFinite == IsFiniteSet(Sid)
  BY FS_Interval, StoreAssumption DEF Sid, StoreAssumption

(* Sets of sessions are finite, and a subset is not larger. *)
LEMMA SessionSets ==
  ASSUME NEW S \in SUBSET Sid
  PROVE  /\ IsFiniteSet(S)
         /\ Cardinality(S) \in Nat
         /\ \A T \in SUBSET S : Cardinality(T) <= Cardinality(S)
  <1>1. IsFiniteSet(S)
    BY SidFinite, FS_Subset
  <1> QED
    BY <1>1, FS_Subset, FS_CardinalityType

LEMMA ActiveSets ==
  /\ Active \in SUBSET Sid
  /\ \A d : ActiveOthers(d) \in SUBSET Sid /\ ActiveOthers(d) \subseteq Active
  BY DEF Active, ActiveOthers
-----------------------------------------------------------------------------
(* The common steps preserve the types. *)

LEMMA RetireType ==
  ASSUME StoreTypeOK, NEW S, NEW st \in Status, Retire(S, st)
  PROVE  status' \in [Sid -> Status] /\ left' \in [Sid -> (-Skew)..LeaseTicks]
  BY LeaseRange DEF StoreTypeOK, Retire

LEMMA BumpType == ASSUME StoreTypeOK, Bump PROVE version' \in Nat
  BY DEF StoreTypeOK, Bump

LEMMA StoreNextType ==
  ASSUME TypeInv, StoreNext
  PROVE  StoreTypeOK' /\ (lock' = Settings => newLimit' \in Limits)
  <1> USE DEF TypeInv, TypeOK
  <1>1. ASSUME NEW s \in Sid, HeartbeatStart(s) \/ HeartbeatLost(s)
        PROVE  StoreTypeOK' /\ (lock' = Settings => newLimit' \in Limits)
    BY <1>1, LeaseRange DEF HeartbeatStart, HeartbeatLost, StoreTypeOK, accountVars
  <1>2. ASSUME NEW s \in Sid, HeartbeatCommit(s)
        PROVE  StoreTypeOK' /\ (lock' = Settings => newLimit' \in Limits)
    <2>1. LeaseTicks - beat[s] \in (-Skew)..LeaseTicks
      BY <1>2, StoreAssumption DEF HeartbeatCommit, StoreTypeOK, StoreAssumption, NoBeat
    <2> QED
      BY <1>2, <2>1, LeaseRange DEF HeartbeatCommit, StoreTypeOK, accountVars
  <1>3. ASSUME NEW s \in Sid, Pause(s) \/ Release(s)
        PROVE  StoreTypeOK' /\ (lock' = Settings => newLimit' \in Limits)
    <2>1. {"PAUSED", "ENDED"} \subseteq Status
      BY DEF Status
    <2> QED
      BY <1>3, <2>1, RetireType, BumpType DEF Pause, Release, StoreTypeOK
  <1>4. ASSUME EndAll \/ Reap
        PROVE  StoreTypeOK' /\ (lock' = Settings => newLimit' \in Limits)
    <2>1. {"EXPIRED", "ENDED"} \subseteq Status
      BY DEF Status
    <2> QED
      BY <1>4, <2>1, RetireType, BumpType DEF EndAll, Reap, StoreTypeOK
  <1>5. ASSUME NEW m \in Limits, SettingsCount(m)
        PROVE  StoreTypeOK' /\ (lock' = Settings => newLimit' \in Limits)
    BY <1>5 DEF SettingsCount, StoreTypeOK, rowVars
  <1>6. ASSUME SettingsCommit \/ SettingsAbort
        PROVE  StoreTypeOK' /\ (lock' = Settings => newLimit' \in Limits)
    BY <1>6, BumpType, StoreAssumption
    DEF SettingsCommit, SettingsAbort, StoreTypeOK, rowVars, StoreAssumption
  <1>7. ASSUME Tick
        PROVE  StoreTypeOK' /\ (lock' = Settings => newLimit' \in Limits)
    <2>1. left' \in [Sid -> (-Skew)..LeaseTicks]
      BY <1>7, StoreAssumption DEF Tick, StoreTypeOK, StoreAssumption
    <2>2. beat' \in [Sid -> NoBeat..Skew]
      BY <1>7, StoreAssumption DEF Tick, StoreTypeOK, StoreAssumption, NoBeat
    <2> QED
      BY <1>7, <2>1, <2>2 DEF Tick, StoreTypeOK, accountVars
  <1> QED
    BY <1>1, <1>2, <1>3, <1>4, <1>5, <1>6, <1>7 DEF StoreNext

(* A grant or a rejection under any strategy; the step of the row lock is  *)
(* the strategy's.                                                         *)
LEMMA ClaimEventType ==
  ASSUME NEW d \in Device, NEW id \in RequestId \cup {NoRequestId}, NEW s \in Sid \cup {0}
  PROVE  ClaimEvent(d, id, s) \subseteq Request
  BY DEF ClaimEvent, Request

LEMMA GrantType ==
  ASSUME StoreTypeOK, NEW d \in Device, NEW id \in RequestId \cup {NoRequestId},
         NEW P, Grant(d, id, P), lock' \in Conn \cup {Free, Settings}
  PROVE  StoreTypeOK'
  <1> DEFINE own == {t \in Open : owner[t] = d}
             preempted == {t \in P : status[t] = "PLAYING"}
  <1>1. PICK s \in Sid :
          /\ status' = [t \in Sid |-> IF t = s THEN "PLAYING"
                                      ELSE IF t \in own THEN "ENDED"
                                      ELSE IF t \in preempted THEN "PREEMPTED"
                                      ELSE status[t]]
          /\ left' = [t \in Sid |-> IF t = s THEN LeaseTicks
                                    ELSE IF t \in own \cup preempted THEN -Skew
                                    ELSE left[t]]
          /\ owner' = [owner EXCEPT ![s] = d]
          /\ requests' = requests \cup ClaimEvent(d, id, s)
          /\ Answer(ClaimEvent(d, id, s))
    BY Zenon DEF Grant
  <1>4. status' \in [Sid -> Status]
    BY <1>1 DEF StoreTypeOK, Status
  <1>5. left' \in [Sid -> (-Skew)..LeaseTicks]
    BY <1>1, LeaseRange DEF StoreTypeOK
  <1>2. requests' \subseteq Request /\ answers' \subseteq Request
    BY <1>1, ClaimEventType DEF Answer, StoreTypeOK
  <1>3. version' \in Nat
    BY BumpType DEF Grant
  <1> QED
    BY <1>1, <1>2, <1>3, <1>4, <1>5 DEF StoreTypeOK, Grant

LEMMA RejectType ==
  ASSUME StoreTypeOK, NEW d \in Device, NEW id \in RequestId \cup {NoRequestId},
         Reject(d, id), lock' \in Conn \cup {Free, Settings}
  PROVE  StoreTypeOK'
  <1>1. requests' \subseteq Request /\ answers' \subseteq Request
    BY ClaimEventType DEF Reject, Answer, StoreTypeOK
  <1> QED
    BY <1>1 DEF StoreTypeOK, Reject, rowVars

(* The claim of a connection that runs one names a device. *)
Named == \A c \in Conn : claim[c].step # "idle" => claim[c].device \in Device

(* What the steps of a claim write into its record. *)
LEMMA ClaimUpdates ==
  ASSUME NEW r \in Claim
  PROVE  /\ r.attempt # MaxRetry =>
              [NoClaim EXCEPT !.step = "read", !.device = r.device, !.id = r.id,
                 !.mode = r.mode, !.attempt = r.attempt + 1] \in Claim
         /\ \A m \in Limits, v \in Nat :
              [r EXCEPT !.step = "count", !.seenMax = m, !.seenVersion = v] \in Claim
         /\ \A e \in Int : [r EXCEPT !.step = "choose", !.excess = e] \in Claim
         /\ \A V \in SUBSET Sid : [r EXCEPT !.step = "grant", !.toPreempt = V] \in Claim
  <1> USE DEF Claim, Steps
  <1>1. ASSUME r.attempt # MaxRetry
        PROVE  [NoClaim EXCEPT !.step = "read", !.device = r.device, !.id = r.id,
                  !.mode = r.mode, !.attempt = r.attempt + 1] \in Claim
    <2>1. r.attempt + 1 \in 0..MaxRetry
      BY <1>1, RetryAssumption DEF RetryAssumption
    <2> QED
      BY <2>1, NoClaimType DEF NoClaim
  <1>2. ASSUME NEW m \in Limits, NEW v \in Nat
        PROVE  [r EXCEPT !.step = "count", !.seenMax = m, !.seenVersion = v] \in Claim
    OBVIOUS
  <1>3. ASSUME NEW e \in Int
        PROVE  [r EXCEPT !.step = "choose", !.excess = e] \in Claim
    OBVIOUS
  <1>4. ASSUME NEW V \in SUBSET Sid
        PROVE  [r EXCEPT !.step = "grant", !.toPreempt = V] \in Claim
    OBVIOUS
  <1> QED
    BY <1>1, <1>2, <1>3, <1>4

LEMMA RetryType ==
  ASSUME TypeOK, NEW c \in Conn, Retry(c)
  PROVE  claim' \in [Conn -> Claim]
  <1>1. claim[c] \in Claim
    BY DEF TypeOK
  <1> QED
    BY <1>1, ClaimUpdates, NoClaimType DEF Retry, TypeOK

LEMMA FinishType ==
  ASSUME TypeOK, NEW c \in Conn, Finish(c)
  PROVE  claim' \in [Conn -> Claim]
  BY NoClaimType DEF Finish, TypeOK

LEMMA SeeAccountType ==
  ASSUME TypeOK, NEW c \in Conn, SeeAccount(c)
  PROVE  claim' \in [Conn -> Claim]
  <1>1. claim[c] \in Claim /\ maxStreams \in Limits /\ version \in Nat
    BY DEF TypeOK, StoreTypeOK
  <1> QED
    BY <1>1, ClaimUpdates DEF SeeAccount, TypeOK

LEMMA ChoiceType ==
  ASSUME TypeOK, NEW c \in Conn, CountActive(c) \/ OldestActive(c)
  PROVE  TypeOK'
  <1>1. StoreTypeOK'
    BY DEF CountActive, OldestActive, storeVars, rowVars, accountVars, TypeOK, StoreTypeOK
  <1>2. claim[c] \in Claim
    BY DEF TypeOK
  <1>3. CASE CountActive(c)
    <2>1. Cardinality(Others(c)) \in Nat
      BY SessionSets, ActiveSets DEF Others
    <2>2. claim[c].seenMax \in Int
      <3>1. claim[c].seenMax \in Limits \cup {0}
        BY <1>2 DEF Claim
      <3> QED
        BY <3>1, LimitsNat
    <2>3. Cardinality(Others(c)) - claim[c].seenMax + 1 \in Int
      BY <2>1, <2>2
    <2> QED
      BY <1>1, <1>2, <1>3, <2>3, ClaimUpdates DEF CountActive, TypeOK
  <1>4. CASE OldestActive(c)
    <2>1. PICK V \in SUBSET Others(c) :
            claim' = [claim EXCEPT ![c] = [claim[c] EXCEPT !.step = "grant", !.toPreempt = V]]
      BY <1>4 DEF OldestActive
    <2>2. V \in SUBSET Sid
      BY ActiveSets DEF Others
    <2> QED
      BY <1>1, <1>2, <2>1, <2>2, ClaimUpdates DEF TypeOK
  <1> QED
    BY <1>3, <1>4

LEMMA AroundType ==
  ASSUME TypeInv, Named, Around
  PROVE  TypeInv' /\ Named'
  <1> USE DEF TypeInv
  <1>1. ASSUME NEW c \in Conn, NEW d \in Device, NEW id \in RequestId \cup {NoRequestId},
               NEW mode \in Modes, ClaimStart(c, d, id, mode)
        PROVE  TypeInv' /\ Named'
    <2>1. StoreTypeOK' /\ (lock' = Settings => newLimit' \in Limits)
      BY <1>1 DEF ClaimStart, storeVars, rowVars, accountVars, TypeOK, StoreTypeOK
    <2>2. [NoClaim EXCEPT !.step = "read", !.device = d, !.id = id, !.mode = mode] \in Claim
      BY NoClaimType DEF Claim, Steps, NoClaim
    <2> QED
      BY <1>1, <2>1, <2>2 DEF ClaimStart, TypeOK, Named, NoClaim
  <1>2. ASSUME NEW d \in Device, NEW id \in RequestId, ClaimReplay(d, id)
        PROVE  TypeInv' /\ Named'
    BY <1>2 DEF ClaimReplay, PriorOutcome, rowVars, accountVars, TypeOK, StoreTypeOK, Named
  <1>3. ASSUME NEW c \in Conn, ClaimAbort(c)
        PROVE  TypeInv' /\ Named'
    <2>1. claim' \in [Conn -> Claim]
      BY <1>3, FinishType DEF ClaimAbort
    <2>2. Named'
      BY <1>3 DEF ClaimAbort, Finish, Named, NoClaim, TypeOK
    <2>3. StoreTypeOK' /\ (lock' = Settings => newLimit' \in Limits)
      BY <1>3, StoreAssumption
      DEF ClaimAbort, rowVars, TypeOK, StoreTypeOK, StoreAssumption
    <2> QED
      BY <2>1, <2>2, <2>3 DEF TypeOK
  <1>4. ASSUME StoreNext, UNCHANGED claim
        PROVE  TypeInv' /\ Named'
    BY <1>4, StoreNextType DEF TypeOK, Named
  <1> QED
    BY <1>1, <1>2, <1>3, <1>4 DEF Around
(* The type invariant in its inductive form. *)
Types == TypeInv /\ Named

LEMMA InitTypes == Init => Types
  <1> SUFFICES ASSUME Init PROVE Types
    OBVIOUS
  <1>1. StoreTypeOK
    <2>1. /\ status \in [Sid -> Status] /\ left \in [Sid -> (-Skew)..LeaseTicks]
          /\ owner \in [Sid -> Device \cup {NoDevice}] /\ beat \in [Sid -> NoBeat..Skew]
      BY LeaseRange DEF Init, StoreInit, Status
    <2> QED
      BY <2>1 DEF Init, StoreInit, StoreTypeOK
  <1>2. claim \in [Conn -> Claim] /\ Named
    BY NoClaimType DEF Init, Named, NoClaim
  <1>3. lock # Settings
    BY StoreAssumption DEF Init, StoreInit, StoreAssumption
  <1> QED
    BY <1>1, <1>2, <1>3 DEF Types, TypeInv, TypeOK

(* The device, id and choice of a claim past its first statement. *)
LEMMA ClaimFacts ==
  ASSUME Types, NEW c \in Conn, claim[c].step # "idle"
  PROVE  /\ claim[c].device \in Device
         /\ claim[c].id \in RequestId \cup {NoRequestId}
         /\ claim[c].toPreempt \in SUBSET Sid
  BY DEF Types, TypeInv, TypeOK, Named, Claim

LEMMA NamedStep ==
  ASSUME Types, NEW c \in Conn,
         \/ Retry(c) /\ claim[c].step # "idle"
         \/ SeeAccount(c) /\ claim[c].step # "idle"
         \/ Finish(c) \/ CountActive(c) \/ OldestActive(c)
  PROVE  Named'
  <1>1. claim[c].step # "idle" => claim[c].device \in Device
    BY ClaimFacts
  <1>2. claim \in [Conn -> Claim] /\ claim[c] \in Claim
    BY DEF Types, TypeInv, TypeOK
  <1>3. CASE Finish(c)
    BY <1>2, <1>3 DEF Finish, Named, NoClaim, Types
  <1>4. CASE Retry(c) /\ claim[c].step # "idle"
    BY <1>1, <1>2, <1>4 DEF Retry, Named, NoClaim, Types
  <1>5. CASE SeeAccount(c) /\ claim[c].step # "idle"
    BY <1>1, <1>2, <1>5 DEF SeeAccount, Named, Claim, Types
  <1>6. CASE CountActive(c)
    BY <1>1, <1>2, <1>6 DEF CountActive, Named, Claim, Types
  <1>7. CASE OldestActive(c)
    <2>1. PICK V :
            claim' = [claim EXCEPT ![c] = [claim[c] EXCEPT !.step = "grant", !.toPreempt = V]]
      BY <1>7 DEF OldestActive
    <2>2. claim[c].device \in Device
      BY <1>1, <1>7 DEF OldestActive
    <2> QED
      BY <1>2, <2>1, <2>2 DEF Named, Claim, Types
  <1> QED
    BY <1>3, <1>4, <1>5, <1>6, <1>7

-----------------------------------------------------------------------------
(* What the steps do to the active set. *)

LEMMA RetireShrinks ==
  ASSUME StoreTypeOK, NEW S \in SUBSET Open, NEW st \in {"PAUSED", "ENDED", "EXPIRED"},
         Retire(S, st), owner' = owner,
         st = "PAUSED" => \A s \in S : status[s] = "PLAYING"
  PROVE  Shrinks
  <1>1. \A s \in Sid : status'[s] = IF s \in S THEN st ELSE status[s]
    BY DEF Retire
  <1>2. \A s \in Sid : left'[s] = IF s \in S THEN -Skew ELSE left[s]
    BY DEF Retire
  <1> QED
    BY <1>1, <1>2 DEF Shrinks, Active, Open, Inserted

LEMMA SameRowsShrink ==
  ASSUME UNCHANGED <<status, owner>>,
         \A s \in Sid : status[s] = "PLAYING" /\ left'[s] > 0 => left[s] > 0
  PROVE  Shrinks
  BY DEF Shrinks, Active, Open, Inserted

LEMMA StoreNextShrinks ==
  ASSUME ClockAssumption, StoreTypeOK, StoreNext
  PROVE  Shrinks
  <1>1. ASSUME NEW s \in Sid, HeartbeatStart(s) \/ HeartbeatLost(s)
        PROVE  Shrinks
    BY <1>1, SameRowsShrink DEF HeartbeatStart, HeartbeatLost
  <1>2. ASSUME NEW s \in Sid, HeartbeatCommit(s)
        PROVE  Shrinks
    <2>1. beat[s] = 0
      BY <1>2 DEF HeartbeatCommit, ClockAssumption, StoreTypeOK, NoBeat
    <2>2. left[s] \in Int
      BY StoreAssumption DEF StoreTypeOK, StoreAssumption
    <2>3. left[s] > 0
      BY <1>2, <2>1, <2>2 DEF HeartbeatCommit
    <2>4. \A t \in Sid : t # s => left'[t] = left[t]
      BY <1>2 DEF HeartbeatCommit, StoreTypeOK
    <2> QED
      BY <1>2, <2>3, <2>4, SameRowsShrink DEF HeartbeatCommit
  <1>3. ASSUME NEW s \in Sid, Pause(s)
        PROVE  Shrinks
    <2>1. {s} \in SUBSET Open /\ status[s] = "PLAYING"
      BY <1>3 DEF Pause, Active, Open
    <2> QED
      BY <1>3, <2>1, RetireShrinks DEF Pause
  <1>4. ASSUME NEW s \in Sid, Release(s)
        PROVE  Shrinks
    <2>1. {s} \in SUBSET Open
      BY <1>4 DEF Release, Active, Open
    <2> QED
      BY <1>4, <2>1, RetireShrinks DEF Release
  <1>5. CASE EndAll
    BY <1>5, RetireShrinks DEF EndAll
  <1>6. CASE Reap
    <2>1. Lapsed \in SUBSET Open
      BY DEF Lapsed, Open
    <2> QED
      BY <1>6, <2>1, RetireShrinks DEF Reap
  <1>7. CASE SettingsCommit \/ SettingsAbort \/ \E m \in Limits : SettingsCount(m)
    BY <1>7, SameRowsShrink DEF SettingsCommit, SettingsAbort, SettingsCount, rowVars
  <1>8. CASE Tick
    <2>1. \A s \in Sid : left[s] \in Int /\ Skew \in Int
      BY StoreAssumption DEF StoreTypeOK, StoreAssumption
    <2>2. \A s \in Sid : left'[s] = IF left[s] > -Skew THEN left[s] - 1 ELSE left[s]
      BY <1>8 DEF Tick
    <2>3. \A s \in Sid : left'[s] > 0 => left[s] > 0
      BY <2>1, <2>2
    <2> QED
      BY <1>8, <2>3, SameRowsShrink DEF Tick
  <1> QED
    BY <1>1, <1>2, <1>3, <1>4, <1>5, <1>6, <1>7, <1>8 DEF StoreNext

LEMMA SameStoreShrinks == ASSUME UNCHANGED rowVars PROVE Shrinks
  BY DEF rowVars, Shrinks, Active, Open, Inserted

LEMMA AroundShrinks ==
  ASSUME ClockAssumption, StoreTypeOK, Around
  PROVE  Shrinks
  BY SameStoreShrinks, StoreNextShrinks
  DEF Around, ClaimStart, ClaimReplay, ClaimAbort, storeVars

(* A grant starts one new session and stops, of the others that play, at   *)
(* least the chosen ones and its own device's.                             *)
LEMMA GrantAdmits ==
  ASSUME StoreTypeOK, NEW d \in Device, NEW id, NEW P \in SUBSET Sid, Grant(d, id, P)
  PROVE  \E s \in Sid \ Inserted :
           /\ \A t \in Sid : t < s => t \in Inserted
           /\ Inserted' = Inserted \cup {s}
           /\ s \in Active'
           /\ Active' \ {s} \subseteq ActiveOthers(d) \ P
           /\ Open' \ {s} \subseteq {t \in Open : owner[t] # d}
           /\ owner' = [owner EXCEPT ![s] = d]
           /\ \A t \in Sid \ {s} : status'[t] # status[t] =>
                t \in Open /\ status'[t] \in {"ENDED", "PREEMPTED"}
                /\ (status'[t] = "PREEMPTED" => t \in P /\ status[t] = "PLAYING")
           /\ \A t \in P \ {s} : status'[t] # "PLAYING"
  <1> DEFINE own == {t \in Open : owner[t] = d}
             preempted == {t \in P : status[t] = "PLAYING"}
  <1>1. PICK s \in Sid :
          /\ s \notin Inserted
          /\ \A t \in Sid : t < s => t \in Inserted
          /\ status' = [t \in Sid |-> IF t = s THEN "PLAYING"
                                      ELSE IF t \in own THEN "ENDED"
                                      ELSE IF t \in preempted THEN "PREEMPTED"
                                      ELSE status[t]]
          /\ left' = [t \in Sid |-> IF t = s THEN LeaseTicks
                                    ELSE IF t \in own \cup preempted THEN -Skew
                                    ELSE left[t]]
          /\ owner' = [owner EXCEPT ![s] = d]
    BY Zenon DEF Grant
  <1>2. own \in SUBSET Open /\ preempted \in SUBSET Open
    BY DEF Open
  <1>3. status'[s] = "PLAYING" /\ left'[s] > 0
    BY <1>1, StoreAssumption DEF StoreAssumption
  <1>4. \A t \in Sid \ {s} :
          status'[t] = IF t \in own THEN "ENDED"
                       ELSE IF t \in preempted THEN "PREEMPTED" ELSE status[t]
    BY <1>1
  <1>5. \A t \in Sid \ {s} : t \notin own \cup preempted => left'[t] = left[t]
    BY <1>1
  <1>6. Inserted' = Inserted \cup {s}
    BY <1>2, <1>3, <1>4 DEF Inserted, Open
  <1>7. Active' \ {s} \subseteq ActiveOthers(d) \ P
    <2> SUFFICES ASSUME NEW t \in Active', t # s
                 PROVE  t \in ActiveOthers(d) \ P
      OBVIOUS
    <2>1. t \in Sid /\ status'[t] = "PLAYING" /\ left'[t] > 0
      BY DEF Active
    <2>2. t \notin own /\ t \notin preempted /\ status[t] = "PLAYING"
      BY <2>1, <1>4
    <2>3. left[t] > 0
      BY <2>1, <2>2, <1>5
    <2>4. t \in Active /\ owner[t] # d
      BY <2>1, <2>2, <2>3 DEF Active, Open
    <2> QED
      BY <2>2, <2>4 DEF ActiveOthers, Active
  <1>8. Open' \ {s} \subseteq {t \in Open : owner[t] # d}
    BY <1>4 DEF Open
  <1>9. s \in Active'
    BY <1>3 DEF Active
  <1>10. \A t \in Sid \ {s} : status'[t] # status[t] =>
           t \in Open /\ status'[t] \in {"ENDED", "PREEMPTED"}
           /\ (status'[t] = "PREEMPTED" => t \in P /\ status[t] = "PLAYING")
    BY <1>2, <1>4
  <1>11. \A t \in P \ {s} : status'[t] # "PLAYING"
    BY <1>4
  <1> QED
    BY <1>1, <1>6, <1>7, <1>8, <1>9, <1>10, <1>11

(* The choice of oldestActive makes room for one more stream, whatever was *)
(* counted: either there is room already or the excess is chosen.          *)
LEMMA ChoiceMakesRoom ==
  ASSUME NEW O \in SUBSET Sid, NEW V \in SUBSET O, NEW e \in Int, NEW m \in Nat \ {0},
         \/ Cardinality(V) = e
         \/ Cardinality(V) < e /\ V = O
         \/ e <= 0 /\ V = {},
         Cardinality(O) <= m - 1 \/ Cardinality(O) <= m - 1 + e
  PROVE  Cardinality(O \ V) <= m - 1
  <1>1. /\ Cardinality(O) \in Nat /\ Cardinality(V) \in Nat
        /\ Cardinality(O \ V) \in Nat /\ Cardinality(O \ V) <= Cardinality(O)
        /\ IsFiniteSet(O)
    BY SessionSets
  <1>2. Cardinality(O \ V) = Cardinality(O) - Cardinality(V)
    <2>1. O \cap V = V
      OBVIOUS
    <2> QED
      BY <1>1, <2>1, FS_Difference
  <1>3. CASE Cardinality(V) = e
    BY <1>1, <1>2, <1>3
  <1>4. CASE V = O
    BY <1>1, <1>2, <1>4
  <1>5. CASE e <= 0
    BY <1>1, <1>5
  <1> QED
    BY <1>3, <1>4, <1>5

(* With room for one more, a grant keeps the limit. *)
LEMMA GrantKeepsLimit ==
  ASSUME StoreTypeOK, NEW d \in Device, NEW id, NEW P \in SUBSET Sid, Grant(d, id, P),
         NEW m \in Nat \ {0}, Cardinality(ActiveOthers(d) \ P) <= m - 1
  PROVE  Cardinality(Active') <= m
  <1>1. PICK s \in Sid : Active' \ {s} \subseteq ActiveOthers(d) \ P /\ s \in Active'
    BY GrantAdmits
  <1> DEFINE R == ActiveOthers(d) \ P
  <1>2. R \in SUBSET Sid /\ IsFiniteSet(R) /\ Cardinality(R) \in Nat
    BY ActiveSets, SessionSets
  <1>3. Active' \in SUBSET (R \cup {s})
    BY <1>1
  <1>4. Cardinality(R) <= m - 1
    OBVIOUS
  <1> HIDE DEF R
  <1>5. /\ IsFiniteSet(R \cup {s})
        /\ Cardinality(R \cup {s}) = IF s \in R THEN Cardinality(R) ELSE Cardinality(R) + 1
    BY <1>2, FS_AddElement, Zenon
  <1>6. /\ IsFiniteSet(Active') /\ Cardinality(Active') <= Cardinality(R \cup {s})
    BY <1>3, <1>5, FS_Subset, Zenon
  <1>7. Cardinality(Active') \in Nat
    BY <1>6, FS_CardinalityType, Zenon
  <1> QED
    BY <1>2, <1>4, <1>5, <1>6, <1>7

(* Room that was made stays, as long as no session starts. *)
LEMMA RoomKept ==
  ASSUME Types, Shrinks, NEW c \in Conn, claim'[c] = claim[c], maxStreams' = maxStreams,
         RoomMade(c)
  PROVE  RoomMade(c)'
  <1>1. Others(c)' \subseteq Others(c)
    BY DEF Shrinks, Others, ActiveOthers, Active
  <1>2. /\ Cardinality(Others(c)') <= Cardinality(Others(c))
        /\ Cardinality(Others(c)') \in Nat /\ Cardinality(Others(c)) \in Nat
    BY <1>1, SessionSets, ActiveSets DEF Others
  <1> DEFINE T == claim[c].toPreempt
  <1>3. /\ Cardinality(Others(c)' \ T) <= Cardinality(Others(c) \ T)
        /\ Cardinality(Others(c)' \ T) \in Nat /\ Cardinality(Others(c) \ T) \in Nat
    <2>1. Others(c) \ T \in SUBSET Sid /\ Others(c)' \ T \in SUBSET (Others(c) \ T)
      BY <1>1, ActiveSets DEF Others
    <2>2. Others(c)' \ T \in SUBSET Sid
      BY <2>1
    <2> QED
      BY <2>1, <2>2, SessionSets
  <1>4. maxStreams \in Int /\ (claim[c].excess \in Int)
    BY LimitsNat DEF Types, TypeInv, TypeOK, StoreTypeOK, Claim
  <1> HIDE DEF T
  <1>5. (claim[c].step = "choose" =>
          \/ Cardinality(Others(c)') <= maxStreams - 1
          \/ Cardinality(Others(c)') <= maxStreams - 1 + claim[c].excess)
    BY <1>2, <1>4 DEF RoomMade
  <1>6. claim[c].step = "grant" => Cardinality(Others(c)' \ T) <= maxStreams - 1
    BY <1>3, <1>4 DEF RoomMade, T
  <1> QED
    BY <1>5, <1>6 DEF RoomMade, T

LEMMA RoomSeen ==
  ASSUME Types, NEW c \in Conn, SeeAccount(c), maxStreams' = maxStreams
  PROVE  RoomMade(c)' /\ claim'[c].step = "count"
  <1>1. claim'[c] = [claim[c] EXCEPT !.step = "count", !.seenMax = maxStreams,
                                     !.seenVersion = version]
    BY DEF SeeAccount, Types, TypeInv, TypeOK
  <1>2. claim'[c].step = "count" /\ claim'[c].seenMax = maxStreams
    BY <1>1 DEF Types, TypeInv, TypeOK, Claim
  <1> QED
    BY <1>2 DEF RoomMade

LEMMA RoomChosen ==
  ASSUME Types, NEW c \in Conn, RoomMade(c), CountActive(c) \/ OldestActive(c)
  PROVE  /\ RoomMade(c)'
         /\ claim'[c].step \in {"choose", "grant"}
         /\ claim'[c].seenVersion = claim[c].seenVersion
  <1>1. /\ claim \in [Conn -> Claim] /\ claim[c] \in Claim
        /\ maxStreams \in Nat \ {0} /\ maxStreams \in Int
    BY LimitsNat DEF Types, TypeInv, TypeOK, StoreTypeOK
  <1>2. Active' = Active /\ owner' = owner /\ maxStreams' = maxStreams
    BY DEF CountActive, OldestActive, storeVars, rowVars, accountVars, Active
  <1>3. CASE CountActive(c)
    <2> DEFINE e == Cardinality(Others(c)) - claim[c].seenMax + 1
    <2>1. Cardinality(Others(c)) \in Nat
      BY SessionSets, ActiveSets DEF Others
    <2>2. claim'[c] = [claim[c] EXCEPT !.step = "choose", !.excess = e]
      BY <1>1, <1>3 DEF CountActive
    <2>3. /\ claim'[c].step = "choose" /\ claim'[c].excess = e
          /\ claim'[c].seenMax = claim[c].seenMax /\ claim'[c].device = claim[c].device
          /\ claim'[c].seenVersion = claim[c].seenVersion
      BY <1>1, <2>2 DEF Claim
    <2>4. claim[c].seenMax = maxStreams
      BY <1>3 DEF CountActive, RoomMade
    <2>5. Others(c)' = Others(c)
      BY <1>2, <2>3 DEF Others, ActiveOthers
    <2>6. Cardinality(Others(c)) <= maxStreams - 1 + e
      BY <1>1, <2>1, <2>4
    <2> QED
      BY <1>2, <2>3, <2>4, <2>5, <2>6 DEF RoomMade
  <1>4. CASE OldestActive(c)
    <2>1. PICK V \in SUBSET Others(c) :
            /\ \/ Cardinality(V) = claim[c].excess
               \/ Cardinality(V) < claim[c].excess /\ V = Others(c)
               \/ claim[c].excess <= 0 /\ V = {}
            /\ claim' = [claim EXCEPT ![c] =
                           [claim[c] EXCEPT !.step = "grant", !.toPreempt = V]]
      BY <1>4 DEF OldestActive
    <2>2. /\ claim'[c].step = "grant" /\ claim'[c].toPreempt = V
          /\ claim'[c].seenMax = claim[c].seenMax /\ claim'[c].device = claim[c].device
          /\ claim'[c].seenVersion = claim[c].seenVersion
      BY <1>1, <2>1 DEF Claim
    <2>3. Others(c)' = Others(c) /\ Others(c) \in SUBSET Sid
      BY <1>2, <2>2, ActiveSets DEF Others, ActiveOthers
    <2>4. /\ claim[c].step = "choose" /\ claim[c].seenMax = maxStreams
          /\ \/ Cardinality(Others(c)) <= maxStreams - 1
             \/ Cardinality(Others(c)) <= maxStreams - 1 + claim[c].excess
      BY <1>4 DEF OldestActive, RoomMade
    <2>5. claim[c].excess \in Int
      BY <1>1 DEF Claim
    <2>6. Cardinality(Others(c) \ V) <= maxStreams - 1
      BY <1>1, <2>1, <2>3, <2>4, <2>5, ChoiceMakesRoom
    <2> QED
      BY <1>2, <2>2, <2>3, <2>4, <2>6 DEF RoomMade
  <1> QED
    BY <1>3, <1>4

LEMMA RoomForGrant ==
  ASSUME Types, NEW c \in Conn, claim[c].step = "grant", RoomMade(c), GrantCommit(c)
  PROVE  LimitRespected'
  <1>1. maxStreams \in Nat \ {0} /\ maxStreams' = maxStreams
    BY LimitsNat DEF Types, TypeInv, TypeOK, StoreTypeOK, GrantCommit, Grant
  <1>2. Cardinality(ActiveOthers(claim[c].device) \ claim[c].toPreempt) <= maxStreams - 1
    BY DEF RoomMade, Others
  <1>3. StoreTypeOK
    BY DEF Types, TypeInv, TypeOK
  <1>4. Cardinality(Active') <= maxStreams
    BY <1>1, <1>2, <1>3, ClaimFacts, GrantKeepsLimit DEF GrantCommit
  <1> QED
    BY <1>1, <1>4 DEF LimitRespected

LEMMA ShrinkKeepsLimit ==
  ASSUME Types, Shrinks, NEW m \in Limits, Cardinality(Active) <= m
  PROVE  Cardinality(Active') <= m
  <1>1. Active' \in SUBSET Active /\ Active \in SUBSET Sid /\ Active' \in SUBSET Sid
    BY ActiveSets DEF Shrinks
  <1>2. Cardinality(Active') <= Cardinality(Active)
    BY <1>1, SessionSets
  <1>3. Cardinality(Active') \in Nat /\ Cardinality(Active) \in Nat /\ m \in Int
    BY <1>1, SessionSets, LimitsNat
  <1> QED
    BY <1>2, <1>3
-----------------------------------------------------------------------------
(* Consequences for the abstract promise and for single sessions.  Under a *)
(* strategy that starts sessions by GrantCommit only, every step is one of *)
(* these.                                                                  *)
StepKinds ==
  \/ Shrinks /\ maxStreams' = maxStreams
  \/ UNCHANGED rowVars /\ maxStreams' \in Limits
  \/ \E c \in Conn : claim[c].step # "idle" /\ GrantCommit(c)

LEMMA AroundKinds ==
  ASSUME ClockAssumption, Types, Around
  PROVE  StepKinds
  <1>1. Shrinks /\ StoreTypeOK /\ (lock = Settings => newLimit \in Limits)
    BY AroundShrinks DEF Types, TypeInv, TypeOK
  <1>2. CASE SettingsCommit
    BY <1>1, <1>2 DEF SettingsCommit, StepKinds
  <1>3. CASE maxStreams' = maxStreams
    BY <1>1, <1>3 DEF StepKinds
  <1> QED
    BY <1>2, <1>3
    DEF Around, ClaimStart, ClaimReplay, ClaimAbort, storeVars, accountVars, StoreNext,
        HeartbeatStart, HeartbeatCommit, HeartbeatLost, Pause, Release, EndAll, Reap,
        SettingsCount, SettingsAbort, Tick

(* The part of the tables the abstract promise sees. *)
LEMMA KindsAreDisjoint ==
  ASSUME Types, StepKinds
  PROVE  \/ Shrinks
         \/ \E s \in Sid \ Inserted, d \in Device :
              /\ maxStreams' = maxStreams
              /\ \A t \in Sid : t < s => t \in Inserted
              /\ Inserted' = Inserted \cup {s}
              /\ s \in Active'
              /\ Active' \ {s} \subseteq Active
              /\ Open' \ {s} \subseteq {t \in Open : owner[t] # d}
              /\ owner' = [owner EXCEPT ![s] = d]
  <1>1. ASSUME NEW c \in Conn, claim[c].step # "idle", GrantCommit(c)
        PROVE  \E s \in Sid \ Inserted, d \in Device :
                 /\ maxStreams' = maxStreams
                 /\ \A t \in Sid : t < s => t \in Inserted
                 /\ Inserted' = Inserted \cup {s}
                 /\ s \in Active'
                 /\ Active' \ {s} \subseteq Active
                 /\ Open' \ {s} \subseteq {t \in Open : owner[t] # d}
                 /\ owner' = [owner EXCEPT ![s] = d]
    <2> DEFINE d == claim[c].device
               P == claim[c].toPreempt
    <2>1. d \in Device /\ P \in SUBSET Sid /\ StoreTypeOK
      BY <1>1, ClaimFacts DEF Types, TypeInv, TypeOK
    <2>2. Grant(d, claim[c].id, P) /\ maxStreams' = maxStreams
      BY <1>1 DEF GrantCommit, Grant
    <2> HIDE DEF d, P
    <2>3. PICK s \in Sid \ Inserted :
            /\ \A t \in Sid : t < s => t \in Inserted
            /\ Inserted' = Inserted \cup {s}
            /\ s \in Active'
            /\ Active' \ {s} \subseteq ActiveOthers(d) \ P
            /\ Open' \ {s} \subseteq {t \in Open : owner[t] # d}
            /\ owner' = [owner EXCEPT ![s] = d]
      BY <2>1, <2>2, GrantAdmits
    <2> QED
      BY <2>1, <2>2, <2>3, ActiveSets
  <1> QED
    BY <1>1, SameStoreShrinks DEF StepKinds

(* StreamLimit counts with FiniteSets' Cardinality too. *)
LEMMA PromiseCardinality == \A S : Promise!Cardinality(S) = Cardinality(S)
  BY DEF Cardinality, Promise!Cardinality

(* A step of these kinds that keeps the limit is a step of the promise. *)
LEMMA KindsImplement ==
  ASSUME Types, StepKinds, LimitRespected'
  PROVE  [Promise!Next]_(Promise!abstractVars)
  <1>1. Active \subseteq Inserted /\ Active' \subseteq Inserted'
    BY DEF Active, Inserted
  <1> DEFINE out == Active \ Active'
  <1>2. CASE Shrinks /\ maxStreams' = maxStreams
    <2>1. /\ out \in SUBSET Active /\ Active' = Active \ out
          /\ Inserted' \ Active' = (Inserted \ Active) \cup out
      BY <1>1, <1>2 DEF Shrinks
    <2>2. Promise!Leave(out)
      BY <1>2, <2>1 DEF Promise!Leave
    <2> QED
      BY <2>1, <2>2 DEF Promise!Next
  <1>3. CASE UNCHANGED rowVars /\ maxStreams' \in Limits
    <2>1. Active' = Active /\ Inserted' = Inserted
      BY <1>3 DEF rowVars, Active, Inserted
    <2>2. Promise!SetLimit
      BY <1>3, <2>1, LimitsNat, PromiseCardinality DEF Promise!SetLimit, LimitRespected
    <2> QED
      BY <2>2 DEF Promise!Next
  <1>4. CASE ~Shrinks
    <2>1. PICK s \in Sid \ Inserted :
            /\ maxStreams' = maxStreams /\ Inserted' = Inserted \cup {s}
            /\ s \in Active' /\ Active' \ {s} \subseteq Active
      BY <1>4, KindsAreDisjoint
    <2>2. /\ s \notin Active \cup (Inserted \ Active)
          /\ out \in SUBSET Active /\ Active' = (Active \ out) \cup {s}
          /\ Inserted' \ Active' = (Inserted \ Active) \cup out
      BY <1>1, <2>1
    <2>3. Promise!Admit(s, out)
      BY <2>1, <2>2, PromiseCardinality DEF Promise!Admit, LimitRespected
    <2> QED
      BY <2>2, <2>3 DEF Promise!Next
  <1>5. CASE Shrinks /\ \E c \in Conn : claim[c].step # "idle" /\ GrantCommit(c)
    BY <1>2, <1>5 DEF GrantCommit, Grant
  <1> QED
    BY <1>2, <1>3, <1>4, <1>5 DEF StepKinds

LEMMA InitImplements == Init => Promise!Init
  BY LimitsNat DEF Init, StoreInit, Active, Inserted, Promise!Init

LEMMA KindsNeverRevive ==
  ASSUME Types, StepKinds
  PROVE  \A s \in Inserted : s \notin Active => s \notin Active'
  BY KindsAreDisjoint DEF Shrinks

LEMMA KindsKeepOneOpen ==
  ASSUME Types, StepKinds, OneOpenPerDevice
  PROVE  OneOpenPerDevice'
  <1>1. CASE Shrinks
    BY <1>1 DEF Shrinks, OneOpenPerDevice
  <1>2. CASE ~Shrinks
    <2>1. PICK s \in Sid \ Inserted, d \in Device :
            /\ Open' \ {s} \subseteq {t \in Open : owner[t] # d}
            /\ owner' = [owner EXCEPT ![s] = d]
      BY <1>2, KindsAreDisjoint
    <2>2. owner'[s] = d /\ \A t \in Sid \ {s} : owner'[t] = owner[t]
      BY <2>1 DEF Types, TypeInv, TypeOK, StoreTypeOK
    <2>3. Open' \subseteq Sid
      BY DEF Open
    <2> QED
      BY <2>1, <2>2, <2>3 DEF OneOpenPerDevice
  <1> QED
    BY <1>1, <1>2

LEMMA InitOneOpen == Init => OneOpenPerDevice
  BY DEF Init, StoreInit, OneOpenPerDevice, Open
-----------------------------------------------------------------------------
(* What the steps do to single statuses, to the version and to the outcomes *)
(* of request ids.                                                          *)

StatusMoves ==
  \A s \in Sid : status'[s] # status[s] =>
    \/ status[s] = "NONE" /\ status'[s] = "PLAYING"
    \/ status[s] = "PLAYING" /\ status'[s] \in {"PAUSED", "ENDED", "PREEMPTED", "EXPIRED"}
    \/ status[s] = "PAUSED" /\ status'[s] = "ENDED"

(* A step either bumps the version or changes no status and no limit. *)
BumpKinds ==
  \/ StatusMoves /\ Bump
  \/ UNCHANGED <<status, maxStreams, version>>

LEMMA RetireMoves ==
  ASSUME NEW S \in SUBSET Open, NEW st \in {"PAUSED", "ENDED", "EXPIRED"}, Retire(S, st),
         st = "ENDED" \/ \A s \in S : status[s] = "PLAYING"
  PROVE  StatusMoves
  BY DEF Retire, StatusMoves, Open

LEMMA StoreMoves ==
  ASSUME StoreNext
  PROVE  /\ BumpKinds
         /\ \A s \in Sid : status'[s] = "PREEMPTED" => status[s] = "PREEMPTED"
         /\ UNCHANGED <<requests, answers>>
  <1> DEFINE Goal == /\ BumpKinds
                     /\ \A s \in Sid : status'[s] = "PREEMPTED" => status[s] = "PREEMPTED"
                     /\ UNCHANGED <<requests, answers>>
  <1>1. ASSUME NEW S \in SUBSET Open, NEW st \in {"PAUSED", "ENDED", "EXPIRED"},
               Retire(S, st), st = "ENDED" \/ \A s \in S : status[s] = "PLAYING",
               Bump, UNCHANGED <<requests, answers>>
        PROVE  Goal
    <2>1. \A s \in Sid : status'[s] = IF s \in S THEN st ELSE status[s]
      BY <1>1 DEF Retire
    <2> QED
      BY <1>1, <2>1, RetireMoves DEF BumpKinds
  <1>2. ASSUME NEW s \in Sid, Pause(s)
        PROVE  Goal
    <2>1. {s} \in SUBSET Open /\ \A t \in {s} : status[t] = "PLAYING"
      BY <1>2 DEF Pause, Active, Open
    <2> QED
      BY <1>1, <1>2, <2>1 DEF Pause
  <1>3. ASSUME NEW s \in Sid, Release(s)
        PROVE  Goal
    <2>1. {s} \in SUBSET Open
      BY <1>3 DEF Release, Active, Open
    <2> QED
      BY <1>1, <1>3, <2>1 DEF Release
  <1>4. CASE EndAll
    BY <1>1, <1>4 DEF EndAll
  <1>5. CASE Reap
    <2>1. Lapsed \in SUBSET Open /\ \A s \in Lapsed : status[s] = "PLAYING"
      BY DEF Lapsed, Open
    <2> QED
      BY <1>1, <1>5, <2>1 DEF Reap
  <1>6. CASE SettingsCommit
    BY <1>6 DEF SettingsCommit, rowVars, BumpKinds, StatusMoves
  <1>7. ASSUME \/ \E s \in Sid : HeartbeatStart(s) \/ HeartbeatCommit(s) \/ HeartbeatLost(s)
               \/ \E m \in Limits : SettingsCount(m)
               \/ SettingsAbort \/ Tick
        PROVE  Goal
    <2>1. UNCHANGED <<status, maxStreams, version, requests, answers>>
      BY <1>7 DEF HeartbeatStart, HeartbeatCommit, HeartbeatLost, SettingsCount,
                  SettingsAbort, Tick, accountVars, rowVars
    <2> QED
      BY <2>1 DEF BumpKinds
  <1> QED
    BY <1>2, <1>3, <1>4, <1>5, <1>6, <1>7 DEF StoreNext

LEMMA GrantMoves ==
  ASSUME Types, NEW c \in Conn, claim[c].step # "idle", GrantCommit(c)
  PROVE  /\ BumpKinds
         /\ \A s \in Sid : status'[s] = "PREEMPTED" /\ status[s] # "PREEMPTED" =>
              s \in claim[c].toPreempt /\ status[s] = "PLAYING"
         /\ \A s \in claim[c].toPreempt \cap Inserted : status'[s] # "PLAYING"
  <1> DEFINE d == claim[c].device
             P == claim[c].toPreempt
  <1>1. d \in Device /\ P \in SUBSET Sid /\ StoreTypeOK
    BY ClaimFacts DEF Types, TypeInv, TypeOK
  <1>2. Grant(d, claim[c].id, P) /\ Bump
    BY DEF GrantCommit, Grant
  <1> HIDE DEF d, P
  <1>3. PICK s \in Sid \ Inserted :
          /\ s \in Active'
          /\ \A t \in Sid \ {s} : status'[t] # status[t] =>
               t \in Open /\ status'[t] \in {"ENDED", "PREEMPTED"}
               /\ (status'[t] = "PREEMPTED" => t \in P /\ status[t] = "PLAYING")
          /\ \A t \in P \ {s} : status'[t] # "PLAYING"
    BY <1>1, <1>2, GrantAdmits
  <1>4. status[s] = "NONE" /\ status'[s] = "PLAYING"
    BY <1>3 DEF Inserted, Active
  <1>5. StatusMoves
    <2> SUFFICES ASSUME NEW t \in Sid, status'[t] # status[t]
                 PROVE  \/ status[t] = "NONE" /\ status'[t] = "PLAYING"
                        \/ /\ status[t] = "PLAYING"
                           /\ status'[t] \in {"PAUSED", "ENDED", "PREEMPTED", "EXPIRED"}
                        \/ status[t] = "PAUSED" /\ status'[t] = "ENDED"
      BY DEF StatusMoves
    <2> QED
      BY <1>3, <1>4 DEF Open
  <1>6. \A t \in Sid : status'[t] = "PREEMPTED" /\ status[t] # "PREEMPTED" =>
          t \in P /\ status[t] = "PLAYING"
    BY <1>3, <1>4
  <1>7. \A t \in P \cap Inserted : status'[t] # "PLAYING"
    BY <1>3
  <1> QED
    BY <1>2, <1>5, <1>6, <1>7 DEF BumpKinds, P

(* Final statuses stay. *)
LEMMA MovesKeepFinal ==
  ASSUME BumpKinds
  PROVE  \A s \in Sid :
           /\ status[s] \in {"ENDED", "PREEMPTED", "EXPIRED"} => status'[s] = status[s]
           /\ status[s] = "PAUSED" => status'[s] \in {"PAUSED", "ENDED"}
  BY DEF BumpKinds, StatusMoves

(* Together with what a step may do to the active set: the version grows. *)
LEMMA KindsBumpVersion ==
  ASSUME Types, StepKinds, BumpKinds
  PROVE  /\ status' # status => version' > version
         /\ maxStreams' # maxStreams => version' > version
         /\ ~(Active' \subseteq Active) => version' > version
  <1>1. CASE Bump
    BY <1>1 DEF Bump, Types, TypeInv, TypeOK, StoreTypeOK
  <1>2. CASE UNCHANGED <<status, maxStreams, version>>
    <2>1. Inserted' = Inserted
      BY <1>2 DEF Inserted
    <2>2. Active' \subseteq Active
      BY <2>1, KindsAreDisjoint DEF Shrinks
    <2> QED
      BY <1>2, <2>2
  <1> QED
    BY <1>1, <1>2 DEF BumpKinds

(* Session ids follow the order of the INSERTs, and a TAKEOVER that has     *)
(* chosen has the oldest: what starts meanwhile is younger.                *)
InsertedInOrder == \A s \in Inserted, t \in Sid : t < s => t \in Inserted

Chosen(c) ==
  claim[c].step = "grant" =>
    /\ claim[c].toPreempt \subseteq Inserted
    /\ \A s \in claim[c].toPreempt, t \in Others(c) \ claim[c].toPreempt : s < t

LEMMA KindsKeepOrder ==
  ASSUME Types, StepKinds, InsertedInOrder
  PROVE  InsertedInOrder'
  <1>1. CASE Shrinks
    BY <1>1 DEF Shrinks, InsertedInOrder
  <1>2. CASE ~Shrinks
    <2>1. PICK n \in Sid : /\ \A t \in Sid : t < n => t \in Inserted
                           /\ Inserted' = Inserted \cup {n}
      BY <1>2, KindsAreDisjoint
    <2> QED
      BY <2>1 DEF InsertedInOrder
  <1> QED
    BY <1>1, <1>2

LEMMA KindsKeepChoice ==
  ASSUME Types, StepKinds, InsertedInOrder, NEW c \in Conn, claim'[c] = claim[c], Chosen(c)
  PROVE  Chosen(c)'
  <1>1. CASE Shrinks
    <2>1. Others(c)' \subseteq Others(c) /\ Inserted' = Inserted
      BY <1>1 DEF Shrinks, Others, ActiveOthers, Active
    <2> QED
      BY <2>1 DEF Chosen
  <1>2. CASE ~Shrinks
    <2>1. PICK n \in Sid \ Inserted, d \in Device :
            /\ \A t \in Sid : t < n => t \in Inserted
            /\ Inserted' = Inserted \cup {n}
            /\ Active' \ {n} \subseteq Active
            /\ owner' = [owner EXCEPT ![n] = d]
      BY <1>2, KindsAreDisjoint
    <2>2. \A t \in Sid \ {n} : owner'[t] = owner[t]
      BY <2>1 DEF Types, TypeInv, TypeOK, StoreTypeOK
    <2>3. Others(c)' \ {n} \subseteq Others(c)
      BY <2>1, <2>2 DEF Others, ActiveOthers, Active
    <2>4. \A s \in Inserted : s < n
      BY <2>1, StoreAssumption DEF InsertedInOrder, Inserted, Sid, StoreAssumption
    <2> QED
      BY <2>1, <2>3, <2>4 DEF Chosen
  <1> QED
    BY <1>1, <1>2

LEMMA OldestChosen ==
  ASSUME Types, NEW c \in Conn, OldestActive(c)
  PROVE  Chosen(c)'
  <1>1. /\ claim \in [Conn -> Claim] /\ claim[c] \in Claim
        /\ Active' = Active /\ owner' = owner /\ Inserted' = Inserted
    BY DEF OldestActive, storeVars, rowVars, Active, Inserted, Types, TypeInv, TypeOK
  <1>2. PICK V \in SUBSET Others(c) :
          /\ \A s \in V, t \in Others(c) \ V : s < t
          /\ claim' = [claim EXCEPT ![c] = [claim[c] EXCEPT !.step = "grant", !.toPreempt = V]]
    BY DEF OldestActive
  <1>3. claim'[c].toPreempt = V /\ claim'[c].device = claim[c].device
    BY <1>1, <1>2 DEF Claim
  <1>4. Others(c)' = Others(c) /\ Others(c) \subseteq Inserted
    BY <1>1, <1>3 DEF Others, ActiveOthers, Active, Inserted
  <1> QED
    BY <1>1, <1>2, <1>3, <1>4 DEF Chosen

(* A request id has one outcome, and only outcomes on record are answered. *)
OutcomesUnique ==
  /\ answers \subseteq requests
  /\ \A a, b \in requests : a.device = b.device /\ a.id = b.id => a = b

LEMMA UniqueImpliesConsistent == OutcomesUnique => AnswersConsistent
  BY DEF OutcomesUnique, AnswersConsistent

LEMMA RecordKeepsUnique ==
  ASSUME OutcomesUnique, NEW d, NEW id, NEW s, PriorOutcome(d, id) = {},
         requests' = requests \cup ClaimEvent(d, id, s), Answer(ClaimEvent(d, id, s))
  PROVE  OutcomesUnique'
  <1>1. answers' \subseteq requests'
    BY DEF OutcomesUnique, Answer
  <1>2. \A a \in ClaimEvent(d, id, s), b \in requests : ~(a.device = b.device /\ a.id = b.id)
    BY DEF ClaimEvent, PriorOutcome
  <1>3. \A a, b \in ClaimEvent(d, id, s) : a = b
    BY DEF ClaimEvent
  <1> QED
    BY <1>1, <1>2, <1>3 DEF OutcomesUnique

LEMMA ReplayKeepsUnique ==
  ASSUME OutcomesUnique, NEW d, NEW id, requests' = requests,
         answers' \in {answers, answers \cup PriorOutcome(d, id)}
  PROVE  OutcomesUnique'
  BY DEF OutcomesUnique, PriorOutcome

LEMMA CommitKeepsUnique ==
  ASSUME OutcomesUnique, NEW c \in Conn,
         RejectCommit(c) \/ GrantCommit(c) \/ DuplicateRollback(c)
  PROVE  OutcomesUnique'
  <1> DEFINE d == claim[c].device
             id == claim[c].id
  <1>1. CASE RejectCommit(c)
    <2>1. /\ PriorOutcome(d, id) = {} /\ requests' = requests \cup ClaimEvent(d, id, 0)
          /\ Answer(ClaimEvent(d, id, 0))
      BY <1>1 DEF RejectCommit, Reject, Prior
    <2> QED
      BY <2>1, RecordKeepsUnique
  <1>2. CASE GrantCommit(c)
    <2>1. PriorOutcome(d, id) = {} /\ Grant(d, id, claim[c].toPreempt)
      BY <1>2 DEF GrantCommit, Prior
    <2>2. PICK s \in Sid : /\ requests' = requests \cup ClaimEvent(d, id, s)
                           /\ Answer(ClaimEvent(d, id, s))
      BY <2>1, Zenon DEF Grant
    <2> QED
      BY <2>1, <2>2, RecordKeepsUnique
  <1>3. CASE DuplicateRollback(c)
    BY <1>3, ReplayKeepsUnique DEF DuplicateRollback, Prior
  <1> QED
    BY <1>1, <1>2, <1>3
=============================================================================
