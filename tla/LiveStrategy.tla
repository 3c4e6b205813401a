--------------------------- MODULE LiveStrategy ---------------------------
(***************************************************************************)
(* The service as it runs: a claim uses the live strategy of the moment it *)
(* starts, and setLiveStrategy may change it at any time, while claims are *)
(* under way.  So PESSIMISTIC claims, which rely on the account lock       *)
(* alone, and OPTIMISTIC ones, which rely on state_version alone, meet on  *)
(* one account, in every mixture.                                          *)
(***************************************************************************)
EXTENDS ClaimService

VARIABLE uses      \* connection -> strategy of the claim it runs, or "NONE"

liveVars == <<vars, uses>>
Strategies == {"PESSIMISTIC", "OPTIMISTIC"}

P == INSTANCE Pessimistic
O == INSTANCE Optimistic

LiveInit == Init /\ uses = [c \in Conn |-> "NONE"]

(* What the claims that go on use stays; a claim that ends uses nothing. *)
KeepUses ==
  uses' = [c \in Conn |-> IF claim'[c].step = "idle" THEN "NONE" ELSE uses[c]]

(* claim: strategies[liveStrategy] is looked up once, when it starts. *)
Start(c, live) ==
  /\ \E d \in Device, id \in RequestId \cup {NoRequestId}, mode \in Modes : ClaimStart(c, d, id, mode)
  /\ uses' = [uses EXCEPT ![c] = live]

PessimisticStep(c) ==
  /\ uses[c] = "PESSIMISTIC"
  /\ P!ClaimLock(c) \/ P!ClaimLockTimeout(c) \/ P!Locked(c)
  /\ KeepUses

OptimisticStep(c) == uses[c] = "OPTIMISTIC" /\ O!ClaimStep(c) /\ KeepUses

Beside ==
  /\ \/ \E d \in Device, id \in RequestId : ClaimReplay(d, id)
     \/ \E c \in Conn : ClaimAbort(c)
     \/ StoreNext /\ UNCHANGED claim
  /\ KeepUses

LiveNext ==
  \/ \E c \in Conn, live \in Strategies : Start(c, live)
  \/ \E c \in Conn : PessimisticStep(c) \/ OptimisticStep(c)
  \/ Beside

LiveSpec == LiveInit /\ [][LiveNext]_liveVars

(* A claim's statements complete; the row lock is granted in queue order.  *)
LiveFairSpec ==
  /\ LiveSpec /\ StoreFairness
  /\ \A c \in Conn :
       /\ SF_vars(uses[c] = "PESSIMISTIC" /\ P!ClaimLock(c))
       /\ WF_vars(\/ uses[c] = "PESSIMISTIC" /\ P!Locked(c)
                  \/ uses[c] = "OPTIMISTIC" /\ O!ClaimStep(c))
-----------------------------------------------------------------------------
(* Why the limit holds for any mixture: a PESSIMISTIC claim holds the row  *)
(* lock that an OPTIMISTIC one needs to commit, and bumps the version the  *)
(* OPTIMISTIC one compares.                                                *)
LockHolder ==
  /\ lock = Settings <=> newLimit # 0
  /\ \A c \in Conn : lock = c <=> uses[c] = "PESSIMISTIC" /\ claim[c].step \in P!InTx

ReadStillValid ==
  \A c \in Conn : uses[c] = "PESSIMISTIC" \/ claim[c].seenVersion = version => RoomMade(c)

LimitInv ==
  /\ LimitRespected /\ LockHolder /\ ReadStillValid
  /\ \A c \in Conn : /\ claim[c].seenVersion <= version
                     /\ uses[c] = "NONE" <=> claim[c].step = "idle"
  /\ lock = Settings => Cardinality(Active) <= newLimit
=============================================================================
