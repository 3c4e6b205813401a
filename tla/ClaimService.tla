--------------------------- MODULE ClaimService ---------------------------
(***************************************************************************)
(* What every claim strategy shares: the claims running on the pool's      *)
(* connections (playback.claim), idempotency (executeClaim), rollback      *)
(* (withTx), retry (withRetry) and the statements of common.ts.  A         *)
(* strategy decides which of these it runs, in which order and under which *)
(* locks.                                                                  *)
(***************************************************************************)
EXTENDS AccountStore

CONSTANT MaxRetry        \* withRetry's max

ASSUME RetryAssumption == MaxRetry \in Nat

VARIABLE claim           \* connection -> the claim it is running

vars == <<storeVars, claim>>

Modes == {"NORMAL", "TAKEOVER"}
Steps == {"idle", "read", "count", "choose", "grant"}

Claim ==
  [step : Steps, device : Device \cup {NoDevice},
   id : RequestId \cup {NoRequestId}, mode : Modes, attempt : 0..MaxRetry,
   seenMax : Limits \cup {0}, seenVersion : Nat,    \* readAccount's result
   excess : Int, toPreempt : SUBSET Sid]

NoClaim ==
  [step |-> "idle", device |-> NoDevice, id |-> NoRequestId, mode |-> "NORMAL",
   attempt |-> 0, seenMax |-> 0, seenVersion |-> 0, excess |-> 0, toPreempt |-> {}]

Running == {c \in Conn : claim[c].step # "idle"}
Others(c) == ActiveOthers(claim[c].device)
Prior(c) == PriorOutcome(claim[c].device, claim[c].id)
AtLimit(c) == Cardinality(Others(c)) >= claim[c].seenMax

Init == StoreInit /\ claim = [c \in Conn |-> NoClaim]
-----------------------------------------------------------------------------
(* playback.claim reads the policy, which decides the mode and may be      *)
(* stale (any mode); executeClaim finds no earlier outcome of this id.     *)
ClaimStart(c, d, id, mode) ==
  /\ claim[c].step = "idle"
  /\ PriorOutcome(d, id) = {}
  /\ Cardinality(Inserted) + Cardinality(Running) < MaxSession
  /\ claim' = [claim EXCEPT ![c] =
       [NoClaim EXCEPT !.step = "read", !.device = d, !.id = id, !.mode = mode]]
  /\ UNCHANGED storeVars

(* ... or it finds one, and answers it whatever became of the session. *)
ClaimReplay(d, id) ==
  /\ PriorOutcome(d, id) # {}
  /\ answers' = answers \cup PriorOutcome(d, id)
  /\ UNCHANGED <<rowVars, accountVars, requests, claim>>

(* withRetry after a ROLLBACK: from the first statement again, or give up. *)
Retry(c) ==
  claim' = [claim EXCEPT ![c] =
    IF claim[c].attempt = MaxRetry THEN NoClaim
    ELSE [NoClaim EXCEPT !.step = "read", !.device = claim[c].device,
            !.id = claim[c].id, !.mode = claim[c].mode, !.attempt = claim[c].attempt + 1]]

Finish(c) == claim' = [claim EXCEPT ![c] = NoClaim]

(* readAccount's result. *)
SeeAccount(c) ==
  claim' = [claim EXCEPT ![c] =
    [claim[c] EXCEPT !.step = "count", !.seenMax = maxStreams, !.seenVersion = version]]

(* countActive, when the claim may go on: room is left, or TAKEOVER. *)
CountActive(c) ==
  /\ claim[c].step = "count"
  /\ AtLimit(c) => claim[c].mode = "TAKEOVER"
  /\ claim' = [claim EXCEPT ![c] =
       [claim[c] EXCEPT !.step = "choose",
                        !.excess = Cardinality(Others(c)) - claim[c].seenMax + 1]]
  /\ UNCHANGED storeVars

(* Faulty: ORDER BY started_at DESC, the newest sessions are preempted. *)
NewestActive(c) ==
  /\ claim[c].step = "choose"
  /\ \E V \in SUBSET Others(c) :
       /\ \/ Cardinality(V) = claim[c].excess
          \/ Cardinality(V) < claim[c].excess /\ V = Others(c)
          \/ claim[c].excess <= 0 /\ V = {}
       /\ \A s \in V, t \in Others(c) \ V : s > t
       /\ claim' = [claim EXCEPT ![c] = [claim[c] EXCEPT !.step = "grant", !.toPreempt = V]]
  /\ UNCHANGED storeVars

(* oldestActive, a statement of its own: the `excess' oldest, or all that  *)
(* are left if fewer are active by now.                                    *)
OldestActive(c) ==
  /\ claim[c].step = "choose"
  /\ \E V \in SUBSET Others(c) :
       /\ \/ Cardinality(V) = claim[c].excess
          \/ Cardinality(V) < claim[c].excess /\ V = Others(c)
          \/ claim[c].excess <= 0 /\ V = {}
       /\ \A s \in V, t \in Others(c) \ V : s < t
       /\ claim' = [claim EXCEPT ![c] = [claim[c] EXCEPT !.step = "grant", !.toPreempt = V]]
  /\ UNCHANGED storeVars

(* The count reached the limit in NORMAL mode: the strategy rejects. *)
Rejects(c) == claim[c].step = "count" /\ claim[c].mode = "NORMAL" /\ AtLimit(c)

(* Faulty: no unique key on (device_id, client_request_id). *)
GrantTwice(c) ==
  Grant(claim[c].device, claim[c].id, claim[c].toPreempt) /\ Finish(c)

(* reject and grant, each with its COMMIT.  The event INSERT needs the id  *)
(* to be new (uq_event_request).                                           *)
RejectCommit(c) ==
  /\ Prior(c) = {}
  /\ Reject(claim[c].device, claim[c].id)
  /\ Finish(c)

GrantCommit(c) ==
  /\ Prior(c) = {}
  /\ Grant(claim[c].device, claim[c].id, claim[c].toPreempt)
  /\ Finish(c)

(* A concurrent duplicate committed first: the event INSERT fails with     *)
(* 1062, everything rolls back, the first one's outcome is the answer.     *)
DuplicateRollback(c) ==
  /\ Prior(c) # {}
  /\ answers' = answers \cup Prior(c)
  /\ Finish(c)
  /\ UNCHANGED <<rowVars, maxStreams, version, newLimit, requests>>

(* The connection, the server or the injected fault ends the claim before  *)
(* COMMIT: InnoDB rolls back and releases its locks.                       *)
ClaimAbort(c) ==
  /\ claim[c].step # "idle"
  /\ lock' = IF lock = c THEN Free ELSE lock
  /\ Finish(c)
  /\ UNCHANGED <<rowVars, maxStreams, version, newLimit, requests, answers>>

(* What happens around the strategy's own steps. *)
Around ==
  \/ \E c \in Conn, d \in Device, id \in RequestId \cup {NoRequestId}, mode \in Modes :
       ClaimStart(c, d, id, mode)
  \/ \E d \in Device, id \in RequestId : ClaimReplay(d, id)
  \/ \E c \in Conn : ClaimAbort(c)
  \/ StoreNext /\ UNCHANGED claim

(* A statement that was sent completes; the reaper's timer fires for ever  *)
(* and InnoDB grants the row lock in queue order, so a transaction that    *)
(* finds it free again and again gets it.                                  *)
StoreFairness ==
  /\ WF_vars((SettingsCommit \/ SettingsAbort) /\ UNCHANGED claim)
  /\ SF_vars(Reap /\ UNCHANGED claim)
-----------------------------------------------------------------------------
(* What a claim read is still so, and there is room for it once the        *)
(* sessions it chose are gone.                                             *)
RoomMade(c) ==
  /\ claim[c].step \in {"count", "choose", "grant"} => claim[c].seenMax = maxStreams
  /\ claim[c].step = "choose" =>
       \/ Cardinality(Others(c)) <= maxStreams - 1
       \/ Cardinality(Others(c)) <= maxStreams - 1 + claim[c].excess
  /\ claim[c].step = "grant" =>
       Cardinality(Others(c) \ claim[c].toPreempt) <= maxStreams - 1

TypeOK == StoreTypeOK /\ claim \in [Conn -> Claim]

(* withRetry, withTx: every claim ends: granted, rejected, answered from   *)
(* the log or failed.  None waits or retries for ever.                     *)
ClaimsEnd == \A c \in Conn : (claim[c].step # "idle") ~> (claim[c].step = "idle")

(* oldestActive: a granted TAKEOVER that stops one session of another      *)
(* device and spares another stopped the older one, however long the       *)
(* choice lay before the commit.                                           *)
PreemptOldestOnly ==
  [][\A c \in Conn, s, t \in Active :
       /\ claim[c].step = "grant" /\ claim'[c].step = "idle"
       /\ claim[c].device \notin {owner[s], owner[t]}
       /\ status'[s] = "PREEMPTED" /\ status'[t] = "PLAYING"
       => s < t]_vars

(* The strategy implements the abstract promise about one account. *)
Promise == INSTANCE StreamLimit WITH
  Session <- Sid, playing <- Active, retired <- Inserted \ Active, limit <- maxStreams
PromiseKept == Promise!Spec
=============================================================================
