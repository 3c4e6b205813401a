----------------------------- MODULE RedisLease -----------------------------
(***************************************************************************)
(* REDIS_LEASE: one slot key per stream in Redis lets claims in, MySQL     *)
(* keeps the sessions.  Every Redis call is one step; what a handler does  *)
(* in several calls (GET, then DEL or PEXPIRE, key after key) is several.  *)
(***************************************************************************)
EXTENDS StrategyClaims, Sequences

CONSTANT MaxCalls        \* bound: loops over the keys under way at a time

ASSUME CallsAssumption == MaxCalls \in Nat \ {0}

VARIABLES
  slots,      \* the keys that are set, the oldest value first
  calls       \* the loops over the keys that handlers are in

redisVars == <<txVars, slots, calls>>

Key == 1..maxStreams      \* keys beyond max_streams are never set here
Call == [op : {"extend", "pexpire", "free", "del", "clear"},
         device : Device \cup {NoDevice}, key : Nat]

Taken == {slots[i].key : i \in DOMAIN slots}
Holder(k) == {slots[i].device : i \in {j \in DOMAIN slots : slots[j].key = k}}
Holds(d) == \E k \in Taken : d \in Holder(k)

(* The slots at the positions S, in their order (one sequence). *)
Kept(S) ==
  {[i \in 1..Cardinality(S) |-> slots[at[i]]] :
     at \in {f \in [1..Cardinality(S) -> S] :
               \A i, j \in 1..Cardinality(S) : i < j => f[i] < f[j]}}
Without(k) == Kept({i \in DOMAIN slots : slots[i].key # k})
Hand(k, d) == {Append(rest, [key |-> k, device |-> d, left |-> LeaseTicks]) : rest \in Without(k)}
Begin(op, d) ==
  /\ Cardinality(calls) < MaxCalls
  /\ calls' = calls \cup {[op |-> op, device |-> d, key |-> 1]}

RedisInit == slots = <<>> /\ calls = {}
-----------------------------------------------------------------------------
(* The claim. *)
RedisRead(c) ==
  /\ claim[c].step = "read" /\ SeeLimit(c)
  /\ UNCHANGED <<storeVars, tx, slots, calls>>

Admitted(c, k, victim) ==
  /\ slots' \in Hand(k, claim[c].device)
  /\ claim' = [claim EXCEPT ![c].step = "choose"]
  /\ tx' = [tx EXCEPT ![c].victim = victim]
  /\ UNCHANGED <<storeVars, calls>>

(* ACQUIRE, one Lua script: the device's own slot is refreshed,            *)
AcquireOwn(c) == claim[c].step = "count" /\ \E k \in Taken :
  claim[c].device \in Holder(k) /\ Admitted(c, k, NoDevice)

(* Faulty: a free key is tried before the device's own. *)
AcquireFreeFirst(c) == claim[c].step = "count" /\ \E k \in Key \ Taken :
  (\A j \in Key \ Taken : k <= j) /\ Admitted(c, k, NoDevice)

(* or the first free key taken,                                            *)
AcquireFree(c) == claim[c].step = "count" /\ \E k \in Key \ Taken :
  ~Holds(claim[c].device) /\ (\A j \in Key \ Taken : k <= j) /\ Admitted(c, k, NoDevice)

(* or, in TAKEOVER, the oldest slot stolen from its device;                *)
AcquireSteal(c) ==
  /\ claim[c].step = "count" /\ claim[c].mode = "TAKEOVER"
  /\ Taken = Key /\ ~Holds(claim[c].device)
  /\ Admitted(c, Head(slots).key, Head(slots).device)

(* otherwise the claim is rejected. *)
AcquireNone(c) ==
  /\ claim[c].step = "count" /\ claim[c].mode = "NORMAL"
  /\ Taken = Key /\ ~Holds(claim[c].device)
  /\ claim' = [claim EXCEPT ![c].step = "grant"]
  /\ tx' = [tx EXCEPT ![c].stage = "taken"]
  /\ UNCHANGED <<storeVars, slots, calls>>

(* What the device that lost its slot plays, lapsed or not. *)
RedisChoose(c) ==
  /\ claim[c].step = "choose"
  /\ claim' = [claim EXCEPT ![c].step = "grant", ![c].toPreempt =
       {s \in Sid : status[s] = "PLAYING" /\ owner[s] = tx[c].victim}]
  /\ UNCHANGED <<storeVars, tx, slots, calls>>

(* preempt, endDeviceSessions, INSERT.  An uncommitted session of the same *)
(* device is not seen at READ COMMITTED. *)
RedisInsert(c) ==
  LET ends == OwnOpen(c) \cup Preempted(c)
  IN /\ At(c, "start") /\ ends \cap LockedByOthers(c) = {}
     /\ tx' = [tx EXCEPT ![c].stage = "inserted", ![c].own = OwnOpen(c), ![c].rows = ends]
     /\ UNCHANGED <<storeVars, claim, slots, calls>>

(* bumpVersion, the events, COMMIT.  A TAKEOVER has more to do. *)
RedisGrant(c) ==
  /\ At(c, "inserted") /\ Prior(c) = {}
  /\ CommitGrant(c, tx[c].own)
  /\ IF claim[c].mode = "NORMAL" THEN Finish(c) /\ Over(c)
     ELSE tx' = [tx EXCEPT ![c] = [NoTx EXCEPT !.stage = "committed"]] /\ UNCHANGED claim
  /\ UNCHANGED <<slots, calls>>

(* Any error after ACQUIRE frees the device's slot: a duplicate's 1062,    *)
RedisDuplicate(c) ==
  /\ At(c, "inserted") /\ Prior(c) # {}
  /\ Duplicate(c) /\ Begin("free", claim[c].device) /\ UNCHANGED slots

(* a deadlock (sessions before account) after the last retry; before that, *)
(* the transaction alone is run again,                                     *)
RedisDeadlock(c) ==
  /\ At(c, "inserted") /\ tx[c].rows # {}
  /\ IF claim[c].attempt < MaxRetry
     THEN /\ claim' = [claim EXCEPT ![c].step = "choose", ![c].attempt = @ + 1, ![c].toPreempt = {}]
          /\ tx' = [tx EXCEPT ![c] = [NoTx EXCEPT !.victim = tx[c].victim]]
          /\ UNCHANGED calls
     ELSE Finish(c) /\ Over(c) /\ Begin("free", claim[c].device)
  /\ UNCHANGED <<storeVars, slots>>

(* or what ends the transaction or the reconciliation for good. *)
RedisFails(c) ==
  /\ claim[c].step \in {"choose", "grant"} /\ tx[c].stage # "taken"
  /\ Finish(c) /\ Over(c) /\ Begin("free", claim[c].device)
  /\ UNCHANGED <<storeVars, slots>>

(* reconcile: the oldest sessions of other devices beyond the limit go.    *)
RedisReconcile(c) == \E V \in SUBSET Others(c) :
  LET excess == Cardinality(Active) - claim[c].seenMax
      want   == IF excess > 0 THEN excess ELSE 0
  IN /\ At(c, "committed") /\ V \cap LockedByOthers(c) = {}
     /\ \A s \in V, t \in Others(c) \ V : s < t
     /\ \/ Cardinality(V) = want
        \/ Cardinality(V) < want /\ V = Others(c)
     /\ Retire(V, "PREEMPTED")
     /\ IF V = {} THEN UNCHANGED version ELSE Bump
     /\ Finish(c) /\ Over(c)
     /\ UNCHANGED <<owner, beat, maxStreams, lock, newLimit, requests, answers, slots, calls>>

RedisStep(c) ==
  \/ RedisRead(c) \/ AcquireOwn(c) \/ AcquireFree(c) \/ AcquireSteal(c) \/ AcquireNone(c)
  \/ RedisChoose(c) \/ RedisInsert(c) \/ RedisGrant(c) \/ RedisDuplicate(c)
  \/ RedisDeadlock(c) \/ RedisReconcile(c)
  \/ RefusedReject(c) /\ UNCHANGED <<slots, calls>>
-----------------------------------------------------------------------------
(* The hooks of the other operations, after their commit. *)
Pass(call) ==     \* the loop goes on to the next key
  calls' = (calls \ {call}) \cup
    (IF call.key = maxStreams THEN {}
     ELSE {[call EXCEPT !.key = @ + 1, !.op = IF @ = "del" THEN "free" ELSE @]})
Done(call) == calls' = calls \ {call}
Found(call, op) == calls' = (calls \ {call}) \cup {[call EXCEPT !.op = op]}

(* extendSlot, after a heartbeat: GET, then PEXPIRE whoever has the key. *)
ExtendLook(call) ==
  /\ call.op = "extend"
  /\ IF call.device \in Holder(call.key) THEN Found(call, "pexpire") ELSE Pass(call)
  /\ UNCHANGED slots

ExtendSlot(call) ==
  /\ call.op = "pexpire" /\ Done(call)
  /\ slots' = [i \in DOMAIN slots |->
       IF slots[i].key = call.key THEN [slots[i] EXCEPT !.left = LeaseTicks] ELSE slots[i]]

(* freeSlots, after pause, release or a failed claim: GET, then DEL. *)
FreeLook(call) ==
  /\ call.op = "free"
  /\ IF call.device \in Holder(call.key) THEN Found(call, "del") ELSE Pass(call)
  /\ UNCHANGED slots

FreeSlot(call) == call.op = "del" /\ slots' \in Without(call.key) /\ Pass(call)

(* freeAllSlots, after end-all. *)
ClearSlot(call) == call.op = "clear" /\ slots' \in Without(call.key) /\ Pass(call)

(* Redis or the process fails, or it restarts and knows of no slots        *)
(* (inUse): the rest of the loop is lost.                                  *)
CallLost(call) == Done(call) /\ UNCHANGED slots

HookStep ==
  /\ \E call \in calls : \/ ExtendLook(call) \/ ExtendSlot(call) \/ FreeLook(call)
                         \/ FreeSlot(call) \/ ClearSlot(call)
  /\ UNCHANGED <<txVars>>
HookLost == (\E call \in calls : CallLost(call)) /\ UNCHANGED txVars

(* The TTLs. *)
SlotsExpire == \E rest \in Kept({i \in DOMAIN slots : slots[i].left > 1}) :
  slots' = [i \in DOMAIN rest |-> [rest[i] EXCEPT !.left = @ - 1]]

HeartbeatExtends(s) == Heartbeat(s) /\ Begin("extend", owner[s]) /\ UNCHANGED slots
StopFrees(s) == (Pause(s) \/ Release(s)) /\ Begin("free", owner[s]) /\ UNCHANGED slots
EndAllClears ==
  /\ lock = Free
  /\ EndAll \/ (Open = {} /\ slots # <<>> /\ UNCHANGED storeVars)
  /\ Begin("clear", NoDevice) /\ UNCHANGED slots

RedisOperations ==
  \/ \E s \in Sid : HeartbeatExtends(s) \/ StopFrees(s)
  \/ EndAllClears
  \/ Reap /\ UNCHANGED <<slots, calls>>
  \/ Tick /\ SlotsExpire /\ UNCHANGED calls
-----------------------------------------------------------------------------
(* redisLease.ts "each account has max_streams slot keys": no key has two  *)
(* devices and no device two keys, whatever claims, steals, frees and      *)
(* expirations did in which order.                                         *)
OneSlotEach ==
  \A i, j \in DOMAIN slots :
    slots[i].key = slots[j].key \/ slots[i].device = slots[j].device => i = j
=============================================================================
