----------------------------- MODULE LostUpdate -----------------------------
(***************************************************************************)
(* One trial of the lost-update experiment (server/src/lab/lostUpdate.ts): *)
(* every worker adds one to song.play_count, in the way of the variant,    *)
(* and the trial reports lost = succeeded - finalCount.                    *)
(***************************************************************************)
EXTENDS Naturals, Integers, FiniteSets

CONSTANTS
  Worker,          \* one per increment, each with a lab-pool connection
  Variants,        \* the variants tried
  CasMaxAttempts,  \* CAS_MAX_ATTEMPTS
  RetryMax,        \* withRetry's max
  Free             \* nobody holds the row lock

AllVariants == {"NAIVE_RMW", "ATOMIC", "LOCKED", "CAS"}

ASSUME TrialAssumption ==
  /\ Variants \subseteq AllVariants
  /\ IsFiniteSet(Worker)
  /\ Free \notin Worker
  /\ CasMaxAttempts \in Nat \ {0}
  /\ RetryMax \in Nat

(* validate: increments <= LAB_POOL_SIZE, 120 unless configured, and       *)
(* CAS_MAX_ATTEMPTS is 500.                                                *)
ASSUME PoolAssumption == Cardinality(Worker) <= CasMaxAttempts

VARIABLES
  variant,   \* the trial's
  count,     \* play_count as committed
  lock,      \* who holds the row's X lock across statements
  step,      \* where each worker is
  seen,      \* the value its SELECT returned
  retries    \* how often it started over

vars == <<variant, count, lock, step, seen, retries>>

(* "read": the SELECT returned, the race delay runs.  "written": the       *)
(* increment is committed, its answer is under way.  "unanswered": it was  *)
(* committed, but the connection failed first; the trial counts an error.  *)
Step == {"start", "read", "written", "succeeded", "unanswered", "failed"}

MaxRetries == IF variant = "LOCKED" THEN RetryMax ELSE CasMaxAttempts

TypeOK ==
  /\ variant \in Variants
  /\ count \in Nat
  /\ lock \in Worker \cup {Free}
  /\ step \in [Worker -> Step]
  /\ seen \in [Worker -> Nat]
  /\ retries \in [Worker -> 0 .. MaxRetries]

Applied == {w \in Worker : step[w] \in {"written", "succeeded", "unanswered"}}
Succeeded == {w \in Worker : step[w] = "succeeded"}
AtDatabase == {w \in Worker : step[w] \in {"written", "unanswered"}}
lost == Cardinality(Succeeded) - count

Init ==
  /\ variant \in Variants
  /\ count = 0
  /\ lock = Free
  /\ step = [w \in Worker |-> "start"]
  /\ seen = [w \in Worker |-> 0]
  /\ retries = [w \in Worker |-> 0]

Write(w, value) ==
  /\ step[w] = "read"
  /\ count' = value
  /\ step' = [step EXCEPT ![w] = "written"]
  /\ seen' = [seen EXCEPT ![w] = 0]
  /\ UNCHANGED <<variant, retries>>

(* The SELECT, plain or FOR UPDATE. *)
Read(w) ==
  /\ step[w] = "start"
  /\ variant # "ATOMIC"
  /\ lock = Free
  /\ lock' = IF variant = "LOCKED" THEN w ELSE Free
  /\ step' = [step EXCEPT ![w] = "read"]
  /\ seen' = [seen EXCEPT ![w] = count]
  /\ UNCHANGED <<variant, count, retries>>

NaiveWrite(w) ==
  /\ variant = "NAIVE_RMW"
  /\ Write(w, seen[w] + 1)
  /\ UNCHANGED lock

AtomicUpdate(w) ==
  /\ variant = "ATOMIC"
  /\ step[w] = "start"
  /\ count' = count + 1
  /\ step' = [step EXCEPT ![w] = "written"]
  /\ UNCHANGED <<variant, lock, seen, retries>>

(* UPDATE and COMMIT: nobody reads the row in between. *)
LockedCommit(w) ==
  /\ variant = "LOCKED"
  /\ Write(w, seen[w] + 1)
  /\ lock' = Free

(* 1205 while it waits for the row: withRetry starts over, at most         *)
(* RetryMax times.                                                         *)
LockTimeout(w) ==
  /\ variant = "LOCKED"
  /\ step[w] = "start"
  /\ lock # Free
  /\ IF retries[w] < RetryMax
     THEN retries' = [retries EXCEPT ![w] = @ + 1] /\ UNCHANGED step
     ELSE step' = [step EXCEPT ![w] = "failed"] /\ UNCHANGED retries
  /\ UNCHANGED <<variant, count, lock, seen>>

(* Faulty: the UPDATE without AND play_count = ?. *)
CasUnchecked(w) == variant = "CAS" /\ Write(w, seen[w] + 1) /\ UNCHANGED lock

CasWrite(w) ==
  /\ variant = "CAS"
  /\ count = seen[w]
  /\ Write(w, seen[w] + 1)
  /\ UNCHANGED lock

(* Faulty: the next attempt reuses the stale value. *)
CasKeepsStale(w) ==
  /\ variant = "CAS"
  /\ step[w] = "read"
  /\ count # seen[w]
  /\ retries' = [retries EXCEPT ![w] = @ + 1]
  /\ step' = [step EXCEPT ![w] = IF retries[w] + 1 < CasMaxAttempts THEN "read" ELSE "failed"]
  /\ UNCHANGED <<variant, count, lock, seen>>

(* affectedRows is 0: read afresh, until the attempts are used up. *)
CasConflict(w) ==
  /\ variant = "CAS"
  /\ step[w] = "read"
  /\ count # seen[w]
  /\ retries' = [retries EXCEPT ![w] = @ + 1]
  /\ step' = [step EXCEPT ![w] = IF retries[w] + 1 < CasMaxAttempts THEN "start" ELSE "failed"]
  /\ seen' = [seen EXCEPT ![w] = 0]
  /\ UNCHANGED <<variant, count, lock>>

(* A statement fails before it changes anything; withTx rolls back. *)
Fail(w) ==
  /\ step[w] \in {"start", "read"}
  /\ step' = [step EXCEPT ![w] = "failed"]
  /\ seen' = [seen EXCEPT ![w] = 0]
  /\ lock' = IF lock = w THEN Free ELSE lock
  /\ UNCHANGED <<variant, count, retries>>

(* The answer arrives, or the connection fails before it. *)
Succeed(w) ==
  /\ step[w] = "written"
  /\ step' = [step EXCEPT ![w] = "succeeded"]
  /\ UNCHANGED <<variant, count, lock, seen, retries>>

LoseAnswer(w) ==
  /\ step[w] = "written"
  /\ step' = [step EXCEPT ![w] = "unanswered"]
  /\ UNCHANGED <<variant, count, lock, seen, retries>>

WorkerStep(w) ==
  \/ Read(w)
  \/ NaiveWrite(w)
  \/ AtomicUpdate(w)
  \/ LockedCommit(w)
  \/ LockTimeout(w)
  \/ CasWrite(w)
  \/ CasConflict(w)
  \/ Fail(w)
  \/ Succeed(w)
  \/ LoseAnswer(w)

Next == \E w \in Worker : WorkerStep(w)

Spec == Init /\ [][Next]_vars
-----------------------------------------------------------------------------
(* ATOMIC, LOCKED, CAS "PREVENT lost updates": at every moment of a trial  *)
(* the reported loss is minus the increments that are not answered (yet),  *)
(* so it is never positive, and zero when every worker was answered.       *)
LossIsUnanswered == variant # "NAIVE_RMW" => lost = -Cardinality(AtDatabase)

(* Every variant: no increment is counted twice, whatever fails. *)
NoneCountedTwice == count <= Cardinality(Applied)

(* cas: a conflict means another worker's increment got in, so no worker   *)
(* uses up its attempts and "gave up after ..." is never thrown.           *)
CasNeverGivesUp ==
  \A w \in Worker : variant = "CAS" => retries[w] < CasMaxAttempts
=============================================================================
