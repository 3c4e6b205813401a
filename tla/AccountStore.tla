--------------------------- MODULE AccountStore ---------------------------
(***************************************************************************)
(* One account of the PlaySync database (every transaction of the service  *)
(* touches exactly one account): its account row, its playback_session     *)
(* rows and its request ids, and every operation on them that is the same  *)
(* whatever the claim strategy: heartbeat, pause, release, end-all,        *)
(* settings and the lease reaper.  The strategy modules add the claim.     *)
(*                                                                         *)
(* Time: left[s] is lease_expires_at - NOW(3) in ticks, so "active" is     *)
(* left[s] > 0.  Only differences with NOW(3) are ever compared by the     *)
(* code, so no absolute clock is needed and no bound on it.                *)
(*                                                                         *)
(* Atomicity: pause, release, end-all and one reaper pass lock the account *)
(* row first, run at READ COMMITTED and publish after COMMIT; only ticks   *)
(* and heartbeats could fall between their statements, so each is one step *)
(* that needs the row lock to be free.                                     *)
(***************************************************************************)
EXTENDS Integers, FiniteSets

CONSTANTS
  Device,      \* devices of the account
  Conn,        \* pool connections, each running at most one claim
  RequestId,   \* client_request_id values
  NoRequestId, \* a claim sent without one
  NoDevice,    \* "no device": the owner of a row not inserted yet
  Free,        \* the account row is not locked
  Settings,    \* the settings transaction, as a lock holder
  MaxSession,  \* bound: session rows ever inserted
  LeaseTicks,  \* lease duration (LEASE_MS)
  Skew,        \* most ticks between a heartbeat's NOW(3) and its commit
  Limits,      \* values of max_streams
  MaxVersion   \* bound: a settings change needs a smaller state_version

ASSUME StoreAssumption ==
  /\ MaxSession \in Nat
  /\ LeaseTicks \in Nat \ {0}
  /\ Skew \in Nat
  /\ MaxVersion \in Nat
  /\ Limits \subseteq Nat \ {0}
  /\ NoDevice \notin Device
  /\ NoRequestId \notin RequestId
  /\ Free \notin Conn /\ Settings \notin Conn /\ Free # Settings

Sid == 1..MaxSession          \* AUTO_INCREMENT: id order is started_at order
Status == {"NONE", "PLAYING", "PAUSED", "ENDED", "PREEMPTED", "EXPIRED"}
Request == [device : Device, id : RequestId, session : Sid \cup {0}]
NoBeat == -1                  \* no heartbeat of this session is running

VARIABLES
  status,      \* session -> status; "NONE" before the INSERT
  owner,       \* session -> device_id
  left,        \* session -> ticks of lease left (-Skew: lapsed or not playing)
  beat,        \* session -> age of its running heartbeat UPDATE, or NoBeat
  maxStreams,  \* account.max_streams
  version,     \* account.state_version
  lock,        \* holder of the X lock on the account row
  newLimit,    \* limit a settings transaction is about to write, 0 for none
  requests,    \* claim events with a request id; session 0: CLAIM_REJECTED
  answers      \* claim outcomes that reached a client

rowVars == <<status, owner, left, beat>>
accountVars == <<maxStreams, version, lock, newLimit>>
storeVars == <<rowVars, accountVars, requests, answers>>

Inserted == {s \in Sid : status[s] # "NONE"}
Open == {s \in Sid : status[s] \in {"PLAYING", "PAUSED"}}
Lapsed == {s \in Sid : status[s] = "PLAYING" /\ left[s] <= 0}

(* common.ts ACTIVE: PLAYING with an unexpired lease. *)
Active == {s \in Sid : status[s] = "PLAYING" /\ left[s] > 0}

(* countActive / listHolders: the claiming device's own session is not counted. *)
ActiveOthers(d) == {s \in Active : owner[s] # d}

StoreInit ==
  /\ status = [s \in Sid |-> "NONE"]
  /\ owner = [s \in Sid |-> NoDevice]
  /\ left = [s \in Sid |-> -Skew]
  /\ beat = [s \in Sid |-> NoBeat]
  /\ maxStreams \in Limits
  /\ version = 0
  /\ lock = Free
  /\ newLimit = 0
  /\ requests = {}
  /\ answers = {}
-----------------------------------------------------------------------------
(* Shared statements. *)

(* A status change of rows that leave PLAYING or PAUSED: no statement reads *)
(* the lease of a row that is not PLAYING.                                  *)
Retire(S, st) ==
  /\ status' = [s \in Sid |-> IF s \in S THEN st ELSE status[s]]
  /\ left' = [s \in Sid |-> IF s \in S THEN -Skew ELSE left[s]]

(* bumpVersion: state_version + 1 in the same transaction. *)
Bump == version' = version + 1

(* uq_event_request: the outcome an earlier claim with this id committed. *)
PriorOutcome(d, id) == {r \in requests : r.device = d /\ r.id = id}

(* writeEvent of CLAIM_GRANTED / CLAIM_REJECTED; a NULL id is never unique. *)
ClaimEvent(d, id, s) ==
  IF id = NoRequestId THEN {} ELSE {[device |-> d, id |-> id, session |-> s]}

(* The outcome reaches the client, or its connection is gone by then. *)
Answer(outcome) == answers' \in {answers, answers \cup outcome}

(* reject: the event only; the active set and the version stay. *)
Reject(d, id) ==
  /\ requests' = requests \cup ClaimEvent(d, id, 0)
  /\ Answer(ClaimEvent(d, id, 0))
  /\ UNCHANGED <<rowVars, maxStreams, version, newLimit>>

(* Faulty: grant ends only the device's PLAYING session, not a paused one. *)
GrantKeepsPaused(d, id, toPreempt) == \E s \in Sid :
  /\ s \notin Inserted
  /\ \A t \in Sid : t < s => t \in Inserted
  /\ LET gone == {t \in Sid : status[t] = "PLAYING" /\ (owner[t] = d \/ t \in toPreempt)}
     IN /\ status' = [t \in Sid |-> IF t = s THEN "PLAYING" ELSE IF t \in gone THEN "ENDED" ELSE status[t]]
        /\ left' = [t \in Sid |-> IF t = s THEN LeaseTicks ELSE IF t \in gone THEN -Skew ELSE left[t]]
  /\ owner' = [owner EXCEPT ![s] = d]
  /\ Bump
  /\ requests' = requests \cup ClaimEvent(d, id, s)
  /\ Answer(ClaimEvent(d, id, s))
  /\ UNCHANGED <<beat, maxStreams, newLimit>>

(* grant: preempt the chosen sessions that are still PLAYING, end the      *)
(* device's own open session, insert the new row, bump, write the events.  *)
Grant(d, id, toPreempt) == \E s \in Sid :
  /\ s \notin Inserted
  /\ \A t \in Sid : t < s => t \in Inserted
  /\ LET preempted == {t \in toPreempt : status[t] = "PLAYING"}
         own       == {t \in Open : owner[t] = d}
     IN /\ status' = [t \in Sid |-> IF t = s THEN "PLAYING"
                                    ELSE IF t \in own THEN "ENDED"
                                    ELSE IF t \in preempted THEN "PREEMPTED"
                                    ELSE status[t]]
        /\ left' = [t \in Sid |-> IF t = s THEN LeaseTicks
                                  ELSE IF t \in own \cup preempted THEN -Skew
                                  ELSE left[t]]
  /\ owner' = [owner EXCEPT ![s] = d]
  /\ Bump
  /\ requests' = requests \cup ClaimEvent(d, id, s)
  /\ Answer(ClaimEvent(d, id, s))
  /\ UNCHANGED <<beat, maxStreams, newLimit>>
-----------------------------------------------------------------------------
(* Heartbeat: one autocommit UPDATE.  NOW(3) is fixed when the statement   *)
(* starts; the new lease is visible to others when it commits.  A session  *)
(* that is not PLAYING never is again: its heartbeats change nothing.      *)
HeartbeatStart(s) ==
  /\ status[s] = "PLAYING" /\ beat[s] = NoBeat
  /\ beat' = [beat EXCEPT ![s] = 0]
  /\ UNCHANGED <<status, owner, left, accountVars, requests, answers>>

(* Faulty: the fence compares with >= instead of >. *)
HeartbeatOffByOne(s) ==
  /\ beat[s] # NoBeat
  /\ status[s] = "PLAYING" /\ left[s] + beat[s] >= 0
  /\ left' = [left EXCEPT ![s] = LeaseTicks - beat[s]]
  /\ beat' = [beat EXCEPT ![s] = NoBeat]
  /\ UNCHANGED <<status, owner, accountVars, requests, answers>>

(* Its fence: PLAYING, own device, lease_expires_at > NOW(3) at its start. *)
HeartbeatCommit(s) ==
  /\ beat[s] # NoBeat
  /\ status[s] = "PLAYING" /\ left[s] + beat[s] > 0
  /\ left' = [left EXCEPT ![s] = LeaseTicks - beat[s]]
  /\ beat' = [beat EXCEPT ![s] = NoBeat]
  /\ UNCHANGED <<status, owner, accountVars, requests, answers>>

(* The fence matched no row (410, HEARTBEAT_REJECTED), or the statement    *)
(* was lost with its connection.                                           *)
HeartbeatLost(s) ==
  /\ beat[s] # NoBeat
  /\ beat' = [beat EXCEPT ![s] = NoBeat]
  /\ UNCHANGED <<status, owner, left, accountVars, requests, answers>>

(* endOrPause(PAUSED): fenced like the heartbeat; otherwise 410, no change. *)
Pause(s) ==
  /\ lock = Free /\ s \in Active
  /\ Retire({s}, "PAUSED") /\ Bump
  /\ UNCHANGED <<owner, beat, maxStreams, lock, newLimit, requests, answers>>

(* Faulty: the UPDATE's WHERE clause names the session but no status. *)
ReleaseAnyStatus(s) ==
  /\ lock = Free /\ s \in Inserted
  /\ Retire({s}, "ENDED") /\ Bump
  /\ UNCHANGED <<owner, beat, maxStreams, lock, newLimit, requests, answers>>

(* endOrPause(RELEASED): a paused session may be released too. *)
Release(s) ==
  /\ lock = Free /\ (s \in Active \/ status[s] = "PAUSED")
  /\ Retire({s}, "ENDED") /\ Bump
  /\ UNCHANGED <<owner, beat, maxStreams, lock, newLimit, requests, answers>>

(* endAll: every open session, lapsed ones included. *)
EndAll ==
  /\ lock = Free /\ Open # {}
  /\ Retire(Open, "ENDED") /\ Bump
  /\ UNCHANGED <<owner, beat, maxStreams, lock, newLimit, requests, answers>>

(* Faulty: the reaper does not bump state_version. *)
ReapNoBump ==
  /\ lock = Free /\ Lapsed # {}
  /\ Retire(Lapsed, "EXPIRED")
  /\ UNCHANGED <<owner, beat, maxStreams, version, lock, newLimit, requests, answers>>

(* Faulty: the reaper looks for leases that ended before now, not at now. *)
ReapStrictly ==
  LET late == {s \in Lapsed : left[s] < 0}
  IN /\ lock = Free /\ late # {}
     /\ Retire(late, "EXPIRED") /\ Bump
     /\ UNCHANGED <<owner, beat, maxStreams, lock, newLimit, requests, answers>>

(* reapAccount: expire what lapsed; nothing to do is not a step. *)
Reap ==
  /\ lock = Free /\ Lapsed # {}
  /\ Retire(Lapsed, "EXPIRED") /\ Bump
  /\ UNCHANGED <<owner, beat, maxStreams, lock, newLimit, requests, answers>>

(* Faulty: the limit is lowered without counting what plays. *)
SettingsNoCount(m) ==
  /\ lock = Free /\ version < MaxVersion
  /\ lock' = Settings /\ newLimit' = m
  /\ UNCHANGED <<rowVars, maxStreams, version, requests, answers>>

(* updateSettings: lock, count; too many active sessions is a 409. *)
SettingsCount(m) ==
  /\ lock = Free /\ version < MaxVersion
  /\ Cardinality(Active) <= m
  /\ lock' = Settings /\ newLimit' = m
  /\ UNCHANGED <<rowVars, maxStreams, version, requests, answers>>

(* ... then UPDATE account, bump, COMMIT. *)
SettingsCommit ==
  /\ lock = Settings
  /\ maxStreams' = newLimit /\ Bump
  /\ lock' = Free /\ newLimit' = 0
  /\ UNCHANGED <<rowVars, requests, answers>>

(* ... or the transaction dies and InnoDB rolls it back. *)
SettingsAbort ==
  /\ lock = Settings
  /\ lock' = Free /\ newLimit' = 0
  /\ UNCHANGED <<rowVars, maxStreams, version, requests, answers>>

(* The DB clock.  It waits only for heartbeats that are Skew ticks old. *)
Tick ==
  /\ \A s \in Sid : beat[s] < Skew
  /\ left' = [s \in Sid |-> IF left[s] > -Skew THEN left[s] - 1 ELSE left[s]]
  /\ beat' = [s \in Sid |-> IF beat[s] = NoBeat THEN NoBeat ELSE beat[s] + 1]
  /\ UNCHANGED <<status, owner, accountVars, requests, answers>>

StoreNext ==
  \/ \E s \in Sid : \/ HeartbeatStart(s) \/ HeartbeatCommit(s) \/ HeartbeatLost(s)
                    \/ Pause(s) \/ Release(s)
  \/ EndAll
  \/ Reap
  \/ \E m \in Limits : SettingsCount(m)
  \/ SettingsCommit
  \/ SettingsAbort
  \/ Tick
-----------------------------------------------------------------------------
(* Type invariant of the tables. *)
StoreTypeOK ==
  /\ status \in [Sid -> Status]
  /\ owner \in [Sid -> Device \cup {NoDevice}]
  /\ left \in [Sid -> (-Skew)..LeaseTicks]
  /\ beat \in [Sid -> NoBeat..Skew]
  /\ maxStreams \in Limits
  /\ version \in Nat
  /\ lock \in Conn \cup {Free, Settings}
  /\ newLimit \in Limits \cup {0}
  /\ requests \subseteq Request
  /\ answers \subseteq Request

(* The stream limit (common.ts "active", checks.ts "limit"): never more    *)
(* active sessions than max_streams, whatever claims, heartbeats, settings *)
(* changes and lapses interleave.                                          *)
LimitRespected == Cardinality(Active) <= maxStreams

(* endDeviceSessions: a device has at most one PLAYING or PAUSED session   *)
(* (checks.ts "one per device").                                           *)
OneOpenPerDevice ==
  \A s, t \in Open : owner[s] = owner[t] => s = t

(* executeClaim: a request id has one outcome.  Double clicks, retries and *)
(* concurrent duplicates are all told the same session, or all refused,    *)
(* and nothing is answered that is not committed.                          *)
AnswersConsistent ==
  /\ answers \subseteq requests
  /\ \A a, b \in answers : a.device = b.device /\ a.id = b.id => a = b

(* heartbeat/leaseReaper.ts: a session that stopped being active (lapsed,  *)
(* paused, ended, preempted, expired) is never active again.               *)
NeverRevived ==
  [][\A s \in Inserted : s \notin Active => s \notin Active']_storeVars

(* "every change to the active set bumps state_version" (optimistic.ts),   *)
(* except a lapse: a step that makes a session active, that changes a      *)
(* status or the limit has a larger version.                               *)
ChangesBumpVersion ==
  [][ /\ status' # status => version' > version
      /\ maxStreams' # maxStreams => version' > version
      /\ ~(Active' \subseteq Active) => version' > version ]_storeVars

(* A session leaves ENDED, PREEMPTED and EXPIRED never, and PAUSED only to *)
(* ENDED: a resumed song is a new session.                                 *)
FinalStatusesFinal ==
  [][\A s \in Sid :
       /\ status[s] \in {"ENDED", "PREEMPTED", "EXPIRED"} => status'[s] = status[s]
       /\ status[s] = "PAUSED" => status'[s] \in {"PAUSED", "ENDED"}]_storeVars

(* The reaper runs for ever: a lapsed session does not stay PLAYING. *)
LapsedIsReaped ==
  \A s \in Sid : (s \in Lapsed) ~> (status[s] # "PLAYING")
=============================================================================
