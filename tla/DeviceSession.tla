--------------------------- MODULE DeviceSession ---------------------------
(***************************************************************************)
(* One device of the web client (useDeviceSession.ts and its socket)       *)
(* against the server: requests, answers, timers and pushes that cross     *)
(* each other.  Of the snapshots only the first one a page applies acts on *)
(* the hook (the adoption); the others are rendered.                       *)
(***************************************************************************)
EXTENDS Integers, FiniteSets

CONSTANTS
  MaxSession,   \* bound: sessions the device is granted
  MaxFlight     \* bound: requests in flight
ASSUME DeviceAssumption == {MaxSession, MaxFlight} \subseteq Nat

NoSession == 0
Sid == 1 .. MaxSession
Lease == 3             \* LEASE_MS in heartbeat periods

VARIABLES
  row,        \* the server's: the device's newest session, the older ones are over
  \* the hook's state
  phase, sid, offline, busy, adopted,
  \* in between
  joined,     \* the socket is connected and in the rooms of account and device
  requests,   \* HTTP requests that have not returned
  snapshot,   \* a snapshot that was read and not delivered
  lost        \* session_lost pushes not delivered

session == <<phase, sid>>
page == <<offline, busy, adopted>>
pushes == <<snapshot, lost>>
deviceVars == <<row, session, page, joined, requests, pushes>>

RequestKind == {"claim", "pause", "release", "trackEnd", "beat"}
\* a request is "sent" or, by a page that is gone, "unheard"; its answer is "ok" or "refused"

NoRow == [id |-> NoSession, status |-> "none", left |-> 0]
NoSessions == [mine |-> NoSession, status |-> "none"]

DeviceInit ==
  /\ row = NoRow
  /\ phase = "idle" /\ sid = NoSession
  /\ offline = FALSE /\ busy = FALSE /\ adopted = FALSE
  /\ joined = FALSE /\ requests = {} /\ snapshot = NoSessions /\ lost = {}

Alive == row.status = "PLAYING" /\ row.left > 0
Open == Alive \/ row.status = "PAUSED"
-----------------------------------------------------------------------------
(* The server. *)
Over == [row EXCEPT !.status = "OVER", !.left = 0]

(* Time passes by one heartbeat period. *)
Tick ==
  /\ Alive
  /\ row' = [row EXCEPT !.left = @ - 1]
  /\ UNCHANGED <<session, page, joined, requests, pushes>>

(* Another device preempts the session, end-all ends it, or the reaper     *)
(* finds its lease lapsed; the device is told.                             *)
EndedElsewhere ==
  /\ row.status \in {"PLAYING", "PAUSED"}
  /\ row' = Over
  /\ lost' = lost \cup {row.id}
  /\ UNCHANGED <<session, page, joined, requests, snapshot>>

(* The request is answered, if there still is a page to hear of it. *)
Answer(r, id, outcome) ==
  requests' = (requests \ {r}) \cup
    (IF r.is = "unheard" THEN {} ELSE {[r EXCEPT !.session = id, !.is = outcome]})
Refuse(r) == Answer(r, r.session, "refused") /\ UNCHANGED row

(* claim: a new session in the place of the device's own, or a rejection. *)
ServeClaim(r) ==
  \/ /\ row.id < MaxSession
     /\ row' = [id |-> row.id + 1, status |-> "PLAYING", left |-> Lease]
     /\ Answer(r, row.id + 1, "ok")
  \/ Refuse(r)

(* The others are fenced by the session. *)
Fenced(r, condition, after) ==
  IF condition /\ row.id = r.session
  THEN row' = after /\ Answer(r, r.session, "ok")
  ELSE Refuse(r)

ServePause(r) == Fenced(r, Alive, [row EXCEPT !.status = "PAUSED", !.left = 0])
ServeRelease(r) == Fenced(r, Open, Over)

(* Faulty: the UPDATE asks for the device, not for the session. *)
BeatByDevice(r) ==
  IF Alive
  THEN row' = [row EXCEPT !.left = Lease] /\ Answer(r, r.session, "ok")
  ELSE Refuse(r)

ServeBeat(r) == Fenced(r, Alive, [row EXCEPT !.left = Lease])

ServeRequest(kind) ==
  /\ \E r \in requests :
       /\ r.kind = kind /\ r.is \in {"sent", "unheard"}
       /\ CASE kind = "claim" -> ServeClaim(r)
            [] kind = "pause" -> ServePause(r)
            [] kind \in {"release", "trackEnd"} -> ServeRelease(r)
            [] kind = "beat" -> ServeBeat(r)
  /\ UNCHANGED <<session, page, joined, pushes>>
-----------------------------------------------------------------------------
(* The socket.  A push goes to the sockets that are in the room by then.   *)
Join ==
  /\ ~joined /\ ~offline /\ joined' = TRUE
  /\ UNCHANGED <<row, session, page, requests, pushes>>

Drop ==
  /\ joined /\ joined' = FALSE
  /\ UNCHANGED <<row, session, page, requests, pushes>>

(* pushSnapshot reads the sessions of the account ... *)
ReadSessions ==
  /\ Open
  /\ snapshot' = [mine |-> row.id, status |-> row.status]
  /\ UNCHANGED <<row, session, page, joined, requests, lost>>

PhaseOf(status) == IF status = "PLAYING" THEN "playing" ELSE "paused"

(* ... and delivers them later.  The first snapshot of a page tells it     *)
(* whether the server still has a session of this device.                  *)
Adopt ==
  /\ joined /\ ~adopted /\ adopted' = TRUE
  /\ snapshot' = NoSessions
  /\ IF snapshot.mine # NoSession /\ sid = NoSession
     THEN sid' = snapshot.mine /\ phase' = PhaseOf(snapshot.status)
     ELSE UNCHANGED session
  /\ UNCHANGED <<row, offline, busy, joined, requests, lost>>

MarkLost == phase' = "stopped" /\ sid' = NoSession

OnSessionLost ==
  /\ \E s \in lost :
       /\ lost' = lost \ {s}
       /\ IF joined /\ s = sid THEN MarkLost ELSE UNCHANGED session
  /\ UNCHANGED <<row, page, joined, requests, snapshot>>
-----------------------------------------------------------------------------
(* The user and the timers. *)
Send(kind, id) ==
  /\ Cardinality(requests) < MaxFlight
  /\ requests' = requests \cup {[kind |-> kind, session |-> id, is |-> "sent"]}
  /\ UNCHANGED <<row, session, offline, adopted, joined, pushes>>

Enabled == ~busy /\ ~offline
HasSession == phase = "playing" /\ sid # NoSession

Play == Enabled /\ busy' = TRUE /\ Send("claim", NoSession)
PauseOrStop(kind) == Enabled /\ HasSession /\ busy' = TRUE /\ Send(kind, sid)

(* The position reached the track's duration; every tick finds it so until *)
(* the release is answered.                                                *)
TrackEnd == HasSession /\ ~offline /\ Send("trackEnd", sid) /\ UNCHANGED busy

Beat == HasSession /\ ~offline /\ Send("beat", sid) /\ UNCHANGED busy

GoOffline ==
  /\ ~offline /\ offline' = TRUE /\ joined' = FALSE
  /\ UNCHANGED <<row, session, busy, adopted, requests, pushes>>

(* The heartbeat that was due meanwhile is a Beat like any other. *)
ComeOnline ==
  /\ offline /\ offline' = FALSE
  /\ UNCHANGED <<row, session, busy, adopted, joined, requests, pushes>>

(* The page is reloaded: nobody hears the answers to its requests. *)
Reload ==
  /\ phase' = "idle" /\ sid' = NoSession
  /\ offline' = FALSE /\ busy' = FALSE /\ adopted' = FALSE
  /\ joined' = FALSE
  /\ requests' = {[r EXCEPT !.is = "unheard"] :
                    r \in {q \in requests : q.is \in {"sent", "unheard"}}}
  /\ UNCHANGED <<row, pushes>>
-----------------------------------------------------------------------------
(* The answers. *)
ClaimReturns(r) ==
  /\ busy' = FALSE
  /\ IF r.is = "ok"
     THEN sid' = r.session /\ phase' = "playing"
     ELSE UNCHANGED session

PauseReturns(r) ==
  /\ busy' = FALSE
  /\ IF r.is = "ok" THEN phase' = "paused" /\ UNCHANGED sid ELSE MarkLost

ReleaseReturns(r) ==
  /\ busy' = FALSE
  /\ IF r.is = "ok" THEN phase' = "idle" /\ sid' = NoSession ELSE MarkLost

(* Whatever the answer. *)
TrackEnded == phase' = "idle" /\ sid' = NoSession
TrackEndReturns(r) == TrackEnded /\ UNCHANGED busy

(* Faulty: a refused heartbeat is left to the push. *)
BeatIgnored(r) == UNCHANGED <<session, busy>>

BeatReturns(r) ==
  /\ IF r.is = "refused" /\ sid = r.session THEN MarkLost ELSE UNCHANGED session
  /\ UNCHANGED busy

Returns(kind) ==
  \E r \in requests :
    /\ r.kind = kind /\ r.is \in {"ok", "refused"}
    /\ requests' = requests \ {r}
    /\ CASE kind = "claim" -> ClaimReturns(r)
         [] kind = "pause" -> PauseReturns(r)
         [] kind = "release" -> ReleaseReturns(r)
         [] kind = "trackEnd" -> TrackEndReturns(r)
         [] kind = "beat" -> BeatReturns(r)
    /\ UNCHANGED <<row, offline, adopted, joined, pushes>>

(* The fetch fails, before or after the server served it: api.post throws  *)
(* and nobody catches it, so that a button's request leaves busy set.      *)
RequestFails ==
  /\ \E r \in requests : requests' = requests \ {r}
  /\ UNCHANGED <<row, session, page, joined, pushes>>

(* The server answers 500, which a heartbeat ignores and the end of the    *)
(* track does not look at.                                                 *)
ServerError(r) ==
  /\ r.is # "unheard"
  /\ requests' = requests \ {r}
  /\ IF r.kind = "trackEnd" THEN TrackEnded ELSE UNCHANGED session
  /\ busy' = (busy /\ r.kind \in {"beat", "trackEnd"})
  /\ UNCHANGED <<row, offline, adopted, joined, pushes>>
-----------------------------------------------------------------------------
DeviceNext ==
  \/ Tick \/ EndedElsewhere \/ \E kind \in RequestKind : ServeRequest(kind)
  \/ Join \/ Drop \/ ReadSessions \/ Adopt \/ OnSessionLost
  \/ Play \/ PauseOrStop("pause") \/ PauseOrStop("release") \/ TrackEnd \/ Beat
  \/ GoOffline \/ ComeOnline \/ Reload
  \/ RequestFails \/ \E r \in requests : ServerError(r)
  \/ \E kind \in RequestKind : Returns(kind)

DeviceSpec == DeviceInit /\ [][DeviceNext]_deviceVars

(* Time passes; the server serves and the answers arrive; the heartbeat    *)
(* timer fires, and of the heartbeats that are sent for ever not all get   *)
(* lost.  No push need arrive, and the user need do nothing.               *)
DeviceFairSpec ==
  /\ DeviceSpec
  /\ WF_deviceVars(Tick)
  /\ SF_deviceVars(Beat) /\ SF_deviceVars(ServeRequest("beat")) /\ SF_deviceVars(Returns("beat"))
  /\ WF_deviceVars(\E kind \in RequestKind \ {"beat"} : ServeRequest(kind) \/ Returns(kind))
-----------------------------------------------------------------------------
(* useDeviceSession: a device that is online does not go on playing a      *)
(* session the server has ended, whatever push it missed and whatever      *)
(* crossed the claim's answer.                                             *)
PlaysLost == HasSession /\ ~(Alive /\ row.id = sid)
LostIsNoticed == PlaysLost ~> (~PlaysLost \/ offline)

(* The lease: a stream the device does not know it has (the answer was     *)
(* lost, another answer cleared it, the page was reloaded) does not hold   *)
(* its slot for ever.                                                      *)
Orphan == Alive /\ row.id # sid
OrphanEnds == Orphan ~> ~Orphan
=============================================================================
