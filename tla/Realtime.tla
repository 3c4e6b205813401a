------------------------------ MODULE Realtime ------------------------------
(***************************************************************************)
(* One account's room: the server pushes snapshots after each commit and   *)
(* each change of presence (realtime/socket.ts, presence.ts), the browser  *)
(* keeps the newest one (web lib/socket.ts, versionedStore.ts).            *)
(*                                                                         *)
(* A snapshot is its state_version: readSnapshot reads everything in one   *)
(* consistent snapshot, and every change bumps the version.  Heartbeats    *)
(* push the same version again, which adds nothing here.  Two pushes may   *)
(* read in one order and emit in the other; one connection delivers in     *)
(* order, so a snapshot arrives when it is emitted or, when the client     *)
(* has lost that connection, never.                                        *)
(***************************************************************************)
EXTENDS Integers, FiniteSets

CONSTANTS
  Client,      \* browser panels and observers, each with its own connection
  Panel,       \* those of them that joined as the device
  Socket,      \* the server's sockets
  Push,        \* pushSnapshot calls under way
  NoClient, NoSocket,
  MaxVersion,  \* bound: commits
  MaxDrops     \* bound: lost connections, restarts, failed joins and reads

ASSUME RealtimeAssumption ==
  /\ Panel \subseteq Client /\ NoClient \notin Client /\ NoSocket \notin Socket
  /\ IsFiniteSet(Socket)
  /\ MaxVersion \in Nat /\ MaxDrops \in Nat

VARIABLES
  version,     \* account.state_version as committed
  online,      \* presence: joined sockets of the device
  socket,      \* each socket as the server sees it
  push,        \* each pushSnapshot call
  cur,         \* the connection each client has
  shown,       \* version its VersionedStore holds, -1 for none
  failed,      \* the version at which a snapshot was last lost
  drops        \* faults so far

vars == <<version, online, socket, push, cur, shown, failed, drops>>

(* "open": connected, the join handler waits for its UPDATE; "room": in    *)
(* the room, the handler not resumed yet; "joined": it is done; "mute":    *)
(* it failed, and the client, who ignores the answer, stays connected.     *)
NoConn == [stage |-> "free", client |-> NoClient, alive |-> FALSE]
Conn == [stage : {"free", "open", "room", "joined", "mute"}, client : Client \cup {NoClient}, alive : BOOLEAN]

(* A call reads ("asked"), then emits ("read") to the room or one socket.  *)
NoPush == [stage |-> "none", to |-> NoSocket, version |-> 0]
Call == [stage : {"none", "asked", "read"}, to : Socket \cup {NoSocket}, version : 0..MaxVersion]

InRoom == {s \in Socket : socket[s].alive /\ socket[s].stage \in {"room", "joined"}}
Joined(s) == socket[s].alive /\ socket[s].stage = "joined" /\ socket[s].client \in Panel
Fault == drops < MaxDrops /\ drops' = drops + 1

Init ==
  /\ version = 0 /\ online = 0
  /\ socket = [s \in Socket |-> NoConn]
  /\ push = [p \in Push |-> NoPush]
  /\ cur = [c \in Client |-> NoSocket]
  /\ shown = [c \in Client |-> -1]
  /\ failed = -1 /\ drops = 0

(* pushSnapshot starts; NoSocket is the whole room. *)
Ask(to) == \E p \in Push :
  /\ push[p].stage = "none"
  /\ push' = [push EXCEPT ![p] = [stage |-> "asked", to |-> to, version |-> 0]]

(* publish().accountChanged, after the COMMIT. *)
Commit ==
  /\ version < MaxVersion /\ version' = version + 1 /\ Ask(NoSocket)
  /\ UNCHANGED <<online, socket, cur, shown, failed, drops>>

ReadSnapshot(p) ==
  /\ push[p].stage = "asked"
  /\ push' = [push EXCEPT ![p].stage = "read", ![p].version = version]
  /\ UNCHANGED <<version, online, socket, cur, shown, failed, drops>>

(* The read fails: nobody tries again. *)
ReadFails(p) ==
  /\ push[p].stage = "asked" /\ Fault
  /\ push' = [push EXCEPT ![p] = NoPush] /\ failed' = version
  /\ UNCHANGED <<version, online, socket, cur, shown>>

(* Faulty: a snapshot replaces what is shown, whatever its version. *)
ApplyAnyVersion(held, next) == next

(* VersionedStore.apply drops a lower version. *)
Apply(held, next) == IF next < held THEN held ELSE next

(* The snapshot goes to the room, or to the socket that joined. *)
Emit(p) ==
  LET to == IF push[p].to = NoSocket THEN InRoom
            ELSE {s \in {push[p].to} : socket[s].alive}
  IN /\ push[p].stage = "read"
     /\ shown' = [c \in Client |->
          IF cur[c] \in to THEN Apply(shown[c], push[p].version) ELSE shown[c]]
     /\ push' = [push EXCEPT ![p] = NoPush]
     /\ UNCHANGED <<version, online, socket, cur, failed, drops>>
-----------------------------------------------------------------------------
(* The client connects, or socket.io reconnects it, and sends its join. *)
Connect(c) == \E s \in Socket :
  /\ cur[c] = NoSocket /\ socket[s] = NoConn
  /\ \A p \in Push : push[p].to # s
  /\ cur' = [cur EXCEPT ![c] = s]
  /\ socket' = [socket EXCEPT ![s] = [stage |-> "open", client |-> c, alive |-> TRUE]]
  /\ UNCHANGED <<version, online, push, shown, failed, drops>>

(* The device UPDATE is answered and the rooms are joined; a socket that   *)
(* is gone by then joins none.                                             *)
EnterRoom(s) ==
  /\ socket[s].stage = "open"
  /\ socket' = [socket EXCEPT ![s].stage = "room"]
  /\ UNCHANGED <<version, online, push, cur, shown, failed, drops>>

JoinFails(s) ==
  /\ socket[s].stage = "open" /\ Fault
  /\ socket' = [socket EXCEPT ![s] = IF @.alive THEN [@ EXCEPT !.stage = "mute"] ELSE NoConn]
  /\ UNCHANGED <<version, online, push, cur, shown, failed>>

(* Faulty: the handler does not look whether the socket is still there. *)
JoinDoneAnyway(s) ==
  /\ socket[s].stage = "room"
  /\ socket' = [socket EXCEPT ![s].stage = "joined"]
  /\ online' = IF socket[s].client \in Panel THEN online + 1 ELSE online
  /\ IF online' = 1 /\ online = 0 THEN Ask(NoSocket) ELSE Ask(s)
  /\ UNCHANGED <<version, cur, shown, failed, drops>>

(* The handler resumes: deviceConnected, and the first snapshot, for       *)
(* everybody if the device just came online.                               *)
JoinDone(s) ==
  /\ socket[s].stage = "room"
  /\ IF ~socket[s].alive
     THEN socket' = [socket EXCEPT ![s] = NoConn] /\ UNCHANGED <<online, push>>
     ELSE /\ socket' = [socket EXCEPT ![s].stage = "joined"]
          /\ online' = IF socket[s].client \in Panel THEN online + 1 ELSE online
          /\ IF online' = 1 /\ online = 0 THEN Ask(NoSocket) ELSE Ask(s)
  /\ UNCHANGED <<version, cur, shown, failed, drops>>

(* The server notices that the connection is gone: rooms are left, and     *)
(* joined sockets of the device are discounted.                            *)
ServerNotices(s) ==
  /\ socket[s].alive /\ cur[socket[s].client] # s
  /\ socket' = [socket EXCEPT ![s] =
       IF @.stage \in {"joined", "mute"} THEN NoConn ELSE [@ EXCEPT !.alive = FALSE]]
  /\ IF Joined(s)
     THEN /\ online' = online - 1
          /\ IF online = 1 THEN Ask(NoSocket) ELSE UNCHANGED push
     ELSE UNCHANGED <<online, push>>
  /\ UNCHANGED <<version, cur, shown, failed, drops>>

(* The connection breaks, or the panel goes offline; the server learns of  *)
(* it later.                                                               *)
ConnectionLost(c) ==
  /\ cur[c] # NoSocket /\ Fault
  /\ cur' = [cur EXCEPT ![c] = NoSocket]
  /\ UNCHANGED <<version, online, socket, push, shown, failed>>

(* The server process restarts: presence and pushes are gone, the version  *)
(* is in the database.                                                     *)
Restart ==
  /\ Fault
  /\ online' = 0 /\ socket' = [s \in Socket |-> NoConn] /\ push' = [p \in Push |-> NoPush]
  /\ cur' = [c \in Client |-> NoSocket]
  /\ UNCHANGED <<version, shown, failed>>

Work ==
  \/ \E p \in Push : ReadSnapshot(p) \/ Emit(p)
  \/ \E s \in Socket : EnterRoom(s) \/ JoinDone(s) \/ ServerNotices(s)

Next ==
  \/ Commit \/ Work
  \/ \E c \in Client : Connect(c) \/ ConnectionLost(c)
  \/ \E p \in Push : ReadFails(p)
  \/ \E s \in Socket : JoinFails(s)
  \/ Restart

Spec == Init /\ [][Next]_vars

(* What the server and the network have begun is finished. *)
FairSpec == Spec /\ WF_vars(Work)
-----------------------------------------------------------------------------
TypeOK ==
  /\ version \in 0..MaxVersion /\ online \in 0..Cardinality(Socket)
  /\ socket \in [Socket -> Conn] /\ push \in [Push -> Call]
  /\ cur \in [Client -> Socket \cup {NoSocket}]
  /\ shown \in [Client -> -1..MaxVersion]
  /\ failed \in -1..MaxVersion /\ drops \in 0..MaxDrops

(* presence.ts: the device counts as online exactly for its joined sockets *)
(* that are still connected, although a join waits for the database while  *)
(* its socket may go and come back.                                        *)
OnlineIsConnected == online = Cardinality({s \in Socket : Joined(s)})

(* versionedStore.ts, "keeps only the newest account state": who has       *)
(* joined and stays ends up with the committed state, whatever order the   *)
(* snapshots were read and emitted in, unless a read at this very version  *)
(* failed.                                                                 *)
CatchesUp ==
  \A c \in Client :
    <>[](shown[c] = version \/ failed = version
         \/ cur[c] = NoSocket \/ socket[cur[c]].stage = "mute")
=============================================================================
